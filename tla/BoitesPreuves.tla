---------------------------- MODULE BoitesPreuves ----------------------------
(***************************************************************************)
(* Proofs about Boites, for any number of people, messages, gestures and   *)
(* failures.  The invariants come one after the other:                     *)
(*   PagesJustes  what tables, events, answers and pages hold exists, is   *)
(*                about moi and comes once;                                *)
(*   PagesCalmes  adds what a component that nothing disturbed shows: its  *)
(*                messages are on the page or in the events it will get;   *)
(*   LusCalmes    adds that what is marked read was shown;                 *)
(*   ClocheCalme  adds that what the bell shows, with the events that it   *)
(*                will count, is what is left to read, or no less than it  *)
(*                once a count was refused.                                *)
(***************************************************************************)
EXTENDS Boites, FiniteSetTheorems, WellFoundedInduction, TLAPS

----------------------------------------------------------------------------
(* Ids in their order.                                                     *)

\* The ids up to n are finitely many.
LEMMA IdsFinis ==
  ASSUME NEW n \in Nat
  PROVE  IsFiniteSet(1..n)
BY FS_Interval

\* A set of ids can be put in its order.
LEMMA OrdreExiste ==
  ASSUME NEW N \in Nat, NEW S \in SUBSET (1..N)
  PROVE  \E f \in [1..Cardinality(S) -> S] :
           \A i, j \in 1..Cardinality(S) : i < j => f[i] < f[j]
<1> DEFINE Bon(n) == \A T \in SUBSET (1..n) :
             \E f \in [1..Cardinality(T) -> T] :
               \A i, j \in 1..Cardinality(T) : i < j => f[i] < f[j]
           Mal == {n \in Nat : ~Bon(n)}
<1>1. SUFFICES ASSUME Mal # {}
               PROVE  FALSE
  OBVIOUS
<1>2. PICK n \in Mal : \A k \in Mal : ~(<<k, n>> \in OpToRel(<, Nat))
  <2>1. Mal \subseteq Nat
    OBVIOUS
  <2> HIDE DEF Mal
  <2> QED
    BY <1>1, <2>1, NatLessThanWellFounded, WFMin
<1>3. \A k \in Mal : ~(k < n)
  BY <1>2 DEF OpToRel
<1>4. PICK T \in SUBSET (1..n) :
        ~\E f \in [1..Cardinality(T) -> T] :
           \A i, j \in 1..Cardinality(T) : i < j => f[i] < f[j]
  OBVIOUS
<1>5. n \in Nat /\ IsFiniteSet(1..n)
  BY FS_Interval
<1>6. IsFiniteSet(T) /\ Cardinality(T) \in Nat
  BY <1>5, FS_Subset, FS_CardinalityType
<1>7. CASE T = {}
  <2>1. Cardinality(T) = 0
    BY <1>7, FS_EmptySet
  <2> DEFINE f == [i \in 1..0 |-> 0]
  <2>2. f \in [1..Cardinality(T) -> T]
    BY <2>1
  <2>3. 1..Cardinality(T) = {}
    BY <2>1
  <2> QED
    BY <1>4, <2>2, <2>3
<1>8. CASE T # {}
  <2>1. n # 0 /\ n - 1 \in Nat /\ n - 1 < n
    <3>1. PICK x \in T : x \in 1..n
      BY <1>8
    <3> QED
      BY <1>5, <3>1
  <2>2. Bon(n - 1)
    BY <1>3, <2>1
  <2>3. CASE n \notin T
    <3>1. T \in SUBSET (1..(n - 1))
      BY <1>5, <2>1, <2>3
    <3> QED
      BY <1>4, <2>2, <3>1
  <2>4. CASE n \in T
    <3> DEFINE U == T \ {n}
               c == Cardinality(U)
    <3>1. U \in SUBSET (1..(n - 1))
      BY <1>5, <2>1
    <3>2. IsFiniteSet(U) /\ c \in Nat /\ Cardinality(T) = c + 1
      <4>1. IsFiniteSet(U) /\ c = Cardinality(T) - 1
        BY <1>6, <2>4, FS_RemoveElement
      <4>2. c \in Nat
        BY <4>1, FS_CardinalityType
      <4> QED
        BY <1>6, <4>1, <4>2
    <3>3. PICK g \in [1..c -> U] : \A i, j \in 1..c : i < j => g[i] < g[j]
      BY <2>2, <3>1
    <3> DEFINE f == [i \in 1..(c + 1) |-> IF i = c + 1 THEN n ELSE g[i]]
    <3> HIDE DEF c
    <3>4. \A i \in 1..(c + 1) : i = c + 1 \/ i \in 1..c
      BY <3>2
    <3>5. f \in [1..(c + 1) -> T]
      BY <2>4, <3>3, <3>4
    <3>6. ASSUME NEW i \in 1..(c + 1), NEW j \in 1..(c + 1), i < j
          PROVE  f[i] < f[j]
      <4>1. i \in 1..c /\ f[i] = g[i] /\ g[i] \in U
        BY <3>2, <3>3, <3>6
      <4>2. CASE j = c + 1
        <5>1. g[i] \in 1..(n - 1)
          BY <3>1, <4>1
        <5> QED
          BY <2>1, <4>1, <4>2, <5>1
      <4>3. CASE j # c + 1
        BY <3>2, <3>3, <3>6, <4>1, <4>3
      <4> QED
        BY <4>2, <4>3
    <3> QED
      BY <1>4, <3>2, <3>5, <3>6
  <2> QED
    BY <2>3, <2>4
<1> QED
  BY <1>7, <1>8

\* Croissant has every id of its set once.
LEMMA CroissantVrai ==
  ASSUME NEW N \in Nat, NEW S \in SUBSET (1..N)
  PROVE  /\ Croissant(S) \in Seq(S) /\ IsInjective(Croissant(S))
         /\ ToSet(Croissant(S)) = S
<1>1. IsFiniteSet(S) /\ Cardinality(S) \in Nat
  <2>1. IsFiniteSet(1..N)
    BY FS_Interval
  <2> QED
    BY <2>1, FS_Subset, FS_CardinalityType
<1>2. PICK g \in [1..Cardinality(S) -> S] :
        \A i, j \in 1..Cardinality(S) : i < j => g[i] < g[j]
  BY OrdreExiste
<1> DEFINE f == Croissant(S)
<1>3. f \in [1..Cardinality(S) -> S] /\ \A i, j \in DOMAIN f : i < j => f[i] < f[j]
  <2>1. DOMAIN g = 1..Cardinality(S)
    OBVIOUS
  <2> QED
    BY <1>2, <2>1 DEF Croissant
<1> HIDE DEF f
<1>4. \A i, j \in 1..Cardinality(S) : f[i] = f[j] => i = j
  <2> SUFFICES ASSUME NEW i \in 1..Cardinality(S), NEW j \in 1..Cardinality(S),
                      f[i] = f[j], i # j
               PROVE  FALSE
    OBVIOUS
  <2>1. i < j \/ j < i
    BY <1>1
  <2>2. f[i] \in Int
    <3>1. f[i] \in S
      BY <1>3
    <3>2. \A x \in S : x \in Int
      OBVIOUS
    <3> QED
      BY <3>1, <3>2
  <2>3. f[i] < f[j] \/ f[j] < f[i]
    BY <1>3, <2>1
  <2> QED
    BY <2>2, <2>3
<1>5. f \in Injection(1..Cardinality(S), S)
  BY <1>3, <1>4 DEF Injection, IsInjective
<1>6. IsFiniteSet(1..Cardinality(S)) /\ Cardinality(1..Cardinality(S)) = Cardinality(S)
  BY <1>1, FS_Interval
<1>7. f \in Surjection(1..Cardinality(S), S)
  BY <1>1, <1>5, <1>6, FS_Injection
<1>8. ToSet(f) = S
  BY <1>3, <1>7 DEF ToSet, Surjection
<1> QED
  BY <1>1, <1>3, <1>5, <1>8 DEF f, Injection, IsInjective

----------------------------------------------------------------------------
(* Sequences of ids.                                                       *)

LEMMA SuiteVraie ==
  ASSUME NEW s \in Seq(Nat)
  PROVE  /\ ToSet(s) \subseteq Nat /\ \A i \in 1..Len(s) : s[i] \in ToSet(s)
         /\ \A x \in ToSet(s) : \E i \in 1..Len(s) : s[i] = x
         /\ DOMAIN s = 1..Len(s) /\ Len(s) \in Nat
  BY DEF ToSet

LEMMA VideVrai ==
  /\ << >> \in Seq(Nat) /\ ToSet(<< >>) = {} /\ IsInjective(<< >>)
  BY DEF ToSet, IsInjective

LEMMA AppendVrai ==
  ASSUME NEW s \in Seq(Nat), NEW x \in Nat
  PROVE  /\ Append(s, x) \in Seq(Nat) /\ ToSet(Append(s, x)) = ToSet(s) \cup {x}
         /\ IsInjective(s) /\ x \notin ToSet(s) => IsInjective(Append(s, x))
<1> DEFINE t == Append(s, x)
<1>1. /\ t \in Seq(Nat) /\ Len(t) = Len(s) + 1 /\ Len(s) \in Nat
      /\ \A i \in 1..Len(s) : t[i] = s[i]
      /\ t[Len(s) + 1] = x
  OBVIOUS
<1>2. DOMAIN t = 1..(Len(s) + 1) /\ DOMAIN s = 1..Len(s)
  BY <1>1
<1> HIDE DEF t
<1>3. \A i \in 1..(Len(s) + 1) : i \in 1..Len(s) \/ i = Len(s) + 1
  BY <1>1
<1>4. ToSet(t) = ToSet(s) \cup {x}
  BY <1>1, <1>2, <1>3 DEF ToSet
<1>5. ASSUME IsInjective(s), x \notin ToSet(s)
      PROVE  IsInjective(t)
  BY <1>1, <1>2, <1>3, <1>5 DEF IsInjective, ToSet
<1> QED
  BY <1>1, <1>4, <1>5 DEF t

LEMMA AjouteVrai ==
  ASSUME NEW s \in Seq(Nat), NEW x \in Nat
  PROVE  /\ AjouteSiAbsent(s, x) \in Seq(Nat)
         /\ ToSet(AjouteSiAbsent(s, x)) = ToSet(s) \cup {x}
         /\ IsInjective(s) => IsInjective(AjouteSiAbsent(s, x))
  BY AppendVrai DEF AjouteSiAbsent

LEMMA TailVrai ==
  ASSUME NEW s \in Seq(Nat), s # << >>
  PROVE  /\ Tail(s) \in Seq(Nat) /\ Head(s) \in Nat
         /\ ToSet(s) = ToSet(Tail(s)) \cup {Head(s)}
<1>1. /\ Tail(s) \in Seq(Nat) /\ Head(s) = s[1] /\ Len(s) \in Nat /\ 1 \in 1..Len(s)
      /\ Len(Tail(s)) = Len(s) - 1
      /\ \A i \in 1..(Len(s) - 1) : Tail(s)[i] = s[i + 1]
  OBVIOUS
<1>2. DOMAIN s = 1..Len(s) /\ DOMAIN Tail(s) = 1..(Len(s) - 1)
  BY <1>1
<1>3. ASSUME NEW x \in ToSet(s)
      PROVE  x \in ToSet(Tail(s)) \cup {Head(s)}
  <2>1. PICK i \in 1..Len(s) : x = s[i]
    BY <1>2 DEF ToSet
  <2>2. CASE i = 1
    BY <1>1, <2>1, <2>2
  <2>3. CASE i # 1
    <3>1. i - 1 \in 1..(Len(s) - 1) /\ (i - 1) + 1 = i
      BY <1>1, <2>3
    <3>2. Tail(s)[i - 1] = x
      BY <1>1, <2>1, <3>1
    <3> QED
      BY <1>2, <3>1, <3>2 DEF ToSet
  <2> QED
    BY <2>2, <2>3
<1>4. ASSUME NEW x \in ToSet(Tail(s))
      PROVE  x \in ToSet(s)
  <2>1. PICK i \in 1..(Len(s) - 1) : x = Tail(s)[i]
    BY <1>2 DEF ToSet
  <2>2. i + 1 \in 1..Len(s)
    BY <1>1
  <2> QED
    BY <1>1, <1>2, <2>1, <2>2 DEF ToSet
<1>5. Head(s) \in ToSet(s)
  BY <1>1, <1>2 DEF ToSet
<1> QED
  BY <1>1, <1>3, <1>4, <1>5

LEMMA DevantVrai ==
  ASSUME NEW s \in Seq(Nat), NEW x \in Nat
  PROVE  <<x>> \o s \in Seq(Nat) /\ ToSet(<<x>> \o s) = ToSet(s) \cup {x}
<1> DEFINE t == <<x>> \o s
<1>1. /\ t \in Seq(Nat) /\ Len(t) = Len(s) + 1 /\ Len(s) \in Nat
      /\ t[1] = x /\ \A i \in 2..(Len(s) + 1) : t[i] = s[i - 1]
  OBVIOUS
<1>2. DOMAIN t = 1..(Len(s) + 1) /\ DOMAIN s = 1..Len(s)
  BY <1>1
<1> HIDE DEF t
<1>3. ASSUME NEW y \in ToSet(t)
      PROVE  y \in ToSet(s) \cup {x}
  <2>1. PICK i \in 1..(Len(s) + 1) : y = t[i]
    BY <1>2 DEF ToSet
  <2>2. i = 1 \/ (i \in 2..(Len(s) + 1) /\ i - 1 \in 1..Len(s))
    BY <1>1
  <2> QED
    BY <1>1, <1>2, <2>1, <2>2 DEF ToSet
<1>4. ASSUME NEW y \in ToSet(s)
      PROVE  y \in ToSet(t)
  <2>1. PICK i \in 1..Len(s) : y = s[i]
    BY <1>2 DEF ToSet
  <2>2. i + 1 \in 2..(Len(s) + 1) /\ i + 1 \in 1..(Len(s) + 1) /\ (i + 1) - 1 = i
    BY <1>1
  <2>3. t[i + 1] = y
    BY <1>1, <2>1, <2>2
  <2> QED
    BY <1>2, <2>2, <2>3 DEF ToSet
<1>5. x \in ToSet(t)
  <2>1. 1 \in 1..(Len(s) + 1)
    BY <1>1
  <2> QED
    BY <1>1, <1>2, <2>1 DEF ToSet
<1> QED
  BY <1>1, <1>3, <1>4, <1>5 DEF t

LEMMA ReverseVrai ==
  ASSUME NEW s \in Seq(Nat)
  PROVE  /\ Reverse(s) \in Seq(Nat) /\ ToSet(Reverse(s)) = ToSet(s)
         /\ IsInjective(s) => IsInjective(Reverse(s))
<1> DEFINE t == Reverse(s)
<1>1. Len(s) \in Nat /\ DOMAIN s = 1..Len(s)
  OBVIOUS
<1>2. \A i \in 1..Len(s) : Len(s) - i + 1 \in 1..Len(s)
  BY <1>1
<1>3. /\ t \in Seq(Nat) /\ DOMAIN t = 1..Len(s)
      /\ \A i \in 1..Len(s) : t[i] = s[(Len(s) - i) + 1]
  BY <1>1, <1>2 DEF Reverse
<1> HIDE DEF t
<1>4. ASSUME NEW x \in ToSet(s)
      PROVE  x \in ToSet(t)
  <2>1. PICK i \in 1..Len(s) : x = s[i]
    BY <1>1 DEF ToSet
  <2>2. Len(s) - i + 1 \in 1..Len(s) /\ (Len(s) - (Len(s) - i + 1)) + 1 = i
    BY <1>1, <1>2
  <2>3. t[Len(s) - i + 1] = x
    BY <1>3, <2>1, <2>2
  <2> QED
    BY <1>3, <2>2, <2>3 DEF ToSet
<1>5. ASSUME NEW x \in ToSet(t)
      PROVE  x \in ToSet(s)
  <2>1. PICK i \in 1..Len(s) : x = t[i]
    BY <1>3 DEF ToSet
  <2> QED
    BY <1>1, <1>2, <1>3, <2>1 DEF ToSet
<1>6. ASSUME IsInjective(s)
      PROVE  IsInjective(t)
  <2> SUFFICES ASSUME NEW i \in 1..Len(s), NEW j \in 1..Len(s), t[i] = t[j]
               PROVE  i = j
    BY <1>3 DEF IsInjective
  <2>1. (Len(s) - i) + 1 = (Len(s) - j) + 1
    BY <1>1, <1>2, <1>3, <1>6 DEF IsInjective
  <2> QED
    BY <1>1, <2>1
<1> QED
  BY <1>3, <1>4, <1>5, <1>6 DEF t

----------------------------------------------------------------------------
(* What is on the pages, and on its way to them.                           *)

\* The messages moi may see, and those of the driver.
MesIds == {i \in Ids : messages[i].a = Tous \/ moi \in {messages[i].de, messages[i].a}}
DuLivreur == {i \in Ids : Livreur \in {messages[i].de, messages[i].a}}

\* Those who have a message to read, and whether everyone has.
Lecteurs(i) == {l.qui : l \in {l \in lectures : l.m = i}}
Diffusee(i) == Lecteurs(i) = Personnes \ {messages[i].de}

MessageT == [de : Personnes, a : Personnes \cup {Tous}, lu : BOOLEAN]
EnvoiT ==
  [de : Personnes, a : Personnes \cup {Tous}, m : Nat, pc : {"lectures", "emettre"}]
VueT ==
  [choix : Personnes \cup {Tous, Aucun}, ouvert : BOOLEAN, fil : Seq(Nat),
   annonces : Seq(Nat)]
DemandeT ==
  [n : Nat, par : ecran, avec : Personnes \cup {Tous},
   pc : {"lire", "marquer", "repondre"}, lus : Seq(Nat)]
ComptageT == [n : Nat, total : Nat \cup {-1}]

FormesServeur ==
  /\ moi \in Personnes /\ ecran \in Ecrans
  /\ messages \in Seq(MessageT)
  /\ lectures \subseteq [m : Ids, qui : Personnes, lu : BOOLEAN]
  /\ envois \subseteq EnvoiT
  /\ gestes \in Nat /\ pannes \in Nat

FormesPages ==
  /\ prise \in [Actifs -> Etats] /\ file \in [Actifs -> Seq(Nat)]
  /\ vue \in [ecran -> VueT]
  /\ demandes \subseteq DemandeT

FormesCloche ==
  /\ compte \in Nat /\ connu \in BOOLEAN
  /\ comptages \subseteq ComptageT

\* A message under way is one of the table, and a broadcast is emitted once
\* everyone has it to read.
EnvoiJuste(e) ==
  /\ e.m \in Ids /\ messages[e.m].de = e.de /\ messages[e.m].a = e.a
  /\ e.pc = "lectures" => e.a = Tous
  /\ e.pc = "emettre" /\ e.a = Tous => Diffusee(e.m)

LectureJuste(l) == messages[l.m].a = Tous /\ l.qui # messages[l.m].de

FileJuste(s) ==
  /\ ToSet(file[s]) \subseteq MesIds
  /\ \A i \in ToSet(file[s]) : messages[i].a = Tous => Diffusee(i)

VueJuste(s) ==
  /\ ToSet(vue[s].fil) \subseteq MesIds /\ ToSet(vue[s].annonces) \subseteq MesIds
  /\ IsInjective(vue[s].fil)
  /\ s = "livreur" =>
       vue[s].choix = Livreur /\ ToSet(vue[s].fil) \subseteq DuLivreur

DemandeJuste(r) ==
  /\ ToSet(r.lus) \subseteq MesIds /\ IsInjective(r.lus)
  /\ r.par = "livreur" => r.avec = Livreur /\ ToSet(r.lus) \subseteq DuLivreur

PagesJustes ==
  /\ FormesServeur /\ FormesPages /\ FormesCloche
  /\ \A e \in envois : EnvoiJuste(e)
  /\ \A l \in lectures : LectureJuste(l)
  /\ \A s \in Actifs : FileJuste(s)
  /\ \A s \in ecran : VueJuste(s)
  /\ \A r \in demandes : DemandeJuste(r)

LEMMA Constantes ==
  ASSUME MessagerieAssumption, BoitesAssumption
  PROVE  /\ Support \in Personnes /\ Livreur \in Personnes /\ Tous \notin Personnes
         /\ Aucun \notin Personnes /\ Aucun # Tous
         /\ \A c \in Courriers : c[1] \in Personnes /\ c[2] \in Personnes \cup {Tous}
         /\ \A E \in Ecrans : "cloche" \notin E
         /\ IsFiniteSet(Personnes) /\ Observes \subseteq Personnes
  BY DEF MessagerieAssumption, BoitesAssumption

\* The count of the bell when it is mounted.
LEMMA PremierComptage ==
  ASSUME Init
  PROVE  /\ comptages \subseteq ComptageT /\ IsFiniteSet(comptages) /\ gestes \in Nat
         /\ Cardinality(comptages) \leq 1 /\ \A r, q \in comptages : r = q
         /\ \A r \in comptages : r.total = -1
<1>1. PICK r : r = [n |-> 0, total |-> -1]
  OBVIOUS
<1>2. comptages \in {{}, {r}} /\ gestes = Cardinality(comptages)
  BY <1>1 DEF Init
<1>3. r.total = -1 /\ r \in ComptageT
  BY <1>1 DEF ComptageT
<1>4. IsFiniteSet(comptages) /\ Cardinality(comptages) \in {0, 1}
  <2>1. CASE comptages = {}
    BY <2>1, FS_EmptySet
  <2>2. CASE comptages = {r}
    BY <2>2, FS_Singleton
  <2> QED
    BY <1>2, <2>1, <2>2
<1>5. gestes \in Nat /\ Cardinality(comptages) \leq 1
  BY <1>2, <1>4
<1>6. /\ comptages \subseteq ComptageT /\ \A p, q \in comptages : p = q
      /\ \A p \in comptages : p.total = -1
  BY <1>2, <1>3
<1> QED
  BY <1>4, <1>5, <1>6

LEMMA InitPages ==
  ASSUME MessagerieAssumption, BoitesAssumption, Init
  PROVE  PagesJustes
<1>1. /\ messages = << >> /\ lectures = {} /\ envois = {} /\ pannes = 0
      /\ moi \in Personnes /\ ecran \in Ecrans
      /\ prise = [s \in Actifs |-> "jointe"]
      /\ file = [s \in Actifs |-> << >>] /\ compte = 0 /\ connu = FALSE
      /\ vue = [s \in ecran |-> [choix |-> IF s = "livreur" THEN Livreur ELSE Aucun,
                                 ouvert |-> s \in {"boite", "admin"},
                                 fil |-> << >>, annonces |-> << >>]]
      /\ demandes = {}
  BY Constantes DEF Init, InitServeur
<1>2. FormesServeur
  BY <1>1, PremierComptage DEF FormesServeur
<1>3. FormesPages
  BY <1>1, Constantes DEF FormesPages, Etats, VueT
<1>4. FormesCloche
  BY <1>1, PremierComptage DEF FormesCloche
<1>5. \A s \in Actifs : FileJuste(s)
  BY <1>1, VideVrai DEF FileJuste
<1>6. \A s \in ecran : VueJuste(s)
  BY <1>1, VideVrai DEF VueJuste
<1> QED
  BY <1>1, <1>2, <1>3, <1>4, <1>5, <1>6 DEF PagesJustes

----------------------------------------------------------------------------
(* The steps keep them.                                                    *)

\* Messages are added, and keep their ends.
LEMMA IdsStables ==
  ASSUME FormesServeur, UNCHANGED moi, FormesServeur',
         Len(messages) <= Len(messages'),
         \A i \in Ids : messages'[i].de = messages[i].de /\ messages'[i].a = messages[i].a
  PROVE  Ids \subseteq Ids' /\ MesIds \subseteq MesIds' /\ DuLivreur \subseteq DuLivreur'
<1>1. Len(messages) \in Nat /\ Len(messages') \in Nat
  BY DEF FormesServeur
<1>2. Ids \subseteq Ids'
  BY <1>1 DEF Ids
<1> QED
  BY <1>2 DEF MesIds, DuLivreur

\* What is shown or on its way stays right when messages are added.
LEMMA PagesStables ==
  ASSUME PagesJustes, UNCHANGED <<moi, ecran>>, FormesServeur',
         Len(messages) <= Len(messages'),
         \A i \in Ids : messages'[i].de = messages[i].de /\ messages'[i].a = messages[i].a,
         \A i \in Ids : Diffusee(i) => Diffusee(i)'
  PROVE  /\ \A s \in Actifs : file'[s] = file[s] => FileJuste(s)'
         /\ \A s \in ecran : vue'[s] = vue[s] => VueJuste(s)'
         /\ \A r \in demandes : DemandeJuste(r)'
         /\ \A e \in envois : EnvoiJuste(e)'
<1>1. Ids \subseteq Ids' /\ MesIds \subseteq MesIds' /\ DuLivreur \subseteq DuLivreur'
  BY IdsStables DEF PagesJustes
<1>2. MesIds \subseteq Ids
  BY DEF MesIds
<1>3. ASSUME NEW s \in Actifs, file'[s] = file[s]
      PROVE  FileJuste(s)'
  BY <1>1, <1>2, <1>3 DEF FileJuste, PagesJustes
<1>4. ASSUME NEW s \in ecran, vue'[s] = vue[s]
      PROVE  VueJuste(s)'
  BY <1>1, <1>4 DEF VueJuste, PagesJustes
<1>5. ASSUME NEW r \in demandes
      PROVE  DemandeJuste(r)'
  BY <1>1, <1>5 DEF DemandeJuste, PagesJustes
<1>6. ASSUME NEW e \in envois
      PROVE  EnvoiJuste(e)'
  BY <1>1, <1>6 DEF EnvoiJuste, PagesJustes
<1> QED
  BY <1>3, <1>4, <1>5, <1>6

\* The tables stay as they are.
LEMMA TablesFigees ==
  ASSUME PagesJustes, UNCHANGED <<moi, ecran, messages, lectures>>, FormesServeur'
  PROVE  /\ \A s \in Actifs : file'[s] = file[s] => FileJuste(s)'
         /\ \A s \in ecran : vue'[s] = vue[s] => VueJuste(s)'
         /\ \A r \in demandes : DemandeJuste(r)'
         /\ \A e \in envois : EnvoiJuste(e)'
         /\ \A l \in lectures' : LectureJuste(l)'
         /\ MesIds' = MesIds /\ DuLivreur' = DuLivreur /\ Ids' = Ids
         /\ \A i \in Ids : Diffusee(i)' = Diffusee(i)
<1>1. \A i \in Ids : Diffusee(i)' = Diffusee(i)
  BY DEF Diffusee, Lecteurs
<1>2. Len(messages) \in Nat
  BY DEF PagesJustes, FormesServeur
<1>3. \A l \in lectures' : LectureJuste(l)'
  BY DEF PagesJustes, LectureJuste
<1>4. MesIds' = MesIds /\ DuLivreur' = DuLivreur /\ Ids' = Ids
  BY DEF MesIds, DuLivreur, Ids
<1>5. Len(messages) <= Len(messages') /\ UNCHANGED <<moi, ecran>>
  BY <1>2
<1> QED
  BY <1>1, <1>3, <1>4, <1>5, PagesStables

\* The conjuncts of PagesJustes' after a step that keeps the components.
LEMMA Assemble ==
  ASSUME UNCHANGED ecran, FormesServeur', FormesPages', FormesCloche',
         \A e \in envois' : EnvoiJuste(e)', \A l \in lectures' : LectureJuste(l)',
         \A s \in Actifs : FileJuste(s)', \A s \in ecran : VueJuste(s)',
         \A r \in demandes' : DemandeJuste(r)'
  PROVE  PagesJustes'
<1>1. Actifs' = Actifs /\ ecran' = ecran
  BY DEF Actifs
<1> QED
  BY <1>1 DEF PagesJustes

\* A message is stored.
LEMMA PasMessage ==
  ASSUME MessagerieAssumption, BoitesAssumption, PagesJustes,
         NEW de \in Personnes, NEW a \in Personnes \cup {Tous},
         HandleMessage(de, a), UNCHANGED <<cloche, vue, demandes>>
  PROVE  PagesJustes'
<1> DEFINE x == [de |-> de, a |-> a, lu |-> FALSE]
           N == Len(messages) + 1
<1>0. PICK f : f = [de |-> de, a |-> a, m |-> N,
                    pc |-> IF a = Tous THEN "lectures" ELSE "emettre"]
  OBVIOUS
<1>1. /\ messages' = Append(messages, x) /\ envois' = envois \cup {f}
      /\ UNCHANGED <<moi, lectures, prise, file, gestes, pannes, ecran, compte, connu,
                     comptages, vue, demandes>>
  BY <1>0 DEF HandleMessage, cloche, reseau, bornes
<1>2. messages \in Seq(MessageT) /\ x \in MessageT /\ Len(messages) \in Nat
  BY DEF PagesJustes, FormesServeur, MessageT
<1>3. /\ messages' \in Seq(MessageT) /\ Len(messages') = N /\ messages'[N] = x
      /\ \A i \in Ids : messages'[i] = messages[i]
      /\ N \in Ids' /\ Ids \subseteq Ids' /\ Len(messages) <= Len(messages')
      /\ Ids' = Ids \cup {N} /\ N \notin Ids
  BY <1>1, <1>2 DEF Ids
<1>4. f \in EnvoiT
  BY <1>0, <1>2 DEF EnvoiT
<1>5. lectures' \subseteq [m : Ids', qui : Personnes, lu : BOOLEAN]
  BY <1>1, <1>3 DEF PagesJustes, FormesServeur
<1>6. FormesServeur'
  BY <1>1, <1>3, <1>4, <1>5 DEF PagesJustes, FormesServeur
<1>7. \A i \in Ids : Diffusee(i) => Diffusee(i)'
  BY <1>1, <1>3 DEF Diffusee, Lecteurs
<1>8. /\ \A s \in Actifs : FileJuste(s)'
      /\ \A s \in ecran : VueJuste(s)'
      /\ \A r \in demandes : DemandeJuste(r)'
      /\ \A e \in envois : EnvoiJuste(e)'
  BY <1>1, <1>3, <1>6, <1>7, PagesStables
<1>9. EnvoiJuste(f)'
  <2>1. f.m = N /\ f.de = de /\ f.a = a /\ f.pc = IF a = Tous THEN "lectures" ELSE "emettre"
    BY <1>0
  <2>2. messages'[N].de = de /\ messages'[N].a = a
    BY <1>3
  <2>3. CASE a = Tous
    BY <1>3, <2>1, <2>2, <2>3 DEF EnvoiJuste
  <2>4. CASE a # Tous
    BY <1>3, <2>1, <2>2, <2>4 DEF EnvoiJuste
  <2> QED
    BY <2>3, <2>4
<1>10. \A l \in lectures' : LectureJuste(l)'
  <2> SUFFICES ASSUME NEW l \in lectures'
               PROVE  LectureJuste(l)'
    OBVIOUS
  <2>1. l \in lectures /\ l.m \in Ids /\ LectureJuste(l)
    BY <1>1 DEF PagesJustes, FormesServeur
  <2>2. messages'[l.m] = messages[l.m]
    BY <1>3, <2>1
  <2> QED
    BY <2>1, <2>2 DEF LectureJuste
<1>11. FormesPages' /\ FormesCloche'
  BY <1>1 DEF PagesJustes, FormesPages, FormesCloche, Actifs, DemandeT
<1>12. \A e \in envois' : EnvoiJuste(e)'
  BY <1>1, <1>8, <1>9
<1>13. UNCHANGED ecran /\ \A r \in demandes' : DemandeJuste(r)'
  BY <1>1, <1>8
<1> QED
  BY <1>6, <1>8, <1>10, <1>11, <1>12, <1>13, Assemble

\* Everyone but the sender of a broadcast gets it to read.
LEMMA PasLectures ==
  ASSUME MessagerieAssumption, BoitesAssumption, PagesJustes, NEW e \in envois,
         Lectures(e), UNCHANGED <<cloche, vue, demandes>>
  PROVE  PagesJustes'
<1> DEFINE f == [e EXCEPT !.pc = "emettre"]
           Rangees == {[m |-> e.m, qui |-> p, lu |-> FALSE] : p \in Personnes \ {e.de}}
<1>1. /\ e.pc = "lectures" /\ lectures' = lectures \cup Rangees
      /\ envois' = (envois \ {e}) \cup {f}
      /\ UNCHANGED <<moi, messages, prise, file, gestes, pannes, ecran, compte, connu,
                     comptages, vue, demandes>>
  BY DEF Lectures, Avance, cloche, reseau, bornes
<1>2. /\ e \in EnvoiT /\ e.m \in Ids /\ messages[e.m].de = e.de
      /\ messages[e.m].a = e.a /\ e.a = Tous
  BY <1>1 DEF PagesJustes, FormesServeur, EnvoiJuste
<1>3. /\ f \in EnvoiT /\ f.m = e.m /\ f.de = e.de /\ f.a = e.a /\ f.pc = "emettre"
  BY <1>2 DEF EnvoiT
<1> HIDE DEF f
<1>4. Ids' = Ids
  BY <1>1 DEF Ids
<1>5. lectures' \subseteq [m : Ids', qui : Personnes, lu : BOOLEAN]
  <2>1. lectures \subseteq [m : Ids, qui : Personnes, lu : BOOLEAN]
    BY DEF PagesJustes, FormesServeur
  <2>2. ASSUME NEW l \in Rangees
        PROVE  l \in [m : Ids, qui : Personnes, lu : BOOLEAN]
    <3>1. PICK p \in Personnes \ {e.de} : l = [m |-> e.m, qui |-> p, lu |-> FALSE]
      BY <2>2
    <3> QED
      BY <1>2, <3>1
  <2> QED
    BY <1>1, <1>4, <2>1, <2>2
<1>6. FormesServeur'
  BY <1>1, <1>3, <1>5 DEF PagesJustes, FormesServeur
<1>7. \A l \in lectures' : LectureJuste(l)'
  BY <1>1, <1>2 DEF PagesJustes, LectureJuste
<1>8. \A i \in Ids : Lecteurs(i) \subseteq Personnes \ {messages[i].de}
  BY DEF PagesJustes, FormesServeur, LectureJuste, Lecteurs
<1>9. Diffusee(e.m)'
  <2>1. Lecteurs(e.m)' = Lecteurs(e.m) \cup (Personnes \ {e.de})
    <3>1. \A p \in Lecteurs(e.m)' : p \in Lecteurs(e.m) \cup (Personnes \ {e.de})
      BY <1>1 DEF Lecteurs
    <3>2. \A p \in Lecteurs(e.m) : p \in Lecteurs(e.m)'
      BY <1>1 DEF Lecteurs
    <3>3. ASSUME NEW p \in Personnes \ {e.de}
          PROVE  p \in Lecteurs(e.m)'
      <4> DEFINE l == [m |-> e.m, qui |-> p, lu |-> FALSE]
      <4>1. l \in Rangees /\ l.m = e.m /\ l.qui = p
        BY <3>3
      <4> HIDE DEF l
      <4>2. l \in lectures'
        BY <1>1, <4>1
      <4> QED
        BY <4>1, <4>2 DEF Lecteurs
    <3> QED
      BY <3>1, <3>2, <3>3
  <2> QED
    BY <1>1, <1>2, <1>8, <2>1 DEF Diffusee
<1>10. \A i \in Ids : Diffusee(i) => Diffusee(i)'
  <2> SUFFICES ASSUME NEW i \in Ids, Diffusee(i), i # e.m
               PROVE  Diffusee(i)'
    BY <1>9
  <2>1. Lecteurs(i)' = Lecteurs(i)
    BY <1>1 DEF Lecteurs
  <2> QED
    BY <1>1, <2>1 DEF Diffusee
<1>11. Len(messages) <= Len(messages') /\ UNCHANGED <<moi, ecran>>
  BY <1>1 DEF PagesJustes, FormesServeur
<1>12. \A i \in Ids : messages'[i].de = messages[i].de /\ messages'[i].a = messages[i].a
  BY <1>1
<1>13. /\ \A s \in Actifs : FileJuste(s)'
       /\ \A s \in ecran : VueJuste(s)'
       /\ \A r \in demandes : DemandeJuste(r)'
       /\ \A d \in envois : EnvoiJuste(d)'
  BY <1>1, <1>6, <1>10, <1>11, <1>12, PagesStables
<1>14. EnvoiJuste(f)'
  BY <1>1, <1>2, <1>3, <1>4, <1>9 DEF EnvoiJuste
<1>15. FormesPages' /\ FormesCloche'
  BY <1>1 DEF PagesJustes, FormesPages, FormesCloche, Actifs, DemandeT
<1>16. \A d \in envois' : EnvoiJuste(d)'
  BY <1>1, <1>13, <1>14
<1>17. UNCHANGED ecran /\ \A r \in demandes' : DemandeJuste(r)'
  BY <1>1, <1>13
<1> QED
  BY <1>6, <1>7, <1>13, <1>15, <1>16, <1>17, Assemble

\* A message is emitted, or its handler dies.
LEMMA PasEmettre ==
  ASSUME MessagerieAssumption, BoitesAssumption, PagesJustes, NEW e \in envois,
         Emettre(e) \/ Interrompre(e), UNCHANGED <<cloche, vue, demandes>>
  PROVE  PagesJustes'
<1>1. /\ envois' = envois \ {e} /\ gestes' \in Nat /\ pannes' \in Nat
      /\ UNCHANGED <<moi, messages, lectures, prise, ecran, compte, connu, comptages, vue,
                     demandes>>
  BY DEF Emettre, Interrompre, cloche, reseau, bornes, PanneDe, PagesJustes,
     FormesServeur
<1>2. FormesServeur'
  BY <1>1 DEF PagesJustes, FormesServeur, Ids
<1>3. /\ \A s \in Actifs : file'[s] = file[s] => FileJuste(s)'
      /\ \A s \in ecran : VueJuste(s)'
      /\ \A r \in demandes : DemandeJuste(r)'
      /\ \A d \in envois : EnvoiJuste(d)'
      /\ \A l \in lectures' : LectureJuste(l)'
      /\ MesIds' = MesIds /\ Ids' = Ids /\ \A i \in Ids : Diffusee(i)' = Diffusee(i)
  BY <1>1, <1>2, TablesFigees
<1>7. UNCHANGED ecran /\ \A r \in demandes' : DemandeJuste(r)'
  BY <1>1, <1>3
<1>8. \A d \in envois' : EnvoiJuste(d)'
  <2> SUFFICES ASSUME NEW d \in envois'
               PROVE  EnvoiJuste(d)'
    OBVIOUS
  <2>1. d \in envois
    BY <1>1
  <2> QED
    BY <1>3, <2>1
<1>4. /\ file \in [Actifs -> Seq(Nat)] /\ DOMAIN prise = Actifs
      /\ e \in EnvoiT /\ EnvoiJuste(e)
  BY DEF PagesJustes, FormesPages, FormesServeur
<1>5. CASE Interrompre(e)
  <2>1. UNCHANGED file
    BY <1>5 DEF Interrompre, reseau
  <2>2. FormesPages' /\ FormesCloche'
    BY <1>1, <2>1 DEF PagesJustes, FormesPages, FormesCloche, Actifs, DemandeT
  <2>3. \A s \in Actifs : FileJuste(s)'
    BY <1>3, <2>1
  <2> QED
    BY <1>2, <1>3, <1>7, <1>8, <2>2, <2>3, Assemble
<1>6. CASE Emettre(e)
  <2>1. /\ e.pc = "emettre"
        /\ file' = [s \in Actifs |->
                      IF Recoit(s, e) THEN Append(file[s], e.m) ELSE file[s]]
    BY <1>4, <1>6 DEF Emettre
  <2>2. e.m \in Nat /\ e.m \in Ids
    BY <1>4 DEF EnvoiT, EnvoiJuste
  <2>3. file' \in [Actifs -> Seq(Nat)]
    BY <1>4, <2>1, <2>2, AppendVrai
  <2>4. ASSUME NEW s \in Actifs
        PROVE  FileJuste(s)'
    <3>1. CASE ~Recoit(s, e)
      BY <1>3, <2>1, <3>1
    <3>2. CASE Recoit(s, e)
      <4>1. e.m \in MesIds
        BY <1>4, <2>2, <3>2 DEF Recoit, MesIds, EnvoiJuste
      <4>2. messages[e.m].a = Tous => Diffusee(e.m)
        BY <1>4, <2>1 DEF EnvoiJuste
      <4>3. ToSet(file'[s]) = ToSet(file[s]) \cup {e.m}
        BY <1>4, <2>1, <2>2, <3>2, AppendVrai
      <4>4. FileJuste(s)
        BY DEF PagesJustes
      <4>5. MesIds \subseteq Ids
        BY DEF MesIds
      <4> QED
        BY <1>1, <1>3, <2>2, <4>1, <4>2, <4>3, <4>4, <4>5 DEF FileJuste
    <3> QED
      BY <3>1, <3>2
  <2>5. FormesPages' /\ FormesCloche'
    BY <1>1, <2>3 DEF PagesJustes, FormesPages, FormesCloche, Actifs, DemandeT
  <2> QED
    BY <1>2, <1>3, <1>7, <1>8, <2>4, <2>5, Assemble
<1> QED
  BY <1>5, <1>6

----------------------------------------------------------------------------
(* The steps of the pages.                                                 *)

\* The table MessageLecture is finite.
LEMMA LecturesFinies ==
  ASSUME MessagerieAssumption, FormesServeur
  PROVE  IsFiniteSet(Ids) /\ IsFiniteSet(lectures)
<1> DEFINE S == (Ids \X Personnes) \X BOOLEAN
           R == [m : Ids, qui : Personnes, lu : BOOLEAN]
           g == [x \in S |-> [m |-> x[1][1], qui |-> x[1][2], lu |-> x[2]]]
<1>1. IsFiniteSet(Ids) /\ IsFiniteSet(Personnes)
  <2>1. Len(messages) \in Int
    BY DEF FormesServeur
  <2> QED
    BY <2>1, FS_Interval DEF Ids, MessagerieAssumption
<1>2. IsFiniteSet(BOOLEAN)
  <2>1. IsFiniteSet({}) /\ IsFiniteSet({} \cup {TRUE})
    BY FS_EmptySet, FS_AddElement
  <2>2. IsFiniteSet(({} \cup {TRUE}) \cup {FALSE})
    BY <2>1, FS_AddElement
  <2>3. BOOLEAN = ({} \cup {TRUE}) \cup {FALSE}
    OBVIOUS
  <2> QED
    BY <2>2, <2>3
<1>3. IsFiniteSet(S)
  BY <1>1, <1>2, FS_Product
<1>4. g \in [S -> R]
  OBVIOUS
<1>5. ASSUME NEW l \in R
      PROVE  \E x \in S : g[x] = l
  <2>1. <<<<l.m, l.qui>>, l.lu>> \in S
    OBVIOUS
  <2>2. g[<<<<l.m, l.qui>>, l.lu>>] = l
    BY <2>1
  <2> QED
    BY <2>1, <2>2
<1>6. g \in Surjection(S, R)
  BY <1>4, <1>5 DEF Surjection
<1>7. IsFiniteSet(R)
  BY <1>3, <1>6, FS_Surjection
<1>8. lectures \in SUBSET R
  BY DEF FormesServeur
<1> QED
  BY <1>1, <1>7, <1>8, FS_Subset

\* The two counts of the server are numbers.
LEMMA ComptesEntiers ==
  ASSUME MessagerieAssumption, FormesServeur
  PROVE  DirectsNonLus \in Nat /\ DiffusionsNonLues \in Nat
<1> DEFINE D == {i \in Ids : messages[i].a = moi /\ ~messages[i].lu}
           L == {l \in lectures : l.qui = moi /\ ~l.lu}
<1>1. D \in SUBSET Ids /\ L \in SUBSET lectures
  OBVIOUS
<1>2. IsFiniteSet(D) /\ IsFiniteSet(L)
  BY <1>1, LecturesFinies, FS_Subset
<1>3. Cardinality(D) \in Nat /\ Cardinality(L) \in Nat
  BY <1>2, FS_CardinalityType
<1> QED
  BY <1>3 DEF DirectsNonLus, DiffusionsNonLues

\* What is left to show when a step leaves the tables as they are.
LEMMA PasPages ==
  ASSUME PagesJustes, UNCHANGED <<serveur, ecran>>, gestes' \in Nat, pannes' \in Nat,
         FormesPages', FormesCloche',
         \A s \in Actifs : file'[s] = file[s] \/ FileJuste(s)',
         \A s \in ecran : vue'[s] = vue[s] \/ VueJuste(s)',
         \A r \in demandes' : r \in demandes \/ DemandeJuste(r)
  PROVE  PagesJustes'
<1>1. UNCHANGED <<moi, messages, lectures, envois, ecran>>
  BY DEF serveur
<1>2. FormesServeur'
  BY <1>1 DEF PagesJustes, FormesServeur, Ids
<1>3. /\ \A s \in Actifs : FileJuste(s)'
      /\ \A s \in ecran : VueJuste(s)'
      /\ \A r \in demandes : DemandeJuste(r)'
      /\ \A e \in envois : EnvoiJuste(e)'
      /\ \A l \in lectures' : LectureJuste(l)'
      /\ MesIds' = MesIds /\ DuLivreur' = DuLivreur
  BY <1>1, <1>2, TablesFigees
<1>4. ASSUME NEW r \in demandes'
      PROVE  DemandeJuste(r)'
  <2>1. CASE r \in demandes
    BY <1>3, <2>1
  <2>2. CASE DemandeJuste(r)
    BY <1>1, <1>3, <2>2 DEF DemandeJuste
  <2> QED
    BY <2>1, <2>2
<1>5. \A e \in envois' : EnvoiJuste(e)'
  BY <1>1, <1>3
<1> QED
  BY <1>1, <1>2, <1>3, <1>4, <1>5, Assemble

\* Sockets open and close.
LEMMA PasReseau ==
  ASSUME MessagerieAssumption, BoitesAssumption, PagesJustes,
         \/ /\ \E s \in DOMAIN prise : HandleConnection(s) \/ Refuser(s)
            /\ UNCHANGED <<cloche, vue, demandes>>
         \/ Renouveler \/ MoiConnu
  PROVE  PagesJustes'
<1>1. /\ prise \in [Actifs -> Etats] /\ file \in [Actifs -> Seq(Nat)]
      /\ DOMAIN prise = Actifs /\ gestes \in Nat /\ pannes \in Nat /\ FormesCloche
      /\ << >> \in Seq(Nat) /\ "cloche" \in Actifs
  BY DEF PagesJustes, FormesPages, FormesServeur, Actifs
<1>2. /\ UNCHANGED <<serveur, ecran, compte, comptages, vue, demandes>>
      /\ connu' \in BOOLEAN /\ gestes' \in Nat /\ pannes' \in Nat
  <2>1. CASE /\ \E s \in DOMAIN prise : HandleConnection(s) \/ Refuser(s)
             /\ UNCHANGED <<cloche, vue, demandes>>
    BY <1>1, <2>1
       DEF HandleConnection, Refuser, PanneDe, cloche, bornes, FormesCloche
  <2>2. CASE Renouveler
    BY <1>1, <2>2 DEF Renouveler, Geste, cloche, FormesCloche
  <2>3. CASE MoiConnu
    BY <1>1, <2>3 DEF MoiConnu, bornes, FormesCloche
  <2> QED
    BY <2>1, <2>2, <2>3
<1>3. /\ prise' \in [Actifs -> Etats] /\ file' \in [Actifs -> Seq(Nat)]
      /\ \A s \in Actifs : file'[s] = file[s] \/ file'[s] = << >>
  <2>1. ASSUME NEW s \in DOMAIN prise, HandleConnection(s)
        PROVE  <1>3!:
    BY <1>1, <2>1 DEF HandleConnection, Etats
  <2>2. ASSUME NEW s \in DOMAIN prise, Refuser(s)
        PROVE  <1>3!:
    BY <1>1, <2>2 DEF Refuser, Etats
  <2>3. CASE Renouveler
    BY <1>1, <2>3 DEF Renouveler, Etats
  <2>4. CASE MoiConnu
    BY <1>1, <2>4 DEF MoiConnu, Etats
  <2> QED
    BY <2>1, <2>2, <2>3, <2>4
<1>4. FormesPages' /\ FormesCloche'
  BY <1>2, <1>3 DEF PagesJustes, FormesPages, FormesCloche, Actifs, DemandeT
<1>5. \A s \in Actifs : file'[s] = file[s] \/ FileJuste(s)'
  BY <1>3, VideVrai DEF FileJuste
<1> QED
  BY <1>2, <1>4, <1>5, PasPages

\* The bell counts, and requests fail.
LEMMA PasCloche ==
  ASSUME MessagerieAssumption, BoitesAssumption, PagesJustes,
         \/ \E r \in comptages : Compter(r) \/ CompterRefuse(r) \/ RepondreCompte(r)
         \/ Echouer
  PROVE  PagesJustes'
<1>1. /\ comptages \subseteq ComptageT /\ gestes \in Nat /\ pannes \in Nat
      /\ compte \in Nat /\ connu \in BOOLEAN /\ FormesPages
      /\ DirectsNonLus + DiffusionsNonLues \in Nat
  BY ComptesEntiers DEF PagesJustes, FormesServeur, FormesCloche
<1>2. /\ UNCHANGED <<serveur, ecran, connu, vue, prise, file>>
      /\ comptages' \subseteq ComptageT /\ demandes' \subseteq demandes
      /\ compte' \in Nat /\ gestes' \in Nat /\ pannes' \in Nat
  <2>1. ASSUME NEW r \in comptages, Compter(r)
        PROVE  <1>2!:
    BY <1>1, <2>1 DEF Compter, ComptageT, reseau, bornes
  <2>2. ASSUME NEW r \in comptages, RepondreCompte(r)
        PROVE  <1>2!:
    BY <1>1, <2>2 DEF RepondreCompte, ComptageT, reseau, bornes
  <2>3. CASE Echouer
    BY <1>1, <2>3 DEF Echouer, PanneDe, reseau
  <2>4. ASSUME NEW r \in comptages, CompterRefuse(r)
        PROVE  <1>2!:
    BY <1>1, <2>4 DEF CompterRefuse, reseau, bornes
  <2> QED
    BY <2>1, <2>2, <2>3, <2>4
<1>3. FormesPages' /\ FormesCloche'
  BY <1>1, <1>2 DEF FormesPages, FormesCloche, Actifs, DemandeT
<1>4. /\ \A s \in Actifs : file'[s] = file[s] \/ FileJuste(s)'
      /\ \A s \in ecran : vue'[s] = vue[s] \/ VueJuste(s)'
      /\ \A r \in demandes' : r \in demandes \/ DemandeJuste(r)
  BY <1>2
<1> QED
  BY <1>2, <1>3, <1>4, PasPages

\* A component asks for the messages of a contact.
LEMMA PasPasser ==
  ASSUME MessagerieAssumption, BoitesAssumption, PagesJustes, NEW s \in ecran,
         NEW c \in Personnes \cup {Tous}, NEW ouvert \in BOOLEAN,
         s = "livreur" => c = Livreur, Passer(s, c, ouvert)
  PROVE  PagesJustes'
<1> DEFINE x == [vue[s] EXCEPT !.choix = c, !.ouvert = ouvert]
<1>0. PICK r : r = [n |-> gestes + 1, par |-> s, avec |-> c, pc |-> "lire", lus |-> << >>]
  OBVIOUS
<1>1. /\ gestes \in Nat /\ pannes \in Nat /\ vue \in [ecran -> VueT] /\ demandes \subseteq DemandeT
      /\ FormesCloche /\ VueJuste(s) /\ FormesPages
  BY DEF PagesJustes, FormesServeur, FormesPages
<1>2. /\ vue' = [vue EXCEPT ![s] = x] /\ gestes' = gestes + 1 /\ UNCHANGED pannes
      /\ demandes' = demandes \cup {r}
      /\ UNCHANGED <<serveur, prise, file, ecran, compte, connu, comptages>>
  BY <1>0, <1>1 DEF Passer, Demander, Geste, reseau, cloche
<1>3. r \in DemandeT /\ DemandeJuste(r)
  BY <1>0, <1>1, VideVrai DEF DemandeT, DemandeJuste
<1>4. /\ x \in VueT /\ x.fil = vue[s].fil /\ x.annonces = vue[s].annonces
      /\ x.choix = c
  <2>1. vue[s] \in VueT
    BY <1>1
  <2> QED
    BY <2>1 DEF VueT
<1> HIDE DEF x
<1>5. vue' \in [ecran -> VueT] /\ vue'[s] = x /\ \A b \in ecran : b # s => vue'[b] = vue[b]
  BY <1>1, <1>2, <1>4
<1>6. UNCHANGED <<moi, messages>>
  BY <1>2 DEF serveur
<1>7. VueJuste(s)'
  BY <1>1, <1>4, <1>5, <1>6 DEF VueJuste, MesIds, DuLivreur, Ids
<1>8. FormesPages' /\ FormesCloche'
  BY <1>1, <1>2, <1>3, <1>5 DEF FormesPages, FormesCloche, Actifs, DemandeT
<1>9. /\ \A b \in Actifs : file'[b] = file[b] \/ FileJuste(b)'
      /\ \A b \in ecran : vue'[b] = vue[b] \/ VueJuste(b)'
      /\ \A d \in demandes' : d \in demandes \/ DemandeJuste(d)
  BY <1>2, <1>3, <1>5, <1>7
<1>10. gestes' \in Nat /\ pannes' \in Nat
  BY <1>1, <1>2
<1> QED
  BY <1>2, <1>8, <1>9, <1>10, PasPages

\* The gestures that ask for a thread, or close the driver's panel.
LEMMA PasDemandes ==
  ASSUME MessagerieAssumption, BoitesAssumption, PagesJustes,
         \/ MonterBoite \/ MonterBulle \/ BasculerBulle \/ BasculerLivreur
         \/ \E c \in Personnes \cup {Tous} : ChoisirBoite(c) \/ ChoisirAdmin(c)
  PROVE  PagesJustes'
<1>1. CASE MonterBoite
  BY <1>1, Constantes, PasPasser DEF MonterBoite
<1>2. CASE MonterBulle
  BY <1>2, Constantes, PasPasser DEF MonterBulle
<1>3. CASE BasculerBulle
  <2>1. (~vue["bulle"].ouvert) \in BOOLEAN
    OBVIOUS
  <2> QED
    BY <1>3, <2>1, Constantes, PasPasser DEF BasculerBulle
<1>4. CASE BasculerLivreur
  <2>1. CASE ~vue["livreur"].ouvert
    BY <1>4, <2>1, Constantes, PasPasser DEF BasculerLivreur
  <2>2. CASE vue["livreur"].ouvert
    <3> DEFINE x == [vue["livreur"] EXCEPT !.ouvert = FALSE]
    <3>1. /\ vue' = [vue EXCEPT !["livreur"] = x] /\ "livreur" \in ecran
          /\ UNCHANGED <<serveur, prise, file, gestes, pannes, ecran, compte, connu,
                         comptages, demandes>>
      BY <1>4, <2>2 DEF BasculerLivreur, reseau, bornes, cloche
    <3>2. /\ vue \in [ecran -> VueT] /\ FormesPages /\ FormesCloche /\ VueJuste("livreur")
          /\ gestes \in Nat /\ pannes \in Nat
      BY <3>1 DEF PagesJustes, FormesPages, FormesServeur
    <3>3. /\ x \in VueT /\ x.fil = vue["livreur"].fil
          /\ x.annonces = vue["livreur"].annonces /\ x.choix = vue["livreur"].choix
      <4>1. vue["livreur"] \in VueT
        BY <3>1, <3>2
      <4> QED
        BY <4>1 DEF VueT
    <3> HIDE DEF x
    <3>4. /\ vue' \in [ecran -> VueT] /\ vue'["livreur"] = x
          /\ \A b \in ecran : b # "livreur" => vue'[b] = vue[b]
      BY <3>1, <3>2, <3>3
    <3>5. UNCHANGED <<moi, messages>>
      BY <3>1 DEF serveur
    <3>6. VueJuste("livreur")'
      BY <3>2, <3>3, <3>4, <3>5 DEF VueJuste, MesIds, DuLivreur, Ids
    <3>7. FormesPages' /\ FormesCloche'
      BY <3>1, <3>2, <3>4 DEF FormesPages, FormesCloche, Actifs, DemandeT
    <3>8. /\ \A b \in Actifs : file'[b] = file[b] \/ FileJuste(b)'
          /\ \A b \in ecran : vue'[b] = vue[b] \/ VueJuste(b)'
          /\ \A d \in demandes' : d \in demandes \/ DemandeJuste(d)
      BY <3>1, <3>4, <3>6
    <3> QED
      BY <3>1, <3>2, <3>7, <3>8, PasPages
  <2> QED
    BY <2>1, <2>2
<1>5. ASSUME NEW c \in Personnes \cup {Tous}, ChoisirBoite(c)
      PROVE  PagesJustes'
  BY <1>5, PasPasser DEF ChoisirBoite
<1>6. ASSUME NEW c \in Personnes \cup {Tous}, ChoisirAdmin(c)
      PROVE  PagesJustes'
  BY <1>6, PasPasser DEF ChoisirAdmin
<1> QED
  BY <1>1, <1>2, <1>3, <1>4, <1>5, <1>6

\* The messages that belong on the screen of a contact.
Cible(c) == IF c = Tous THEN Diffusions ELSE Fil(moi, c)

\* What a request reads is what belongs on the screen, each message once.
LEMMA LitVrai ==
  ASSUME MessagerieAssumption, BoitesAssumption, FormesServeur,
         NEW c \in Personnes \cup {Tous}
  PROVE  /\ Lit(c) \in Seq(Nat) /\ ToSet(Lit(c)) = Cible(c) /\ IsInjective(Lit(c))
         /\ Cible(c) \subseteq MesIds
         /\ c = Livreur => Cible(c) \subseteq DuLivreur
<1>1. Len(messages) \in Nat /\ Ids = 1..Len(messages)
  BY DEF FormesServeur, Ids
<1>2. Cible(c) \in SUBSET Ids
  BY DEF Cible, Diffusions, Fil
<1>3. /\ Croissant(Cible(c)) \in Seq(Cible(c)) /\ IsInjective(Croissant(Cible(c)))
      /\ ToSet(Croissant(Cible(c))) = Cible(c)
  BY <1>1, <1>2, CroissantVrai
<1>4. Croissant(Cible(c)) \in Seq(Nat)
  <2>1. Cible(c) \subseteq Nat
    BY <1>1, <1>2
  <2> QED
    BY <1>3, <2>1
<1>5. Lit(c) = IF c = Tous THEN Reverse(Croissant(Cible(c))) ELSE Croissant(Cible(c))
  BY DEF Lit, Cible
<1>6. Lit(c) \in Seq(Nat) /\ ToSet(Lit(c)) = Cible(c) /\ IsInjective(Lit(c))
  BY <1>3, <1>4, <1>5, ReverseVrai
<1>7. Cible(c) \subseteq MesIds
  BY DEF Cible, Diffusions, Fil, MesIds
<1>8. ASSUME c = Livreur
      PROVE  Cible(c) \subseteq DuLivreur
  BY <1>8, Constantes DEF Cible, Fil, DuLivreur
<1> QED
  BY <1>6, <1>7, <1>8

\* The request reads.
LEMMA PasLire ==
  ASSUME MessagerieAssumption, BoitesAssumption, PagesJustes, NEW r \in demandes, Lire(r)
  PROVE  PagesJustes'
<1>0. PICK q : q = [r EXCEPT !.lus = Lit(r.avec), !.pc = "marquer"]
  OBVIOUS
<1>1. /\ demandes' = (demandes \ {r}) \cup {q}
      /\ UNCHANGED <<serveur, prise, file, gestes, pannes, ecran, compte, connu, comptages, vue>>
  BY <1>0 DEF Lire, Suite, reseau, bornes, cloche
<1>2. /\ r \in DemandeT /\ DemandeJuste(r) /\ FormesServeur /\ FormesPages /\ FormesCloche
      /\ gestes \in Nat /\ pannes \in Nat
  BY DEF PagesJustes, FormesPages, FormesServeur
<1>3. r.avec \in Personnes \cup {Tous}
  BY <1>2 DEF DemandeT
<1>4. /\ Lit(r.avec) \in Seq(Nat) /\ IsInjective(Lit(r.avec))
      /\ ToSet(Lit(r.avec)) \subseteq MesIds
      /\ r.avec = Livreur => ToSet(Lit(r.avec)) \subseteq DuLivreur
  BY <1>2, <1>3, LitVrai
<1>5. q \in DemandeT /\ q.lus = Lit(r.avec) /\ q.par = r.par /\ q.avec = r.avec
  BY <1>0, <1>2, <1>4 DEF DemandeT
<1>6. DemandeJuste(q)
  BY <1>2, <1>4, <1>5 DEF DemandeJuste
<1>7. FormesPages' /\ FormesCloche'
  BY <1>1, <1>2, <1>5 DEF FormesPages, FormesCloche, Actifs, DemandeT
<1>8. /\ \A s \in Actifs : file'[s] = file[s] \/ FileJuste(s)'
      /\ \A s \in ecran : vue'[s] = vue[s] \/ VueJuste(s)'
      /\ \A d \in demandes' : d \in demandes \/ DemandeJuste(d)
  BY <1>1, <1>6
<1> QED
  BY <1>1, <1>2, <1>7, <1>8, PasPages

\* The request marks.
LEMMA PasMarquer ==
  ASSUME MessagerieAssumption, BoitesAssumption, PagesJustes, NEW r \in demandes,
         Marquer(r)
  PROVE  PagesJustes'
<1>0. PICK q : q = [r EXCEPT !.pc = "repondre"]
  OBVIOUS
<1>1. /\ demandes' = (demandes \ {r}) \cup {q} /\ Marque(r.avec)
      /\ UNCHANGED <<moi, envois, prise, file, gestes, pannes, ecran, compte, connu,
                     comptages, vue>>
  BY <1>0 DEF Marquer, Suite, reseau, bornes, cloche
<1>2. /\ r \in DemandeT /\ DemandeJuste(r) /\ FormesServeur /\ FormesPages /\ FormesCloche
  BY DEF PagesJustes, FormesPages, FormesServeur
<1>3. /\ messages' \in Seq(MessageT) /\ Len(messages') = Len(messages)
      /\ \A i \in Ids : messages'[i].de = messages[i].de /\ messages'[i].a = messages[i].a
  <2>1. CASE r.avec = Tous
    <3>1. UNCHANGED messages
      BY <1>1, <2>1 DEF Marque
    <3> QED
      BY <1>2, <3>1 DEF FormesServeur
  <2>2. CASE r.avec # Tous
    <3>1. messages' = [i \in Ids |->
                         [messages[i] EXCEPT !.lu =
                            @ \/ (messages[i].de = r.avec /\ messages[i].a = moi)]]
      BY <1>1, <2>2 DEF Marque
    <3>2. Len(messages) \in Nat /\ Ids = 1..Len(messages)
          /\ \A i \in Ids : messages[i] \in MessageT
      BY <1>2 DEF FormesServeur, Ids
    <3>3. ASSUME NEW i \in Ids
          PROVE  /\ messages'[i] \in MessageT
                 /\ messages'[i].de = messages[i].de /\ messages'[i].a = messages[i].a
      <4>1. messages[i] \in MessageT
        BY <3>2
      <4> DEFINE b == messages[i].lu \/ (messages[i].de = r.avec /\ messages[i].a = moi)
      <4>2. messages'[i] = [messages[i] EXCEPT !.lu = b] /\ b \in BOOLEAN
        BY <3>1
      <4> HIDE DEF b
      <4> QED
        BY <4>1, <4>2 DEF MessageT
    <3>4. messages' \in [1..Len(messages) -> MessageT]
      BY <3>1, <3>2, <3>3
    <3> QED
      BY <3>2, <3>3, <3>4
  <2> QED
    BY <2>1, <2>2
<1>4. Ids' = Ids
  BY <1>3 DEF Ids
<1>5. /\ lectures' \subseteq [m : Ids, qui : Personnes, lu : BOOLEAN]
      /\ \A l \in lectures' : \E k \in lectures : l.m = k.m /\ l.qui = k.qui
      /\ \A k \in lectures : \E l \in lectures' : l.m = k.m /\ l.qui = k.qui
  <2>1. CASE r.avec # Tous
    <3>1. UNCHANGED lectures
      BY <1>1, <2>1 DEF Marque
    <3> QED
      BY <1>2, <3>1 DEF FormesServeur
  <2>2. CASE r.avec = Tous
    <3>1. lectures' = {[l EXCEPT !.lu = @ \/ l.qui = moi] : l \in lectures}
      BY <1>1, <2>2 DEF Marque
    <3>2. lectures \subseteq [m : Ids, qui : Personnes, lu : BOOLEAN]
      BY <1>2 DEF FormesServeur
    <3>3. ASSUME NEW k \in lectures
          PROVE  /\ [k EXCEPT !.lu = @ \/ k.qui = moi]
                      \in [m : Ids, qui : Personnes, lu : BOOLEAN]
                 /\ [k EXCEPT !.lu = @ \/ k.qui = moi].m = k.m
                 /\ [k EXCEPT !.lu = @ \/ k.qui = moi].qui = k.qui
      <4> DEFINE b == k.lu \/ k.qui = moi
      <4>1. b \in BOOLEAN /\ k \in [m : Ids, qui : Personnes, lu : BOOLEAN]
        BY <3>2
      <4> HIDE DEF b
      <4>2. /\ [k EXCEPT !.lu = b] \in [m : Ids, qui : Personnes, lu : BOOLEAN]
            /\ [k EXCEPT !.lu = b].m = k.m /\ [k EXCEPT !.lu = b].qui = k.qui
        BY <4>1
      <4> QED
        BY <4>2 DEF b
    <3>4. ASSUME NEW l \in lectures'
          PROVE  /\ l \in [m : Ids, qui : Personnes, lu : BOOLEAN]
                 /\ \E k \in lectures : l.m = k.m /\ l.qui = k.qui
      <4>1. PICK k \in lectures : l = [k EXCEPT !.lu = @ \/ k.qui = moi]
        BY <3>1, <3>4
      <4> QED
        BY <3>3, <4>1
    <3>5. ASSUME NEW k \in lectures
          PROVE  \E l \in lectures' : l.m = k.m /\ l.qui = k.qui
      <4>1. [k EXCEPT !.lu = @ \/ k.qui = moi] \in lectures'
        BY <3>1
      <4> QED
        BY <3>3, <4>1
    <3> QED
      BY <3>4, <3>5
  <2> QED
    BY <2>1, <2>2
<1>6. FormesServeur'
  BY <1>1, <1>2, <1>3, <1>4, <1>5 DEF FormesServeur
<1>7. \A i \in Ids : Lecteurs(i)' = Lecteurs(i)
  <2> SUFFICES ASSUME NEW i \in Ids
               PROVE  Lecteurs(i)' = Lecteurs(i)
    OBVIOUS
  <2>1. \A p \in Lecteurs(i)' : p \in Lecteurs(i)
    BY <1>5 DEF Lecteurs
  <2>2. \A p \in Lecteurs(i) : p \in Lecteurs(i)'
    BY <1>5 DEF Lecteurs
  <2> QED
    BY <2>1, <2>2
<1>8. \A i \in Ids : Diffusee(i) => Diffusee(i)'
  BY <1>3, <1>7 DEF Diffusee
<1>9. Len(messages) <= Len(messages') /\ UNCHANGED <<moi, ecran>>
  BY <1>1, <1>2, <1>3 DEF FormesServeur
<1>10. /\ \A s \in Actifs : FileJuste(s)'
       /\ \A s \in ecran : VueJuste(s)'
       /\ \A d \in demandes : DemandeJuste(d)'
       /\ \A e \in envois : EnvoiJuste(e)'
  BY <1>1, <1>3, <1>6, <1>8, <1>9, PagesStables
<1>11. \A l \in lectures' : LectureJuste(l)'
  <2> SUFFICES ASSUME NEW l \in lectures'
               PROVE  LectureJuste(l)'
    OBVIOUS
  <2>1. PICK k \in lectures : l.m = k.m /\ l.qui = k.qui
    BY <1>5
  <2>2. LectureJuste(k) /\ k.m \in Ids
    BY DEF PagesJustes, FormesServeur
  <2> QED
    BY <1>3, <2>1, <2>2 DEF LectureJuste
<1>12. q \in DemandeT /\ q.lus = r.lus /\ q.par = r.par /\ q.avec = r.avec
  BY <1>0, <1>2 DEF DemandeT
<1>13. \A d \in demandes' : DemandeJuste(d)'
  <2>1. DemandeJuste(q)'
    BY <1>10, <1>12 DEF DemandeJuste
  <2> QED
    BY <1>1, <1>10, <2>1
<1>14. FormesPages' /\ FormesCloche'
  BY <1>1, <1>2, <1>12 DEF FormesPages, FormesCloche, Actifs, DemandeT
<1>15. UNCHANGED ecran /\ \A e \in envois' : EnvoiJuste(e)'
  BY <1>1, <1>10
<1> QED
  BY <1>6, <1>10, <1>11, <1>13, <1>14, <1>15, Assemble

\* The answer is shown.
LEMMA PasRepondre ==
  ASSUME MessagerieAssumption, BoitesAssumption, PagesJustes, NEW r \in demandes,
         Repondre(r)
  PROVE  PagesJustes'
<1> DEFINE s == r.par
           lus == r.lus
<1>0. PICK k : k = [n |-> r.n, total |-> -1]
  OBVIOUS
<1>1. /\ r \in DemandeT /\ DemandeJuste(r) /\ FormesPages /\ FormesCloche
      /\ gestes \in Nat /\ pannes \in Nat /\ vue \in [ecran -> VueT]
  BY DEF PagesJustes, FormesPages, FormesServeur
<1>2. s \in ecran /\ lus \in Seq(Nat) /\ vue[s] \in VueT
  BY <1>1 DEF DemandeT
<1>3. k \in ComptageT
  BY <1>0, <1>1 DEF ComptageT, DemandeT
<1>4. /\ demandes' = demandes \ {r} /\ comptages' = comptages \cup {k}
      /\ vue' = Affiche(s, r.avec, lus)
      /\ UNCHANGED <<serveur, prise, file, gestes, pannes, ecran, compte, connu>>
  BY <1>0 DEF Repondre, reseau, bornes
<1>5. /\ vue' \in [ecran -> VueT] /\ VueJuste(s)'
      /\ \A b \in ecran : b # s => vue'[b] = vue[b]
  <2>1. UNCHANGED <<moi, messages>> /\ VueJuste(s)
    BY <1>2, <1>4 DEF serveur, PagesJustes
  <2>2. CASE r.avec = Tous /\ s = "boite"
    <3> DEFINE x == [vue[s] EXCEPT !.annonces = lus]
    <3>1. vue' = [vue EXCEPT ![s] = x]
      BY <1>4, <2>2 DEF Affiche
    <3>2. x \in VueT /\ x.fil = vue[s].fil /\ x.annonces = lus
      BY <1>2 DEF VueT
    <3> HIDE DEF x, s, lus
    <3>3. /\ vue' \in [ecran -> VueT] /\ vue'[s] = x
          /\ \A b \in ecran : b # s => vue'[b] = vue[b]
      BY <1>1, <1>2, <3>1, <3>2
    <3>4. ToSet(lus) \subseteq MesIds /\ s # "livreur"
      BY <1>1, <2>2 DEF DemandeJuste, lus
    <3>5. VueJuste(s)'
      BY <2>1, <3>2, <3>3, <3>4 DEF VueJuste, MesIds, DuLivreur, Ids
    <3> QED
      BY <3>3, <3>5
  <2>3. CASE ~(r.avec = Tous /\ s = "boite")
    <3> DEFINE f == IF r.avec = Tous THEN Reverse(lus) ELSE lus
               x == [vue[s] EXCEPT !.fil = f]
    <3>1. vue' = [vue EXCEPT ![s] = x]
      BY <1>4, <2>3 DEF Affiche
    <3>2. f \in Seq(Nat) /\ ToSet(f) = ToSet(lus) /\ IsInjective(f)
      BY <1>1, <1>2, ReverseVrai DEF DemandeJuste
    <3> HIDE DEF f
    <3>3. /\ x \in VueT /\ x.fil = f /\ x.annonces = vue[s].annonces
          /\ x.choix = vue[s].choix
      BY <1>2, <3>2 DEF VueT
    <3> HIDE DEF x, s, lus
    <3>4. /\ vue' \in [ecran -> VueT] /\ vue'[s] = x
          /\ \A b \in ecran : b # s => vue'[b] = vue[b]
      BY <1>1, <1>2, <3>1, <3>3
    <3>5. /\ ToSet(lus) \subseteq MesIds
          /\ s = "livreur" => ToSet(lus) \subseteq DuLivreur
      BY <1>1 DEF DemandeJuste, lus, s
    <3>6. VueJuste(s)'
      BY <2>1, <3>2, <3>3, <3>4, <3>5 DEF VueJuste, MesIds, DuLivreur, Ids
    <3> QED
      BY <3>4, <3>6
  <2> QED
    BY <2>2, <2>3
<1> HIDE DEF s, lus
<1>6. FormesPages' /\ FormesCloche'
  BY <1>1, <1>3, <1>4, <1>5 DEF FormesPages, FormesCloche, Actifs, DemandeT
<1>7. /\ \A b \in Actifs : file'[b] = file[b] \/ FileJuste(b)'
      /\ \A b \in ecran : vue'[b] = vue[b] \/ VueJuste(b)'
      /\ \A d \in demandes' : d \in demandes \/ DemandeJuste(d)
  BY <1>4, <1>5
<1> QED
  BY <1>1, <1>4, <1>6, <1>7, PasPages

\* An event reaches a component of the page.
LEMMA PasLivrer ==
  ASSUME MessagerieAssumption, BoitesAssumption, PagesJustes, NEW s \in Actifs, Livrer(s)
  PROVE  PagesJustes'
<1>0. PICK i : i = Head(file[s])
  OBVIOUS
<1>1. /\ FormesPages /\ FormesCloche /\ FileJuste(s) /\ gestes \in Nat /\ pannes \in Nat
      /\ vue \in [ecran -> VueT] /\ file \in [Actifs -> Seq(Nat)] /\ compte \in Nat
  BY DEF PagesJustes, FormesPages, FormesServeur, FormesCloche
<1>2. /\ file[s] # << >> /\ file' = [file EXCEPT ![s] = Tail(@)]
      /\ UNCHANGED <<serveur, prise, gestes, pannes, ecran, connu, comptages, demandes>>
  BY DEF Livrer, bornes
<1>3. /\ Tail(file[s]) \in Seq(Nat) /\ i \in Nat
      /\ ToSet(file[s]) = ToSet(Tail(file[s])) \cup {i}
  BY <1>0, <1>1, <1>2, TailVrai
<1>4. /\ file' \in [Actifs -> Seq(Nat)] /\ file'[s] = Tail(file[s])
      /\ \A b \in Actifs : b # s => file'[b] = file[b]
  BY <1>1, <1>2, <1>3
<1>5. UNCHANGED <<moi, messages, lectures>> /\ MesIds' = MesIds /\ DuLivreur' = DuLivreur
  BY <1>2 DEF serveur, MesIds, DuLivreur, Ids
<1>6. i \in MesIds /\ FileJuste(s)'
  BY <1>1, <1>3, <1>4, <1>5 DEF FileJuste, Diffusee, Lecteurs
<1>7. /\ vue' \in [ecran -> VueT] /\ compte' \in Nat
      /\ \A b \in ecran : vue'[b] = vue[b] \/ VueJuste(b)'
  <2>1. CASE s = "cloche" /\ EcouteCloche(i)
    BY <1>1, <2>1 DEF EcouteCloche
  <2>2. CASE s = "boite" /\ EcouteBoite(i) /\ messages[i].a = Tous
    <3> DEFINE x == [vue[s] EXCEPT !.annonces = <<i>> \o vue[s].annonces]
    <3>1. s \in ecran /\ vue[s] \in VueT /\ VueJuste(s)
      BY <1>1, <2>2 DEF Actifs, PagesJustes
    <3>2. vue' = [vue EXCEPT ![s] = x] /\ UNCHANGED compte
      BY <2>2 DEF EcouteBoite
    <3>3. vue[s].annonces \in Seq(Nat)
      BY <3>1 DEF VueT
    <3>4. /\ <<i>> \o vue[s].annonces \in Seq(Nat)
          /\ ToSet(<<i>> \o vue[s].annonces) = ToSet(vue[s].annonces) \cup {i}
      BY <1>3, <3>3, DevantVrai
    <3>5. x \in VueT /\ x.fil = vue[s].fil /\ x.annonces = <<i>> \o vue[s].annonces
      BY <3>1, <3>4 DEF VueT
    <3> HIDE DEF x
    <3>6. /\ vue' \in [ecran -> VueT] /\ vue'[s] = x
          /\ \A b \in ecran : b # s => vue'[b] = vue[b]
      BY <1>1, <3>1, <3>2, <3>5
    <3>7. VueJuste(s)'
      <4>1. s # "livreur"
        BY <2>2
      <4>2. ToSet(x.fil) \subseteq MesIds /\ IsInjective(x.fil)
        BY <3>1, <3>5 DEF VueJuste
      <4>3. ToSet(x.annonces) \subseteq MesIds
        BY <1>6, <3>1, <3>4, <3>5 DEF VueJuste
      <4> QED
        BY <1>5, <3>6, <4>1, <4>2, <4>3 DEF VueJuste
    <3> QED
      BY <1>1, <3>2, <3>6, <3>7
  <2>3. ASSUME s \in ecran, UNCHANGED compte,
               vue' = [vue EXCEPT ![s].fil = AjouteSiAbsent(@, i)],
               s = "livreur" => i \in DuLivreur
        PROVE  <1>7!:
    <3> DEFINE f == AjouteSiAbsent(vue[s].fil, i)
               x == [vue[s] EXCEPT !.fil = f]
    <3>1. s \in ecran /\ vue[s] \in VueT /\ VueJuste(s)
      BY <1>1, <2>3 DEF PagesJustes
    <3>0. vue \in [ecran -> VueT]
      BY <1>1
    <3>2. vue' = [vue EXCEPT ![s] = x]
      BY <2>3
    <3>3. vue[s].fil \in Seq(Nat)
      BY <3>1 DEF VueT
    <3>4. /\ f \in Seq(Nat) /\ ToSet(f) = ToSet(vue[s].fil) \cup {i}
          /\ IsInjective(f)
      BY <1>3, <3>1, <3>3, AjouteVrai DEF VueJuste
    <3> HIDE DEF f
    <3>5. /\ x \in VueT /\ x.fil = f /\ x.annonces = vue[s].annonces
          /\ x.choix = vue[s].choix
      BY <3>1, <3>4 DEF VueT
    <3> HIDE DEF x
    <3>6. /\ vue' \in [ecran -> VueT] /\ vue'[s] = x
          /\ \A b \in ecran : b # s => vue'[b] = vue[b]
      BY <3>0, <3>1, <3>2, <3>5
    <3>7. VueJuste(s)'
      BY <1>5, <1>6, <2>3, <3>1, <3>4, <3>5, <3>6 DEF VueJuste
    <3> QED
      BY <1>1, <2>3, <3>6, <3>7
  <2>4. CASE s = "boite" /\ EcouteBoite(i) /\ messages[i].a # Tous
    <3>1. vue' = [vue EXCEPT ![s].fil = AjouteSiAbsent(@, i)] /\ UNCHANGED compte
      BY <2>4 DEF EcouteBoite
    <3> QED
      BY <2>3, <2>4, <3>1 DEF Actifs
  <2>5. CASE s = "bulle" /\ EcouteBulle(i)
    BY <2>3, <2>5 DEF EcouteBulle, Actifs
  <2>6. CASE s = "livreur" /\ EcouteLivreur(i)
    <3>1. CASE Livreur \in {messages[i].de, messages[i].a}
      <4>1. i \in DuLivreur
        BY <1>6, <3>1 DEF DuLivreur, MesIds
      <4>2. vue' = [vue EXCEPT ![s].fil = AjouteSiAbsent(@, i)] /\ UNCHANGED compte
        BY <2>6, <3>1 DEF EcouteLivreur
      <4> QED
        BY <2>3, <2>6, <4>1, <4>2 DEF Actifs
    <3>2. CASE Livreur \notin {messages[i].de, messages[i].a}
      <4> DEFINE x == [vue[s] EXCEPT !.fil = vue[s].fil]
      <4>1. vue' = [vue EXCEPT ![s] = x] /\ UNCHANGED compte /\ vue[s] \in VueT
        BY <1>1, <2>6, <3>2 DEF EcouteLivreur, Actifs
      <4>2. x = vue[s]
        BY <4>1 DEF VueT
      <4> HIDE DEF x
      <4> QED
        BY <1>1, <4>1, <4>2
    <3> QED
      BY <3>1, <3>2
  <2>7. CASE s = "admin" /\ EcouteAdmin(i)
    BY <2>3, <2>7 DEF EcouteAdmin, Actifs
  <2> QED
    BY <1>0, <2>1, <2>2, <2>4, <2>5, <2>6, <2>7 DEF Livrer
<1>8. FormesPages' /\ FormesCloche'
  BY <1>1, <1>2, <1>4, <1>7 DEF FormesPages, FormesCloche, Actifs, DemandeT
<1>9. /\ \A b \in Actifs : file'[b] = file[b] \/ FileJuste(b)'
      /\ \A d \in demandes' : d \in demandes \/ DemandeJuste(d)
  BY <1>2, <1>4, <1>6
<1> QED
  BY <1>1, <1>2, <1>7, <1>8, <1>9, PasPages

\* moi sends, or someone else.
LEMMA PasEnvois ==
  ASSUME MessagerieAssumption, BoitesAssumption, PagesJustes,
         \/ "boite" \in ecran /\ EnvoyerBoite
         \/ "bulle" \in ecran /\ EnvoyerBulle
         \/ "livreur" \in ecran /\ EnvoyerLivreur
         \/ "admin" \in ecran /\ EnvoyerAdmin
         \/ \E c \in Courriers : AutreEnvoie(c[1], c[2])
  PROVE  PagesJustes'
<1>1. /\ moi \in Personnes /\ vue \in [ecran -> VueT]
      /\ "livreur" \in ecran => vue["livreur"].choix = Livreur
  BY DEF PagesJustes, FormesServeur, FormesPages, VueJuste
<1>2. ASSUME NEW s \in ecran, Envoyer(s), vue[s].choix # Aucun
      PROVE  PagesJustes'
  <2>1. vue[s].choix \in Personnes \cup {Tous}
    <3>1. vue[s] \in VueT
      BY <1>1
    <3> QED
      BY <1>2, <3>1 DEF VueT
  <2> QED
    BY <1>1, <1>2, <2>1, PasMessage DEF Envoyer
<1>3. ASSUME NEW c \in Courriers, AutreEnvoie(c[1], c[2])
      PROVE  PagesJustes'
  BY <1>3, Constantes, PasMessage DEF AutreEnvoie
<1>4. CASE "boite" \in ecran /\ EnvoyerBoite
  BY <1>2, <1>4 DEF EnvoyerBoite
<1>5. CASE "bulle" \in ecran /\ EnvoyerBulle
  BY <1>2, <1>5 DEF EnvoyerBulle
<1>6. CASE "livreur" \in ecran /\ EnvoyerLivreur
  BY <1>1, <1>2, <1>6, Constantes DEF EnvoyerLivreur
<1>7. CASE "admin" \in ecran /\ EnvoyerAdmin
  BY <1>2, <1>7 DEF EnvoyerAdmin
<1> QED
  BY <1>3, <1>4, <1>5, <1>6, <1>7

LEMMA NextPages ==
  ASSUME MessagerieAssumption, BoitesAssumption, PagesJustes, Next
  PROVE  PagesJustes'
<1>1. CASE GatewayNext /\ UNCHANGED <<cloche, vue, demandes>>
  <2>1. CASE \E s \in DOMAIN prise : HandleConnection(s) \/ Refuser(s)
    BY <1>1, <2>1, PasReseau
  <2>2. ASSUME NEW e \in envois, Lectures(e)
        PROVE  PagesJustes'
    BY <1>1, <2>2, PasLectures
  <2>3. ASSUME NEW e \in envois, Emettre(e) \/ Interrompre(e)
        PROVE  PagesJustes'
    BY <1>1, <2>3, PasEmettre
  <2> QED
    BY <1>1, <2>1, <2>2, <2>3 DEF GatewayNext
<1>2. ASSUME NEW s \in Actifs, Livrer(s)
      PROVE  PagesJustes'
  BY <1>2, PasLivrer
<1>3. CASE Renouveler \/ MoiConnu
  BY <1>3, PasReseau
<1>4. CASE \/ Echouer
           \/ \E r \in comptages : Compter(r) \/ CompterRefuse(r) \/ RepondreCompte(r)
  BY <1>4, PasCloche
<1>5. CASE Gestes
  <2>1. CASE \/ MonterBoite \/ MonterBulle \/ BasculerBulle \/ BasculerLivreur
             \/ \E c \in Personnes \cup {Tous} : ChoisirBoite(c) \/ ChoisirAdmin(c)
    BY <2>1, PasDemandes
  <2>2. CASE \/ "boite" \in ecran /\ EnvoyerBoite
             \/ "bulle" \in ecran /\ EnvoyerBulle
             \/ "livreur" \in ecran /\ EnvoyerLivreur
             \/ "admin" \in ecran /\ EnvoyerAdmin
    BY <2>2, PasEnvois
  <2> QED
    BY <1>5, <2>1, <2>2 DEF Gestes
<1>6. CASE \E c \in Courriers : AutreEnvoie(c[1], c[2])
  BY <1>6, PasEnvois
<1>7. ASSUME NEW r \in demandes, Lire(r) \/ Marquer(r) \/ Repondre(r)
      PROVE  PagesJustes'
  BY <1>7, PasLire, PasMarquer, PasRepondre
<1> QED
  BY <1>1, <1>2, <1>3, <1>4, <1>5, <1>6, <1>7 DEF Next, Etape

LEMMA PasPagesVars ==
  ASSUME MessagerieAssumption, BoitesAssumption, PagesJustes, [Next]_vars
  PROVE  PagesJustes'
<1>1. CASE UNCHANGED vars
  <2>1. /\ UNCHANGED <<serveur, ecran, gestes, pannes, prise, file, vue, demandes, compte,
                       connu, comptages>>
    BY <1>1 DEF vars, cloche, reseau, bornes
  <2>2. gestes \in Nat /\ pannes \in Nat /\ FormesPages /\ FormesCloche
    BY DEF PagesJustes, FormesServeur
  <2>3. FormesPages' /\ FormesCloche'
    BY <2>1, <2>2 DEF FormesPages, FormesCloche, Actifs, DemandeT
  <2> QED
    BY <2>1, <2>2, <2>3, PasPages
<1> QED
  BY <1>1, NextPages

\* The pages stay right: what they show, what is on its way to them and what
\* their requests carry was sent, and concerns moi.
THEOREM PagesVraies == Spec => []PagesJustes
<1>1. Init => PagesJustes
  BY InitPages, MessagerieAssumption, BoitesAssumption
<1>2. PagesJustes /\ [Next]_vars => PagesJustes'
  BY PasPagesVars, MessagerieAssumption, BoitesAssumption
<1> QED
  BY <1>1, <1>2, PTL DEF Spec

LEMMA ConcatVrai ==
  ASSUME NEW s \in Seq(Nat), NEW t \in Seq(Nat)
  PROVE  ToSet(s \o t) = ToSet(s) \cup ToSet(t)
<1>1. /\ s \o t \in Seq(Nat) /\ Len(s \o t) = Len(s) + Len(t) /\ Len(s) \in Nat
      /\ Len(t) \in Nat /\ \A i \in 1..Len(s) : (s \o t)[i] = s[i]
      /\ \A i \in (Len(s) + 1)..(Len(s) + Len(t)) : (s \o t)[i] = t[i - Len(s)]
  OBVIOUS
<1>2. /\ DOMAIN s = 1..Len(s) /\ DOMAIN t = 1..Len(t)
      /\ DOMAIN (s \o t) = 1..(Len(s) + Len(t))
  BY <1>1
<1> DEFINE u == s \o t
<1> HIDE DEF u
<1>3. ASSUME NEW x \in ToSet(u)
      PROVE  x \in ToSet(s) \cup ToSet(t)
  <2>1. PICK i \in 1..(Len(s) + Len(t)) : x = u[i]
    BY <1>2 DEF ToSet, u
  <2>2. CASE i \in 1..Len(s)
    BY <1>1, <1>2, <2>1, <2>2 DEF ToSet, u
  <2>3. CASE i \notin 1..Len(s)
    <3>1. i \in (Len(s) + 1)..(Len(s) + Len(t)) /\ i - Len(s) \in 1..Len(t)
      BY <1>1, <2>3
    <3> QED
      BY <1>1, <1>2, <2>1, <3>1 DEF ToSet, u
  <2> QED
    BY <2>2, <2>3
<1>4. ASSUME NEW x \in ToSet(s)
      PROVE  x \in ToSet(u)
  <2>1. PICK i \in 1..Len(s) : x = s[i]
    BY <1>2 DEF ToSet
  <2>2. i \in 1..(Len(s) + Len(t))
    BY <1>1
  <2> QED
    BY <1>1, <1>2, <2>1, <2>2 DEF ToSet, u
<1>5. ASSUME NEW x \in ToSet(t)
      PROVE  x \in ToSet(u)
  <2>1. PICK i \in 1..Len(t) : x = t[i]
    BY <1>2 DEF ToSet
  <2>2. /\ i + Len(s) \in (Len(s) + 1)..(Len(s) + Len(t))
        /\ i + Len(s) \in 1..(Len(s) + Len(t)) /\ (i + Len(s)) - Len(s) = i
    BY <1>1
  <2>3. u[i + Len(s)] = x
    BY <1>1, <2>1, <2>2 DEF u
  <2> QED
    BY <1>2, <2>2, <2>3 DEF ToSet, u
<1> QED
  BY <1>3, <1>4, <1>5 DEF u

\* A token is replaced before it is found expired, and that is for ever.
LEMMA EcouteNext ==
  ASSUME Next, ecoute \in {"courante", "remplacee", "perimee"}
  PROVE  /\ ecoute' \in {"courante", "remplacee", "perimee"}
         /\ ecoute = "perimee" => ecoute' = "perimee"
<1> DEFINE But == \/ ecoute' = ecoute
                  \/ ecoute' = "perimee"
                  \/ ecoute' = "remplacee" /\ ecoute = "courante"
<1>0. SUFFICES But
  OBVIOUS
<1>1. CASE GatewayNext /\ UNCHANGED <<cloche, vue, demandes>>
  BY <1>1 DEF cloche
<1>2. CASE \/ \E s \in Actifs : Livrer(s)
           \/ Renouveler \/ MoiConnu \/ Echouer
  BY <1>2 DEF Livrer, Renouveler, MoiConnu, Echouer
<1>3. ASSUME \E s, c, o : Passer(s, c, o)
      PROVE  But
  BY <1>3 DEF Passer, cloche
<1>4. CASE Gestes
  <2>1. CASE \/ MonterBoite \/ MonterBulle \/ BasculerBulle
             \/ \E c \in Personnes \cup {Tous} : ChoisirBoite(c) \/ ChoisirAdmin(c)
    <3>1. (~vue["bulle"].ouvert) \in BOOLEAN
      OBVIOUS
    <3>2. \E s, c, o : Passer(s, c, o)
      BY <2>1, <3>1 DEF MonterBoite, MonterBulle, BasculerBulle, ChoisirBoite,
         ChoisirAdmin
    <3> QED
      BY <1>3, <3>2
  <2>2. CASE BasculerLivreur
    BY <2>2 DEF BasculerLivreur, Passer, cloche
  <2>3. CASE \/ "boite" \in ecran /\ EnvoyerBoite
             \/ "bulle" \in ecran /\ EnvoyerBulle
             \/ "livreur" \in ecran /\ EnvoyerLivreur
             \/ "admin" \in ecran /\ EnvoyerAdmin
    BY <2>3 DEF EnvoyerBoite, EnvoyerBulle, EnvoyerLivreur, EnvoyerAdmin, Envoyer, cloche
  <2> QED
    BY <1>4, <2>1, <2>2, <2>3 DEF Gestes
<1>5. CASE \E c \in Courriers : AutreEnvoie(c[1], c[2])
  BY <1>5 DEF AutreEnvoie, cloche
<1>6. CASE \E r \in comptages : Compter(r) \/ CompterRefuse(r) \/ RepondreCompte(r)
  BY <1>6 DEF Compter, CompterRefuse, RepondreCompte
<1>7. CASE \E r \in demandes : Lire(r) \/ Marquer(r) \/ Repondre(r)
  BY <1>7 DEF Lire, Marquer, Repondre, cloche
<1> QED
  <2> HIDE DEF But
  <2> QED
    BY <1>1, <1>2, <1>4, <1>5, <1>6, <1>7 DEF Next, Etape

\* The bell counts with one token, which is current, replaced or found expired.
THEOREM EcouteVraie == Spec => [](ecoute \in {"courante", "remplacee", "perimee"})
<1> DEFINE I == ecoute \in {"courante", "remplacee", "perimee"}
<1>1. Init => I
  BY DEF Init
<1>2. I /\ [Next]_vars => I'
  <2>1. I /\ Next => I'
    BY EcouteNext
  <2>2. I /\ UNCHANGED vars => I'
    BY DEF vars, cloche
  <2> QED
    BY <2>1, <2>2
<1> QED
  BY <1>1, <1>2, PTL DEF Spec

\* Participant: no page ever shows moi a message between two other people, and
\* the driver's panel only the conversation with the driver.
THEOREM ParticipantVrai == Spec => []Participant
<1> DEFINE E == ecoute \in {"courante", "remplacee", "perimee"}
<1> SUFFICES ASSUME PagesJustes, E
             PROVE  Participant
  <2>1. (PagesJustes /\ E => Participant) => (Spec => []Participant)
    BY PagesVraies, EcouteVraie, PTL
  <2> QED
    BY <2>1
<1>1. ASSUME NEW s \in ecran
      PROVE  /\ ToSet(vue[s].fil \o vue[s].annonces) \subseteq MesIds
             /\ vue[s].choix \in Personnes \cup {Tous, Aucun}
  <2>1. vue[s] \in VueT /\ VueJuste(s)
    BY DEF PagesJustes, FormesPages
  <2>2. vue[s].fil \in Seq(Nat) /\ vue[s].annonces \in Seq(Nat)
    BY <2>1 DEF VueT
  <2> QED
    BY <2>1, <2>2, ConcatVrai DEF VueJuste, VueT
<1>2. FilDuLivreur
  BY DEF PagesJustes, VueJuste, DuLivreur, FilDuLivreur
<1>3. TypeOK
  <2>1. /\ moi \in Personnes /\ ecran \in Ecrans
        /\ messages \in Seq([de : Personnes, a : Personnes \cup {Tous}, lu : BOOLEAN])
        /\ lectures \subseteq [m : Ids, qui : Personnes, lu : BOOLEAN]
        /\ prise \in [Actifs -> Etats] /\ compte \in Nat /\ connu \in BOOLEAN
    BY DEF PagesJustes, FormesServeur, FormesPages, FormesCloche, MessageT
  <2>2. \A e \in envois : e.m \in {0} \cup Ids
    BY DEF PagesJustes, EnvoiJuste
  <2>3. \A s \in Actifs : ToSet(file[s]) \subseteq Ids
    BY DEF PagesJustes, FileJuste, MesIds
  <2> QED
    BY <1>1, <2>1, <2>2, <2>3 DEF TypeOK, MesIds
<1>4. \A s \in ecran : \A i \in ToSet(vue[s].fil \o vue[s].annonces) :
        messages[i].a = Tous \/ moi \in {messages[i].de, messages[i].a}
  BY <1>1 DEF MesIds
<1> QED
  BY <1>2, <1>3, <1>4 DEF Participant

\* DiffusionPartout: a broadcast reaches no page before everyone but its sender
\* has it to read.
THEOREM DiffusionPartoutVraie == Spec => []DiffusionPartout
<1>1. PagesJustes => DiffusionPartout
  BY DEF PagesJustes, FileJuste, DiffusionPartout, Diffusee, Lecteurs
<1> QED
  BY <1>1, PagesVraies, PTL

\* SansDoublon: no thread shows a message twice.
THEOREM SansDoublonVrai == Spec => []SansDoublon
<1>1. PagesJustes => SansDoublon
  BY DEF PagesJustes, VueJuste, SansDoublon
<1> QED
  BY <1>1, PagesVraies, PTL

----------------------------------------------------------------------------
(* What a component at rest shows.                                         *)

\* Where a message of the contact is: shown, on its way or being handled.
Liste(s) ==
  IF s = "boite" /\ vue[s].choix = Tous THEN vue[s].annonces ELSE vue[s].fil
Arrive(s, i) ==
  \/ i \in ToSet(Liste(s)) \/ i \in ToSet(file[s])
  \/ \E e \in envois : e.m = i

\* What no disturbance means for a component of the page.
Paisible(s) ==
  /\ \A r, q \in EnCours(s) : r = q
  /\ EnCours(s) # {} => ~EnChemin(s)
  /\ EnChemin(s) => prise[s] = "jointe"

Fidele(s) ==
  /\ \A r \in EnCours(s) :
       /\ r.avec = vue[s].choix
       /\ r.pc # "lire" => Cible(r.avec) \subseteq ToSet(r.lus)
  /\ \A c \in Personnes \cup {Tous} :
       EnCours(s) = {} /\ vue[s].choix = c => \A i \in Cible(c) : Arrive(s, i)

\* A message marked read was shown as its sender's, or is about to be.
Montree(s) ==
  \A i \in Ids : messages[i].a = moi /\ messages[i].lu =>
    \/ i \in montres
    \/ \E r \in EnCours(s) :
         r.pc = "repondre" /\ r.avec = messages[i].de /\ i \in ToSet(r.lus)

FormesCalme ==
  /\ calme \in [Actifs -> BOOLEAN]
  /\ IsFiniteSet(demandes) /\ \A r \in demandes : r.n \leq gestes

PagesCalmes ==
  /\ PagesJustes /\ FormesCalme
  /\ \A s \in ecran : calme[s] => Paisible(s) /\ Fidele(s)

LusMontres ==
  "bulle" \notin ecran =>
    \A s \in ecran \cap {"boite", "admin"} : calme[s] => Montree(s)

----------------------------------------------------------------------------
(* What the bell shows.                                                    *)

\* The messages that will ring.
EnVenue == {e \in envois : e.a = moi \/ (e.a = Tous /\ e.pc = "emettre" /\ e.de # moi)}
Sonneries == {k \in DOMAIN file["cloche"] : Sonne(messages[file["cloche"][k]])}

FormesEnvois ==
  /\ IsFiniteSet(envois) /\ IsFiniteSet(comptages)
  /\ (moi \in Admins) <=> (ecran = {"admin"})
  /\ "livreur" \in ecran => moi # Livreur
  /\ \A s \in ecran : vue[s].choix # moi
  /\ \A i \in Ids : messages[i].de # messages[i].a
  /\ \A e, f \in envois : e.m = f.m => e = f
  /\ \A e \in envois : \A l \in lectures : e.pc = "lectures" => l.m # e.m

\* No page has marked messages as read and not yet told the bell.
Libre == \A r \in demandes : r.pc # "repondre"

ANouveau == DirectsNonLus + DiffusionsNonLues

\* What the bell will show when what is on its way has come.
Somme == compte + Cardinality(Sonneries) + Cardinality(EnVenue)

\* It is what is left to read, unless the bell was refused.
Compteur ==
  /\ comptages = {} => Somme = ANouveau \/ ecoute = "perimee"
  /\ \A r \in comptages : r.total # -1 => r.total = ANouveau

\* In any case it is no less.
Plancher ==
  /\ Somme >= ANouveau
  /\ \A r \in comptages : r.total # -1 => r.total >= ANouveau

ClocheJuste ==
  calme["cloche"] =>
    /\ Paisible("cloche")
    /\ Libre => Compteur
    /\ Plancher

ClocheCalme ==
  /\ PagesJustes /\ FormesCalme /\ FormesEnvois /\ ClocheJuste
  /\ ecoute \in {"courante", "remplacee", "perimee"}

----------------------------------------------------------------------------
(* Nothing disturbed a component.                                          *)

LEMMA UnSeul ==
  ASSUME NEW S, IsFiniteSet(S), ~(Cardinality(S) > 1), NEW r \in S, NEW q \in S
  PROVE  r = q
<1> SUFFICES ASSUME r # q
             PROVE  FALSE
  OBVIOUS
<1>1. IsFiniteSet(S \ {r}) /\ Cardinality(S \ {r}) = Cardinality(S) - 1
  BY FS_RemoveElement
<1>2. /\ IsFiniteSet((S \ {r}) \ {q})
      /\ Cardinality((S \ {r}) \ {q}) = Cardinality(S \ {r}) - 1
  BY <1>1, FS_RemoveElement
<1>3. Cardinality((S \ {r}) \ {q}) \in Nat /\ Cardinality(S) \in Nat
  BY <1>2, FS_CardinalityType
<1> QED
  BY <1>1, <1>2, <1>3

\* Every step keeps moi and the components of the page.
LEMMA PasMoi ==
  ASSUME Etape
  PROVE  UNCHANGED <<moi, ecran>>
<1>1. CASE GatewayNext /\ UNCHANGED <<cloche, vue, demandes>>
  BY <1>1 DEF GatewayNext, HandleConnection, Refuser, Lectures, Emettre, Interrompre,
     cloche, serveur
<1>2. ASSUME NEW s \in Actifs, Livrer(s)
      PROVE  UNCHANGED <<moi, ecran>>
  BY <1>2 DEF Livrer, serveur
<1>3. CASE Renouveler \/ MoiConnu \/ Echouer
  BY <1>3 DEF Renouveler, MoiConnu, Echouer, serveur, cloche
<1>4. CASE Gestes
  BY <1>4 DEF Gestes, MonterBoite, MonterBulle, BasculerBulle, BasculerLivreur,
     ChoisirBoite, ChoisirAdmin, EnvoyerBoite, EnvoyerBulle, EnvoyerLivreur,
     EnvoyerAdmin, Envoyer, HandleMessage, Passer, serveur, cloche
<1>5. ASSUME NEW c \in Courriers, AutreEnvoie(c[1], c[2])
      PROVE  UNCHANGED <<moi, ecran>>
  BY <1>5 DEF AutreEnvoie, HandleMessage, cloche
<1>6. ASSUME NEW r \in comptages, Compter(r) \/ CompterRefuse(r) \/ RepondreCompte(r)
      PROVE  UNCHANGED <<moi, ecran>>
  BY <1>6 DEF Compter, CompterRefuse, RepondreCompte, serveur
<1>7. ASSUME NEW r \in demandes, Lire(r) \/ Marquer(r) \/ Repondre(r)
      PROVE  UNCHANGED <<moi, ecran>>
  BY <1>7 DEF Lire, Marquer, Repondre, serveur, cloche
<1> QED
  BY <1>1, <1>2, <1>3, <1>4, <1>5, <1>6, <1>7 DEF Etape

\* What a step does to the requests of the components.
ResteOuAvance ==
  \/ demandes' \subseteq demandes
  \/ \E r \in demandes : \E q : demandes' = (demandes \ {r}) \cup {q} /\ q.n = r.n
  \/ \E q : demandes' = demandes \cup {q} /\ q.n = gestes'

LEMMA PasserRequetes ==
  ASSUME NEW s, NEW c, NEW o, Passer(s, c, o)
  PROVE  gestes' = gestes + 1 /\ ResteOuAvance
<1> DEFINE q == [n |-> gestes', par |-> s, avec |-> c, pc |-> "lire", lus |-> << >>]
<1>1. demandes' = demandes \cup {q} /\ q.n = gestes' /\ gestes' = gestes + 1
  BY DEF Passer, Demander, Geste
<1> HIDE DEF q
<1> QED
  BY <1>1 DEF ResteOuAvance

LEMMA PasRequetes ==
  ASSUME Etape, gestes \in Nat
  PROVE  gestes' \in Nat /\ gestes \leq gestes' /\ ResteOuAvance
<1>1. CASE GatewayNext /\ UNCHANGED <<cloche, vue, demandes>>
  <2>1. UNCHANGED <<gestes, demandes>>
    BY <1>1 DEF GatewayNext, HandleConnection, Refuser, Lectures, Emettre, Interrompre,
       PanneDe, bornes
  <2> QED
    BY <2>1 DEF ResteOuAvance
<1>2. ASSUME NEW s \in Actifs, Livrer(s)
      PROVE  gestes' = gestes /\ demandes' = demandes
  BY <1>2 DEF Livrer, bornes
<1>3. CASE Renouveler \/ MoiConnu \/ Echouer
  BY <1>3 DEF Renouveler, MoiConnu, Echouer, Geste, PanneDe, bornes, ResteOuAvance
<1>5. CASE Gestes
  <2>1. CASE \/ MonterBoite \/ MonterBulle \/ BasculerBulle
             \/ \E c \in Personnes \cup {Tous} : ChoisirBoite(c) \/ ChoisirAdmin(c)
    <3>1. (~vue["bulle"].ouvert) \in BOOLEAN
      OBVIOUS
    <3>2. \E s, c, o : Passer(s, c, o)
      BY <2>1, <3>1 DEF MonterBoite, MonterBulle, BasculerBulle, ChoisirBoite,
         ChoisirAdmin
    <3>3. gestes' = gestes + 1 /\ ResteOuAvance
      BY <3>2, PasserRequetes
    <3> QED
      BY <3>3
  <2>2. CASE BasculerLivreur
    <3>1. CASE ~vue["livreur"].ouvert
      <4>1. Passer("livreur", Livreur, TRUE)
        BY <2>2, <3>1 DEF BasculerLivreur
      <4>2. gestes' = gestes + 1 /\ ResteOuAvance
        BY PasserRequetes, <4>1
      <4> QED
        BY <4>2
    <3>2. CASE vue["livreur"].ouvert
      BY <2>2, <3>2 DEF BasculerLivreur, bornes, ResteOuAvance
    <3> QED
      BY <3>1, <3>2
  <2>3. CASE \/ "boite" \in ecran /\ EnvoyerBoite
             \/ "bulle" \in ecran /\ EnvoyerBulle
             \/ "livreur" \in ecran /\ EnvoyerLivreur
             \/ "admin" \in ecran /\ EnvoyerAdmin
    BY <2>3 DEF EnvoyerBoite, EnvoyerBulle, EnvoyerLivreur, EnvoyerAdmin, Envoyer,
       HandleMessage, bornes, ResteOuAvance
  <2> QED
    BY <1>5, <2>1, <2>2, <2>3 DEF Gestes
<1>6. ASSUME NEW c \in Courriers, AutreEnvoie(c[1], c[2])
      PROVE  gestes' = gestes /\ demandes' = demandes
  BY <1>6 DEF AutreEnvoie, HandleMessage, bornes
<1>7. ASSUME NEW r \in comptages, Compter(r) \/ CompterRefuse(r) \/ RepondreCompte(r)
      PROVE  gestes' = gestes /\ demandes' = demandes
  BY <1>7 DEF Compter, CompterRefuse, RepondreCompte, bornes
<1>8. ASSUME NEW r \in demandes, Lire(r) \/ Marquer(r)
      PROVE  gestes' = gestes
             /\ \E q : demandes' = (demandes \ {r}) \cup {q} /\ q.n = r.n
  <2>1. CASE Lire(r)
    <3> DEFINE q == [r EXCEPT !.lus = Lit(r.avec), !.pc = "marquer"]
    <3>1. gestes' = gestes /\ demandes' = (demandes \ {r}) \cup {q} /\ q.n = r.n
      BY <2>1 DEF Lire, Suite, bornes
    <3> HIDE DEF q
    <3> QED
      BY <3>1
  <2>2. CASE Marquer(r)
    <3> DEFINE q == [r EXCEPT !.pc = "repondre"]
    <3>1. gestes' = gestes /\ demandes' = (demandes \ {r}) \cup {q} /\ q.n = r.n
      BY <2>2 DEF Marquer, Suite, bornes
    <3> HIDE DEF q
    <3> QED
      BY <3>1
  <2> QED
    BY <1>8, <2>1, <2>2
<1>9. ASSUME NEW r \in demandes, Repondre(r)
      PROVE  gestes' = gestes /\ demandes' \subseteq demandes
  BY <1>9 DEF Repondre, bornes
<1> QED
  BY <1>1, <1>2, <1>3, <1>5, <1>6, <1>7, <1>8, <1>9 DEF Etape, ResteOuAvance

LEMMA PasFormesCalme ==
  ASSUME PagesJustes, PagesJustes', FormesCalme, Next
  PROVE  FormesCalme'
<1>1. gestes \in Nat /\ \A r \in demandes : r.n \in Nat
  BY DEF PagesJustes, FormesServeur, FormesPages, DemandeT
<1>2. gestes' \in Nat /\ gestes \leq gestes' /\ ResteOuAvance
  BY <1>1, PasRequetes DEF Next
<1>3. UNCHANGED ecran
  BY PasMoi DEF Next
<1>4. calme' \in [Actifs' -> BOOLEAN]
  BY <1>3 DEF Next, Temoins, Actifs
<1>5. IsFiniteSet(demandes') /\ \A r \in demandes' : r.n \leq gestes'
  <2>0. IsFiniteSet(demandes) /\ \A r \in demandes : r.n \leq gestes
    BY DEF FormesCalme
  <2>1. CASE demandes' \subseteq demandes
    <3>1. IsFiniteSet(demandes')
      BY <2>0, <2>1, FS_Subset
    <3> QED
      BY <1>1, <1>2, <2>0, <2>1, <3>1
  <2>2. ASSUME NEW r \in demandes, NEW q, demandes' = (demandes \ {r}) \cup {q}, q.n = r.n
        PROVE  <1>5!:
    <3>1. IsFiniteSet(demandes \ {r})
      BY <2>0, FS_RemoveElement
    <3>2. IsFiniteSet(demandes')
      BY <2>2, <3>1, FS_AddElement
    <3>3. \A d \in demandes' : d \in demandes \/ d.n = r.n
      BY <2>2
    <3> QED
      BY <1>1, <1>2, <2>0, <3>2, <3>3
  <2>3. ASSUME NEW q, demandes' = demandes \cup {q}, q.n = gestes'
        PROVE  <1>5!:
    <3>1. IsFiniteSet(demandes')
      BY <2>0, <2>3, FS_AddElement
    <3>2. \A d \in demandes' : d \in demandes \/ d.n = gestes'
      BY <2>3
    <3> QED
      BY <1>1, <1>2, <2>0, <3>1, <3>2
  <2> QED
    BY <1>2, <2>1, <2>2, <2>3 DEF ResteOuAvance
<1> QED
  BY <1>4, <1>5 DEF FormesCalme

\* A component that a step leaves undisturbed was not disturbed before.
LEMMA Tranquille ==
  ASSUME FormesCalme, FormesCalme', Temoins, UNCHANGED ecran, NEW s \in Actifs,
         s = "cloche" => IsFiniteSet(comptages'), calme'[s]
  PROVE  calme[s] /\ ~Trouble(s) /\ Paisible(s)'
<1>1. calme[s] /\ ~Trouble(s)
  BY DEF Temoins
<1>2. IsFiniteSet(EnCours(s)')
  <2>1. {r \in demandes' : r.par = s} \in SUBSET demandes'
    OBVIOUS
  <2>2. IsFiniteSet({r \in demandes' : r.par = s})
    BY <2>1, FS_Subset DEF FormesCalme
  <2> QED
    BY <2>2 DEF EnCours
<1>3. ~(Cardinality(EnCours(s)') > 1)
  BY <1>1 DEF Trouble
<1>4. \A r, q \in EnCours(s)' : r = q
  BY <1>2, <1>3, UnSeul
<1>5. (EnCours(s)' # {} => ~EnChemin(s)') /\ (EnChemin(s)' => prise'[s] = "jointe")
  BY <1>1 DEF Trouble
<1> QED
  BY <1>1, <1>4, <1>5 DEF Paisible

\* The broadcasts.
Toutes == {i \in Ids : messages[i].a = Tous}

LEMMA CibleStable ==
  ASSUME UNCHANGED moi, Ids' = Ids,
         \A i \in Ids : messages'[i].de = messages[i].de /\ messages'[i].a = messages[i].a
  PROVE  \A c \in Personnes \cup {Tous} : Cible(c)' = Cible(c)
<1>1. Toutes' = Toutes
  BY DEF Toutes
<1>2. Diffusions = {i \in Toutes : Cardinality({j \in Toutes : j > i}) < Prise}
  BY DEF Diffusions, Toutes
<1>3. Diffusions' = {i \in Toutes' : Cardinality({j \in Toutes' : j > i}) < Prise}
  BY DEF Diffusions, Toutes
<1>4. Diffusions' = Diffusions
  BY <1>1, <1>2, <1>3
<1>5. ASSUME NEW c \in Personnes
      PROVE  Fil(moi, c)' = Fil(moi, c)
  BY DEF Fil
<1> QED
  BY <1>4, <1>5 DEF Cible

LEMMA CibleAjout ==
  ASSUME FormesServeur, FormesServeur', UNCHANGED moi, NEW N \in Nat, Ids' = Ids \cup {N},
         \A i \in Ids : messages'[i] = messages[i], Prise \in Nat
  PROVE  \A c \in Personnes \cup {Tous} : \A i \in Cible(c)' :
           \/ i \in Cible(c)
           \/ i = N /\ (messages'[N].a = Tous \/ moi \in {messages'[N].a, messages'[N].de})
<1>1. Toutes \subseteq Toutes' /\ \A i \in Toutes' : i \in Toutes \/ i = N
  BY DEF Toutes
<1>2. Diffusions = {i \in Toutes : Cardinality({j \in Toutes : j > i}) < Prise}
  BY DEF Diffusions, Toutes
<1>3. Diffusions' = {i \in Toutes' : Cardinality({j \in Toutes' : j > i}) < Prise}
  BY DEF Diffusions, Toutes
<1>4. IsFiniteSet(Toutes')
  <2>1. Len(messages') \in Int
    BY DEF FormesServeur
  <2>2. IsFiniteSet(Ids') /\ Toutes' \in SUBSET Ids'
    BY <2>1, FS_Interval DEF Ids, Toutes
  <2> QED
    BY <2>2, FS_Subset
<1>5. ASSUME NEW i \in Diffusions', i \notin Diffusions
      PROVE  i = N /\ messages'[N].a = Tous
  <2>1. i \in Toutes'
    BY <1>3
  <2>2. CASE i \in Toutes
    <3> DEFINE A == {j \in Toutes : j > i}
               B == {j \in Toutes' : j > i}
    <3>1. B \in SUBSET Toutes' /\ A \in SUBSET B
      BY <1>1
    <3>2. IsFiniteSet(B)
      BY <1>4, <3>1, FS_Subset
    <3>3. IsFiniteSet(A) /\ Cardinality(A) <= Cardinality(B)
      BY <3>1, <3>2, FS_Subset
    <3>4. Cardinality(A) \in Nat /\ Cardinality(B) \in Nat
      BY <3>2, <3>3, FS_CardinalityType
    <3>5. Cardinality(B) < Prise
      BY <1>3
    <3>6. Cardinality(A) < Prise
      BY <3>3, <3>4, <3>5
    <3> QED
      BY <1>2, <1>5, <2>2, <3>6
  <2>3. CASE i \notin Toutes
    BY <1>1, <2>1, <2>3 DEF Toutes
  <2> QED
    BY <2>2, <2>3
<1>6. ASSUME NEW c \in Personnes, NEW i \in Fil(moi, c)', i \notin Fil(moi, c)
      PROVE  i = N /\ moi \in {messages'[N].a, messages'[N].de}
  BY <1>6 DEF Fil
<1>7. ASSUME NEW c \in Personnes \cup {Tous}, NEW i \in Cible(c)', i \notin Cible(c)
      PROVE  i = N /\ (messages'[N].a = Tous \/ moi \in {messages'[N].a, messages'[N].de})
  <2>1. CASE c = Tous
    BY <1>5, <1>7, <2>1 DEF Cible
  <2>2. CASE c # Tous
    BY <1>6, <1>7, <2>2 DEF Cible
  <2> QED
    BY <2>1, <2>2
<1> QED
  BY <1>7

\* What is left when nothing changes for the component s.
LEMMA FideleStable ==
  ASSUME NEW s \in ecran, Fidele(s), UNCHANGED ecran,
         {r \in demandes' : r.par = s} = {r \in demandes : r.par = s}, s # "cloche",
         vue'[s] = vue[s] \/ (vue'[s].choix = vue[s].choix /\ vue'[s].fil = vue[s].fil
                                /\ vue'[s].annonces = vue[s].annonces),
         file'[s] = file[s], \A e \in envois : \E f \in envois' : f.m = e.m,
         \A c \in Personnes \cup {Tous} : \A i \in Cible(c)' :
           i \in Cible(c) \/ ((\E f \in envois' : f.m = i) /\ EnCours(s) = {}),
         \A r \in EnCours(s) : r.avec \in Personnes \cup {Tous}
  PROVE  Fidele(s)'
<1>1. EnCours(s)' = EnCours(s)
  BY DEF EnCours
<1>2. Liste(s)' = Liste(s) /\ vue'[s].choix = vue[s].choix
  BY DEF Liste
<1>3. \A i : Arrive(s, i) => Arrive(s, i)'
  BY <1>2 DEF Arrive
<1>4. ASSUME NEW i, NEW f \in envois', f.m = i
      PROVE  Arrive(s, i)'
  BY <1>4 DEF Arrive
<1>5. ASSUME NEW r \in EnCours(s)'
      PROVE  /\ r.avec = vue'[s].choix
             /\ r.pc # "lire" => Cible(r.avec)' \subseteq ToSet(r.lus)
  <2>1. /\ r \in EnCours(s) /\ r.avec \in Personnes \cup {Tous} /\ r.avec = vue[s].choix
        /\ r.pc # "lire" => Cible(r.avec) \subseteq ToSet(r.lus)
    BY <1>1 DEF Fidele
  <2>2. \A i \in Cible(r.avec)' : i \in Cible(r.avec)
    BY <2>1
  <2> QED
    BY <1>2, <2>1, <2>2
<1>6. ASSUME NEW c \in Personnes \cup {Tous}, EnCours(s)' = {}, vue'[s].choix = c,
             NEW i \in Cible(c)'
      PROVE  Arrive(s, i)'
  <2>1. CASE i \in Cible(c)
    BY <1>1, <1>2, <1>3, <1>6, <2>1 DEF Fidele
  <2>2. CASE i \notin Cible(c)
    BY <1>4, <2>2
  <2> QED
    BY <2>1, <2>2
<1> QED
  BY <1>5, <1>6 DEF Fidele

\* A message concerns moi.
Concerne(x) == x.a = Tous \/ moi \in {x.a, x.de}

LEMMA CheminVrai ==
  ASSUME NEW s \in ecran, s # "cloche"
  PROVE  EnChemin(s) <=> (file[s] # << >> \/ \E e \in envois : Concerne(e))
  BY DEF EnChemin, Concerne

LEMMA CheminApres ==
  ASSUME NEW s \in ecran, s # "cloche"
  PROVE  EnChemin(s)' <=> (file'[s] # << >> \/ \E e \in envois' : Concerne(e)')
  BY DEF EnChemin, Concerne

\* A message of a contact concerns moi.
LEMMA CibleConcerne ==
  ASSUME PagesJustes, NEW c \in Personnes \cup {Tous}, NEW i \in Cible(c),
         NEW e \in envois, e.m = i
  PROVE  Concerne(e)
<1>1. messages[i].a = e.a /\ messages[i].de = e.de
  BY DEF PagesJustes, EnvoiJuste
<1>2. messages[i].a = Tous \/ moi \in {messages[i].a, messages[i].de}
  BY DEF Cible, Diffusions, Fil
<1> QED
  BY <1>1, <1>2 DEF Concerne

\* What is known of an undisturbed component and of a step.
Avant(s) ==
  /\ PagesJustes /\ FormesCalme /\ s \in ecran /\ s # "cloche"
  /\ Paisible(s) /\ Fidele(s) /\ ~Trouble(s) /\ UNCHANGED <<moi, ecran>>

LEMMA AvantVrai ==
  ASSUME NEW s, Avant(s)
  PROVE  /\ s \in ecran /\ s # "cloche" /\ UNCHANGED <<moi, ecran>>
         /\ \A r \in EnCours(s) : r.avec \in Personnes \cup {Tous}
         /\ EnCours(s) = {r \in demandes : r.par = s}
         /\ EnCours(s)' = {r \in demandes' : r.par = s}
         /\ demandes \subseteq DemandeT /\ Fidele(s) /\ Paisible(s)
         /\ ~(EnChemin(s) /\ prise'[s] # "jointe")
         /\ pannes \in Nat /\ ~(pannes' > pannes) /\ gestes \in Nat
         /\ vue \in [ecran -> VueT] /\ file \in [Actifs -> Seq(Nat)] /\ s \in Actifs
         /\ prise \in [Actifs -> Etats]
<1>1. s \in ecran /\ s # "cloche" /\ UNCHANGED <<moi, ecran>> /\ demandes \subseteq DemandeT
      /\ Fidele(s) /\ Paisible(s) /\ pannes \in Nat /\ gestes \in Nat
      /\ vue \in [ecran -> VueT] /\ file \in [Actifs -> Seq(Nat)]
      /\ prise \in [Actifs -> Etats]
  BY DEF Avant, PagesJustes, FormesPages, FormesServeur
<1>2. EnCours(s) = {r \in demandes : r.par = s} /\ EnCours(s)' = {r \in demandes' : r.par = s}
  BY <1>1 DEF EnCours
<1>3. \A r \in EnCours(s) : r.avec \in Personnes \cup {Tous}
  BY <1>1, <1>2 DEF DemandeT
<1>4. ~(EnChemin(s) /\ prise'[s] # "jointe") /\ ~(pannes' > pannes)
  BY DEF Avant, Trouble
<1> QED
  BY <1>1, <1>2, <1>3, <1>4 DEF Actifs

\* A message is stored.
LEMMA FideleMessage ==
  ASSUME MessagerieAssumption, NEW s, Avant(s), Paisible(s)', PagesJustes', NEW de, NEW a,
         HandleMessage(de, a), UNCHANGED <<cloche, vue, demandes>>
  PROVE  Fidele(s)'
<1> DEFINE x == [de |-> de, a |-> a, lu |-> FALSE]
<1>0. PICK N : N = Len(messages) + 1
  OBVIOUS
<1>1. PICK f : f = [de |-> de, a |-> a, m |-> N,
                    pc |-> IF a = Tous THEN "lectures" ELSE "emettre"]
  OBVIOUS
<1>2. /\ messages' = Append(messages, x) /\ envois' = envois \cup {f}
      /\ UNCHANGED <<file, vue, demandes>>
  BY <1>0, <1>1 DEF HandleMessage, reseau
<1>3. messages \in Seq(MessageT) /\ FormesServeur /\ FormesServeur' /\ Prise \in Nat
  BY DEF Avant, PagesJustes, FormesServeur, MessagerieAssumption
<1>4. /\ N \in Nat /\ Ids' = Ids \cup {N} /\ \A i \in Ids : messages'[i] = messages[i]
      /\ messages'[N] = x
  BY <1>0, <1>2, <1>3 DEF Ids
<1>5. \A c \in Personnes \cup {Tous} : \A i \in Cible(c)' :
        \/ i \in Cible(c)
        \/ i = N /\ (messages'[N].a = Tous \/ moi \in {messages'[N].a, messages'[N].de})
  BY <1>3, <1>4, AvantVrai, CibleAjout
<1>6. f \in envois' /\ f.m = N
  BY <1>1, <1>2
<1>7. ASSUME messages'[N].a = Tous \/ moi \in {messages'[N].a, messages'[N].de}
      PROVE  EnCours(s) = {}
  <2>1. f.a = Tous \/ moi' \in {f.a, f.de}
    BY <1>1, <1>4, <1>7, AvantVrai
  <2>2. EnChemin(s)'
    BY <1>6, <2>1 DEF EnChemin, Avant
  <2>3. EnCours(s)' = {}
    BY <2>2 DEF Paisible
  <2> QED
    BY <1>2, <2>3, AvantVrai
<1>8. \A c \in Personnes \cup {Tous} : \A i \in Cible(c)' :
        i \in Cible(c) \/ ((\E g \in envois' : g.m = i) /\ EnCours(s) = {})
  BY <1>5, <1>6, <1>7
<1> QED
  BY <1>2, <1>8, AvantVrai, FideleStable

\* The steps after which the messages and the component are the same.
LEMMA FideleMeme ==
  ASSUME NEW s, Avant(s), UNCHANGED messages, file'[s] = file[s],
         {r \in demandes' : r.par = s} = {r \in demandes : r.par = s},
         \/ vue'[s] = vue[s]
         \/ vue'[s].choix = vue[s].choix /\ vue'[s].fil = vue[s].fil
              /\ vue'[s].annonces = vue[s].annonces,
         \A e \in envois : \E f \in envois' : f.m = e.m
  PROVE  Fidele(s)'
<1>1. UNCHANGED moi /\ Ids' = Ids
  BY AvantVrai DEF Ids
<1>2. \A c \in Personnes \cup {Tous} : Cible(c)' = Cible(c)
  BY <1>1, CibleStable
<1> QED
  BY <1>2, AvantVrai, FideleStable

\* The requests under way.
LEMMA RequetesFideles ==
  ASSUME NEW s, Avant(s), EnCours(s)' = EnCours(s), vue'[s].choix = vue[s].choix,
         \A c \in Personnes \cup {Tous} : Cible(c)' = Cible(c)
  PROVE  \A r \in EnCours(s)' : /\ r.avec = vue'[s].choix
                                /\ r.pc # "lire" => Cible(r.avec)' \subseteq ToSet(r.lus)
<1> SUFFICES ASSUME NEW r \in EnCours(s)'
             PROVE  /\ r.avec = vue'[s].choix
                    /\ r.pc # "lire" => Cible(r.avec)' \subseteq ToSet(r.lus)
  OBVIOUS
<1>1. r \in EnCours(s) /\ r.avec \in Personnes \cup {Tous}
  BY AvantVrai
<1>2. /\ r.avec = vue[s].choix
      /\ r.pc # "lire" => Cible(r.avec) \subseteq ToSet(r.lus)
  BY <1>1, AvantVrai DEF Fidele
<1>3. Cible(r.avec)' = Cible(r.avec)
  BY <1>1
<1> QED
  BY <1>2, <1>3

\* A message is emitted.
LEMMA FideleEmettre ==
  ASSUME NEW s, Avant(s), NEW e \in envois, Emettre(e),
         UNCHANGED <<cloche, vue, demandes>>
  PROVE  Fidele(s)'
<1>1. /\ UNCHANGED <<messages, vue, demandes>> /\ envois' = envois \ {e}
      /\ file' = [b \in DOMAIN prise |->
                    IF Recoit(b, e) THEN Append(file[b], e.m) ELSE file[b]]
  BY DEF Emettre
<1>2. DOMAIN prise = Actifs /\ s \in Actifs /\ file[s] \in Seq(Nat) /\ e.m \in Nat
  BY AvantVrai DEF Avant, PagesJustes, FormesServeur, EnvoiT
<1>3. file'[s] = IF Recoit(s, e) THEN Append(file[s], e.m) ELSE file[s]
  BY <1>1, <1>2
<1>4. /\ ToSet(file[s]) \subseteq ToSet(file'[s])
      /\ Recoit(s, e) => e.m \in ToSet(file'[s])
  BY <1>2, <1>3, AppendVrai
<1>5. EnCours(s)' = EnCours(s) /\ vue'[s] = vue[s] /\ Liste(s)' = Liste(s)
  BY <1>1, AvantVrai DEF Liste
<1>6. \A c \in Personnes \cup {Tous} : Cible(c)' = Cible(c)
  <2>1. UNCHANGED moi /\ Ids' = Ids
    BY <1>1, AvantVrai DEF Ids
  <2> QED
    BY <1>1, <2>1, CibleStable
<1>7. ASSUME NEW c \in Personnes \cup {Tous}, NEW i \in Cible(c), Arrive(s, i)
      PROVE  Arrive(s, i)'
  <2>1. CASE i \in ToSet(Liste(s))
    BY <1>5, <2>1 DEF Arrive
  <2>2. CASE i \in ToSet(file[s])
    BY <1>4, <2>2 DEF Arrive
  <2>3. ASSUME NEW g \in envois, g.m = i
        PROVE  Arrive(s, i)'
    <3>1. CASE g # e
      BY <1>1, <2>3, <3>1 DEF Arrive
    <3>2. CASE g = e
      <4>1. Concerne(e)
        BY <1>7, <2>3, <3>2, CibleConcerne DEF Avant
      <4>2. EnChemin(s)
        BY <4>1, AvantVrai, CheminVrai
      <4>3. prise[s] = "jointe"
        BY <4>2, AvantVrai DEF Paisible
      <4>4. Recoit(s, e)
        BY <4>1, <4>3 DEF Concerne, Recoit
      <4> QED
        BY <1>4, <2>3, <3>2, <4>4 DEF Arrive
    <3> QED
      BY <3>1, <3>2
  <2> QED
    BY <1>7, <2>1, <2>2, <2>3 DEF Arrive
<1>8. \A r \in EnCours(s)' : /\ r.avec = vue'[s].choix
                             /\ r.pc # "lire" => Cible(r.avec)' \subseteq ToSet(r.lus)
  BY <1>5, <1>6, RequetesFideles
<1>9. ASSUME NEW c \in Personnes \cup {Tous}, EnCours(s)' = {}, vue'[s].choix = c,
             NEW i \in Cible(c)'
      PROVE  Arrive(s, i)'
  <2>1. i \in Cible(c)
    BY <1>6
  <2>2. Arrive(s, i)
    BY <1>5, <1>9, <2>1, AvantVrai DEF Fidele
  <2> QED
    BY <1>7, <2>1, <2>2
<1> QED
  BY <1>8, <1>9 DEF Fidele

\* Every socket is opened again.
LEMMA FideleRenouveler ==
  ASSUME NEW s, Avant(s), Renouveler
  PROVE  Fidele(s)'
<1>1. /\ UNCHANGED <<messages, envois, vue, demandes>> /\ file' = [b \in Actifs |-> << >>]
      /\ prise' = [b \in Actifs |-> "ouverte"]
  BY DEF Renouveler, serveur
<1>2. ~EnChemin(s)
  BY <1>1, AvantVrai
<1>3. file[s] = << >> /\ \A e \in envois : ~Concerne(e)
  BY <1>2, AvantVrai, CheminVrai
<1>4. EnCours(s)' = EnCours(s) /\ vue'[s] = vue[s] /\ Liste(s)' = Liste(s)
  BY <1>1, AvantVrai DEF Liste
<1>5. \A c \in Personnes \cup {Tous} : Cible(c)' = Cible(c)
  <2>1. UNCHANGED moi /\ Ids' = Ids
    BY <1>1, AvantVrai DEF Ids
  <2> QED
    BY <1>1, <2>1, CibleStable
<1>6. \A r \in EnCours(s)' : /\ r.avec = vue'[s].choix
                             /\ r.pc # "lire" => Cible(r.avec)' \subseteq ToSet(r.lus)
  BY <1>4, <1>5, RequetesFideles
<1>7. ASSUME NEW c \in Personnes \cup {Tous}, EnCours(s)' = {}, vue'[s].choix = c,
             NEW i \in Cible(c)'
      PROVE  Arrive(s, i)'
  <2>1. i \in Cible(c)
    BY <1>5
  <2>2. Arrive(s, i)
    BY <1>4, <1>7, <2>1, AvantVrai DEF Fidele
  <2>3. \A e \in envois : e.m # i
    BY <1>3, <2>1, CibleConcerne DEF Avant
  <2>4. i \in ToSet(Liste(s))
    BY <1>3, <2>2, <2>3, VideVrai DEF Arrive
  <2> QED
    BY <1>4, <2>4 DEF Arrive
<1> QED
  BY <1>6, <1>7 DEF Fidele

\* A component asks.
LEMMA FidelePasser ==
  ASSUME NEW s, Avant(s), Paisible(s)', NEW b \in ecran, NEW c, NEW o, Passer(b, c, o)
  PROVE  Fidele(s)'
<1>0. PICK q : q = [n |-> gestes + 1, par |-> b, avec |-> c, pc |-> "lire", lus |-> << >>]
  OBVIOUS
<1>1. /\ vue' = [vue EXCEPT ![b].choix = c, ![b].ouvert = o]
      /\ demandes' = demandes \cup {q} /\ UNCHANGED <<messages, envois, file>>
  BY <1>0 DEF Passer, Demander, Geste, serveur, reseau
<1>2. CASE b # s
  <2>1. vue'[s] = vue[s]
    BY <1>1, <1>2, AvantVrai
  <2>2. {r \in demandes' : r.par = s} = {r \in demandes : r.par = s}
    BY <1>0, <1>1, <1>2
  <2> QED
    BY <1>1, <2>1, <2>2, FideleMeme
<1>3. CASE b = s
  <2>1. vue'[s].choix = c
    <3>1. vue[s] \in VueT /\ DOMAIN vue = ecran
      BY AvantVrai
    <3> DEFINE x == [vue[s] EXCEPT !.choix = c, !.ouvert = o]
    <3>2. vue' = [vue EXCEPT ![s] = x]
      BY <1>1, <1>3
    <3>3. x.choix = c
      BY <3>1 DEF VueT
    <3> HIDE DEF x
    <3> QED
      BY <1>3, <3>1, <3>2, <3>3
  <2>2. q \in EnCours(s)' /\ \A r \in EnCours(s)' : r = q
    BY <1>0, <1>1, <1>3, AvantVrai DEF Paisible
  <2>3. q.avec = c /\ q.pc = "lire"
    BY <1>0
  <2> QED
    BY <2>1, <2>2, <2>3 DEF Fidele
<1> QED
  BY <1>2, <1>3

\* The request reads, or marks as read.
LEMMA MarqueStable ==
  ASSUME FormesServeur, NEW c, Marque(c)
  PROVE  /\ Ids' = Ids
         /\ \A i \in Ids : /\ messages'[i].de = messages[i].de
                           /\ messages'[i].a = messages[i].a
                           /\ messages'[i].lu <=>
                                messages[i].lu \/ (c # Tous /\ messages[i].de = c
                                                     /\ messages[i].a = moi)
<1>0. /\ Len(messages) \in Nat /\ Ids = 1..Len(messages)
      /\ \A i \in Ids : messages[i] \in MessageT
  BY DEF FormesServeur, Ids
<1>1. CASE c = Tous
  <2>1. UNCHANGED messages
    BY <1>1 DEF Marque
  <2> QED
    BY <1>1, <2>1 DEF Ids
<1>2. CASE c # Tous
  <2>1. messages' = [i \in Ids |->
                       [messages[i] EXCEPT !.lu =
                          @ \/ (messages[i].de = c /\ messages[i].a = moi)]]
    BY <1>2 DEF Marque
  <2>2. Ids' = Ids
    <3>1. messages' \in Seq({messages'[i] : i \in Ids}) /\ DOMAIN messages' = 1..Len(messages)
      BY <1>0, <2>1
    <3>2. Len(messages') = Len(messages)
      BY <1>0, <3>1
    <3> QED
      BY <1>0, <3>2 DEF Ids
  <2>3. ASSUME NEW i \in Ids
        PROVE  /\ messages'[i].de = messages[i].de /\ messages'[i].a = messages[i].a
               /\ messages'[i].lu <=>
                    messages[i].lu \/ (messages[i].de = c /\ messages[i].a = moi)
    <3> DEFINE v == messages[i].lu \/ (messages[i].de = c /\ messages[i].a = moi)
    <3>1. messages'[i] = [messages[i] EXCEPT !.lu = v] /\ messages[i] \in MessageT
      BY <1>0, <2>1
    <3> HIDE DEF v
    <3>2. /\ messages'[i].de = messages[i].de /\ messages'[i].a = messages[i].a
          /\ messages'[i].lu = v
      BY <3>1 DEF MessageT
    <3> QED
      BY <3>2 DEF v
  <2> QED
    BY <1>2, <2>2, <2>3
<1> QED
  BY <1>1, <1>2

\* The request of a component goes on.
LEMMA FideleSuite ==
  ASSUME NEW s, Avant(s), Paisible(s)', NEW r \in demandes, NEW q,
         demandes' = (demandes \ {r}) \cup {q}, q.par = r.par, q.avec = r.avec,
         UNCHANGED <<vue, file, envois>>,
         \A c \in Personnes \cup {Tous} : Cible(c)' = Cible(c),
         r.par = s => q.pc # "lire" /\ Cible(r.avec) \subseteq ToSet(q.lus)
  PROVE  Fidele(s)'
<1>1. CASE r.par # s
  <2>1. {d \in demandes' : d.par = s} = {d \in demandes : d.par = s}
    BY <1>1
  <2>2. \A c \in Personnes \cup {Tous} : \A i \in Cible(c)' :
          i \in Cible(c) \/ ((\E f \in envois' : f.m = i) /\ EnCours(s) = {})
    OBVIOUS
  <2> QED
    BY <2>1, <2>2, AvantVrai, FideleStable
<1>2. CASE r.par = s
  <2>1. r \in EnCours(s) /\ r.avec \in Personnes \cup {Tous} /\ r.avec = vue[s].choix
    BY <1>2, AvantVrai DEF Fidele
  <2>2. q \in EnCours(s)' /\ \A d \in EnCours(s)' : d = q
    BY <1>2, AvantVrai DEF Paisible
  <2>3. Cible(q.avec)' = Cible(q.avec)
    BY <2>1
  <2> QED
    BY <1>2, <2>1, <2>2, <2>3 DEF Fidele
<1> QED
  BY <1>1, <1>2

LEMMA FideleLire ==
  ASSUME MessagerieAssumption, BoitesAssumption, NEW s, Avant(s), Paisible(s)',
         NEW r \in demandes, Lire(r) \/ Marquer(r)
  PROVE  Fidele(s)'
<1>0. r \in DemandeT /\ r.avec \in Personnes \cup {Tous} /\ FormesServeur /\ UNCHANGED moi
  BY AvantVrai DEF DemandeT, Avant, PagesJustes
<1>1. CASE Lire(r)
  <2>1. PICK q : q = [r EXCEPT !.lus = Lit(r.avec), !.pc = "marquer"]
    OBVIOUS
  <2>2. demandes' = (demandes \ {r}) \cup {q} /\ UNCHANGED <<vue, file, envois, messages>>
    BY <1>1, <2>1 DEF Lire, Suite, serveur, reseau
  <2>3. q.par = r.par /\ q.avec = r.avec /\ q.pc = "marquer" /\ q.lus = Lit(r.avec)
    BY <1>0, <2>1 DEF DemandeT
  <2>4. Cible(r.avec) \subseteq ToSet(q.lus)
    BY <1>0, <2>3, LitVrai
  <2>5. \A c \in Personnes \cup {Tous} : Cible(c)' = Cible(c)
    <3>1. Ids' = Ids
      BY <2>2 DEF Ids
    <3> QED
      BY <1>0, <2>2, <3>1, CibleStable
  <2> QED
    BY <2>2, <2>3, <2>4, <2>5, FideleSuite
<1>2. CASE Marquer(r)
  <2>1. PICK q : q = [r EXCEPT !.pc = "repondre"]
    OBVIOUS
  <2>2. /\ demandes' = (demandes \ {r}) \cup {q} /\ UNCHANGED <<vue, file, envois>>
        /\ Marque(r.avec) /\ r.pc = "marquer"
    BY <1>2, <2>1 DEF Marquer, Suite, reseau
  <2>3. q.par = r.par /\ q.avec = r.avec /\ q.pc = "repondre" /\ q.lus = r.lus
    BY <1>0, <2>1 DEF DemandeT
  <2>4. ASSUME r.par = s
        PROVE  Cible(r.avec) \subseteq ToSet(q.lus)
    BY <2>2, <2>3, <2>4, AvantVrai DEF Fidele
  <2>5. \A c \in Personnes \cup {Tous} : Cible(c)' = Cible(c)
    BY <1>0, <2>2, MarqueStable, CibleStable
  <2> QED
    BY <2>2, <2>3, <2>4, <2>5, FideleSuite
<1> QED
  BY <1>1, <1>2

\* The answer is shown.
LEMMA ReponseVraie ==
  ASSUME MessagerieAssumption, BoitesAssumption, PagesJustes, NEW r \in demandes,
         Repondre(r)
  PROVE  /\ r.par \in ecran /\ UNCHANGED <<messages, envois, file>>
         /\ demandes' = demandes \ {r}
         /\ \A b \in ecran : b # r.par => vue'[b] = vue[b]
         /\ vue'[r.par].choix = vue[r.par].choix
         /\ r.avec = Tous /\ r.par = "boite" => ToSet(vue'[r.par].annonces) = ToSet(r.lus)
         /\ ~(r.avec = Tous /\ r.par = "boite") => ToSet(vue'[r.par].fil) = ToSet(r.lus)
         /\ r.avec \in Personnes \cup {Tous}
<1> DEFINE s == r.par
           lus == r.lus
<1>1. r \in DemandeT /\ vue \in [ecran -> VueT]
  BY DEF PagesJustes, FormesPages
<1>2. s \in ecran /\ lus \in Seq(Nat) /\ vue[s] \in VueT /\ r.avec \in Personnes \cup {Tous}
  BY <1>1 DEF DemandeT
<1>3. /\ UNCHANGED <<messages, envois, file>> /\ demandes' = demandes \ {r}
      /\ vue' = Affiche(s, r.avec, lus)
  BY DEF Repondre, serveur, reseau
<1>4. CASE r.avec = Tous /\ s = "boite"
  <2> DEFINE x == [vue[s] EXCEPT !.annonces = lus]
  <2>1. vue' = [vue EXCEPT ![s] = x]
    BY <1>3, <1>4 DEF Affiche
  <2>2. x.annonces = lus /\ x.choix = vue[s].choix
    BY <1>2 DEF VueT
  <2> HIDE DEF x, lus
  <2>3. vue'[s] = x /\ \A b \in ecran : b # s => vue'[b] = vue[b]
    BY <1>1, <1>2, <2>1
  <2> QED
    BY <1>2, <1>3, <1>4, <2>2, <2>3 DEF lus
<1>5. CASE ~(r.avec = Tous /\ s = "boite")
  <2> DEFINE f == IF r.avec = Tous THEN Reverse(lus) ELSE lus
             x == [vue[s] EXCEPT !.fil = f]
  <2>1. vue' = [vue EXCEPT ![s] = x]
    BY <1>3, <1>5 DEF Affiche
  <2>2. ToSet(f) = ToSet(lus)
    BY <1>2, ReverseVrai
  <2> HIDE DEF f
  <2>3. x.fil = f /\ x.choix = vue[s].choix
    BY <1>2 DEF VueT
  <2> HIDE DEF x, lus
  <2>4. vue'[s] = x /\ \A b \in ecran : b # s => vue'[b] = vue[b]
    BY <1>1, <1>2, <2>1
  <2> QED
    BY <1>2, <1>3, <1>5, <2>2, <2>3, <2>4 DEF lus
<1> QED
  BY <1>4, <1>5

LEMMA FideleRepondre ==
  ASSUME MessagerieAssumption, BoitesAssumption, NEW s, Avant(s), NEW r \in demandes,
         Repondre(r), r.pc = "repondre"
  PROVE  Fidele(s)'
<1>1. /\ r.par \in ecran /\ UNCHANGED <<messages, envois, file>>
      /\ demandes' = demandes \ {r}
      /\ \A b \in ecran : b # r.par => vue'[b] = vue[b]
      /\ vue'[r.par].choix = vue[r.par].choix
      /\ r.avec = Tous /\ r.par = "boite" => ToSet(vue'[r.par].annonces) = ToSet(r.lus)
      /\ ~(r.avec = Tous /\ r.par = "boite") => ToSet(vue'[r.par].fil) = ToSet(r.lus)
      /\ r.avec \in Personnes \cup {Tous}
  BY ReponseVraie DEF Avant
<1>2. CASE r.par # s
  <2>1. {d \in demandes' : d.par = s} = {d \in demandes : d.par = s}
    BY <1>1, <1>2
  <2> QED
    BY <1>1, <1>2, <2>1, AvantVrai, FideleMeme
<1>3. CASE r.par = s
  <2>1. /\ r \in EnCours(s) /\ \A d \in EnCours(s) : d = r
        /\ r.avec = vue[s].choix /\ Cible(r.avec) \subseteq ToSet(r.lus)
    <3>1. /\ EnCours(s) = {d \in demandes : d.par = s}
          /\ Paisible(s) /\ Fidele(s)
      BY AvantVrai
    <3>2. r \in EnCours(s)
      BY <1>3, <3>1
    <3>3. \A d \in EnCours(s) : d = r
      BY <3>1, <3>2 DEF Paisible
    <3> QED
      BY <3>1, <3>2, <3>3 DEF Fidele
  <2>2. EnCours(s)' = {}
    BY <1>1, <2>1, AvantVrai
  <2>3. ToSet(Liste(s)') = ToSet(r.lus)
    BY <1>1, <1>3, <2>1 DEF Liste
  <2>4. \A c \in Personnes \cup {Tous} : Cible(c)' = Cible(c)
    <3>1. UNCHANGED moi /\ Ids' = Ids
      BY <1>1, AvantVrai DEF Ids
    <3> QED
      BY <1>1, <3>1, CibleStable
  <2>5. ASSUME NEW c \in Personnes \cup {Tous}, vue'[s].choix = c, NEW i \in Cible(c)'
        PROVE  Arrive(s, i)'
    <3>1. c = r.avec /\ i \in Cible(c)
      BY <1>1, <1>3, <2>1, <2>4, <2>5
    <3>2. i \in ToSet(Liste(s)')
      BY <2>1, <2>3, <3>1
    <3> QED
      BY <3>2 DEF Arrive
  <2> QED
    BY <2>2, <2>5 DEF Fidele
<1> QED
  BY <1>2, <1>3

\* An event reaches a component of the page.
LEMMA EvenementVrai ==
  ASSUME MessagerieAssumption, BoitesAssumption, PagesJustes, NEW s \in ecran, Livrer(s)
  PROVE  /\ UNCHANGED <<messages, envois, demandes, compte>>
         /\ vue'[s].choix = vue[s].choix
         /\ ToSet(Liste(s)) \subseteq ToSet(Liste(s)')
         /\ \A c \in Personnes \cup {Tous} :
              c = vue[s].choix /\ Head(file[s]) \in Cible(c) =>
                Head(file[s]) \in ToSet(Liste(s)')
         /\ \A b \in ecran : b # s => vue'[b] = vue[b]
         /\ file[s] # << >> /\ file' = [file EXCEPT ![s] = Tail(@)]
<1>0. PICK i : i = Head(file[s])
  OBVIOUS
<1>1. /\ vue \in [ecran -> VueT] /\ file[s] \in Seq(Nat) /\ VueJuste(s) /\ s # "cloche"
      /\ vue[s] \in VueT /\ FileJuste(s)
  BY Constantes DEF PagesJustes, FormesPages, FormesServeur, Actifs
<1>2. /\ UNCHANGED <<messages, envois, demandes>> /\ file[s] # << >>
      /\ file' = [file EXCEPT ![s] = Tail(@)]
  BY DEF Livrer, serveur
<1>3. i \in Nat /\ i \in MesIds
  <2>1. i \in Nat /\ i \in ToSet(file[s])
    BY <1>0, <1>1, <1>2, TailVrai
  <2> QED
    BY <1>1, <2>1 DEF FileJuste
<1>4. vue[s].fil \in Seq(Nat) /\ vue[s].annonces \in Seq(Nat)
  BY <1>1 DEF VueT
<1>5. CASE s = "boite" /\ messages[i].a = Tous
  <2> DEFINE x == [vue[s] EXCEPT !.annonces = <<i>> \o vue[s].annonces]
  <2>1. vue' = [vue EXCEPT ![s] = x] /\ UNCHANGED compte
    BY <1>0, <1>5 DEF Livrer, EcouteBoite
  <2>2. /\ x.annonces = <<i>> \o vue[s].annonces /\ x.fil = vue[s].fil
        /\ x.choix = vue[s].choix
    BY <1>1 DEF VueT
  <2> HIDE DEF x
  <2>3. vue'[s] = x /\ \A b \in ecran : b # s => vue'[b] = vue[b]
    BY <1>1, <2>1
  <2>4. ToSet(<<i>> \o vue[s].annonces) = ToSet(vue[s].annonces) \cup {i}
    BY <1>3, <1>4, DevantVrai
  <2>5. ASSUME NEW c \in Personnes \cup {Tous}, i \in Cible(c)
        PROVE  c = Tous
    <3>1. moi # Tous
      BY Constantes DEF PagesJustes, FormesServeur
    <3>2. c # Tous => {messages[i].de, messages[i].a} = {moi, c}
      BY <2>5 DEF Cible, Fil
    <3> QED
      BY <1>5, <3>1, <3>2
  <2>6. ToSet(Liste(s)) \subseteq ToSet(Liste(s)')
    BY <2>2, <2>3, <2>4 DEF Liste
  <2>7. vue[s].choix = Tous => i \in ToSet(Liste(s)')
    BY <1>5, <2>2, <2>3, <2>4 DEF Liste
  <2> QED
    BY <1>0, <1>2, <2>1, <2>2, <2>3, <2>5, <2>6, <2>7
<1>6. ASSUME UNCHANGED compte, vue' = [vue EXCEPT ![s].fil = AjouteSiAbsent(@, i)],
             ~(s = "boite" /\ messages[i].a = Tous)
      PROVE  /\ UNCHANGED compte /\ vue'[s].choix = vue[s].choix
             /\ ToSet(Liste(s)) \subseteq ToSet(Liste(s)')
             /\ \A c \in Personnes \cup {Tous} :
                  c = vue[s].choix /\ i \in Cible(c) => i \in ToSet(Liste(s)')
             /\ \A b \in ecran : b # s => vue'[b] = vue[b]
  <2> DEFINE f == AjouteSiAbsent(vue[s].fil, i)
             x == [vue[s] EXCEPT !.fil = f]
  <2>1. vue' = [vue EXCEPT ![s] = x]
    BY <1>6
  <2>2. ToSet(f) = ToSet(vue[s].fil) \cup {i}
    BY <1>3, <1>4, AjouteVrai
  <2> HIDE DEF f
  <2>3. x.fil = f /\ x.annonces = vue[s].annonces /\ x.choix = vue[s].choix
    BY <1>1 DEF VueT
  <2> HIDE DEF x
  <2>4. vue'[s] = x /\ \A b \in ecran : b # s => vue'[b] = vue[b]
    BY <1>1, <2>1
  <2>5. ToSet(Liste(s)) \subseteq ToSet(Liste(s)')
    BY <2>2, <2>3, <2>4 DEF Liste
  <2>6. ASSUME s = "boite", i \in Cible(Tous)
        PROVE  FALSE
    BY <1>6, <2>6 DEF Cible, Diffusions
  <2>7. ~(s = "boite" /\ vue[s].choix = Tous) => i \in ToSet(Liste(s)')
    BY <2>2, <2>3, <2>4 DEF Liste
  <2> QED
    BY <1>0, <1>2, <1>6, <2>3, <2>4, <2>5, <2>6, <2>7
<1>7. CASE s = "boite" /\ messages[i].a # Tous
  <2>1. vue' = [vue EXCEPT ![s].fil = AjouteSiAbsent(@, i)] /\ UNCHANGED compte
    BY <1>0, <1>7 DEF Livrer, EcouteBoite
  <2> QED
    BY <1>0, <1>2, <1>6, <1>7, <2>1
<1>8. CASE s = "bulle" \/ s = "admin"
  <2>1. vue' = [vue EXCEPT ![s].fil = AjouteSiAbsent(@, i)] /\ UNCHANGED compte
    BY <1>0, <1>8 DEF Livrer, EcouteBulle, EcouteAdmin
  <2> QED
    BY <1>0, <1>2, <1>6, <1>8, <2>1
<1>9. CASE s = "livreur"
  <2>1. EcouteLivreur(i)
    BY <1>0, <1>9 DEF Livrer
  <2>2. CASE Livreur \in {messages[i].de, messages[i].a}
    <3>1. vue' = [vue EXCEPT ![s].fil = AjouteSiAbsent(@, i)] /\ UNCHANGED compte
      BY <1>9, <2>1, <2>2 DEF EcouteLivreur
    <3> QED
      BY <1>0, <1>2, <1>6, <1>9, <3>1
  <2>3. CASE Livreur \notin {messages[i].de, messages[i].a}
    <3> DEFINE x == [vue[s] EXCEPT !.fil = vue[s].fil]
    <3>1. vue' = [vue EXCEPT ![s] = x] /\ UNCHANGED compte
      BY <1>9, <2>1, <2>3 DEF EcouteLivreur
    <3>2. x = vue[s]
      BY <1>1 DEF VueT
    <3> HIDE DEF x
    <3>3. \A b \in ecran : vue'[b] = vue[b]
      BY <1>1, <3>1, <3>2
    <3>4. ToSet(Liste(s)') = ToSet(Liste(s))
      BY <3>3 DEF Liste
    <3>5. ASSUME NEW c \in Personnes \cup {Tous}, c = vue[s].choix, i \in Cible(c)
          PROVE  FALSE
      <4>1. c = Livreur /\ c # Tous
        BY <1>1, <1>9, <3>5, Constantes DEF VueJuste
      <4> QED
        BY <2>3, <3>5, <4>1 DEF Cible, Fil
    <3> QED
      BY <1>0, <1>2, <3>1, <3>3, <3>4, <3>5
  <2> QED
    BY <2>2, <2>3
<1>10. s \in {"boite", "bulle", "livreur", "admin"}
  BY DEF PagesJustes, FormesServeur, BoitesAssumption
<1> QED
  BY <1>5, <1>7, <1>8, <1>9, <1>10

LEMMA FideleLivrer ==
  ASSUME MessagerieAssumption, BoitesAssumption, NEW s, Avant(s), NEW b \in Actifs,
         Livrer(b)
  PROVE  Fidele(s)'
<1>1. CASE b # s
  <2>1. UNCHANGED <<messages, envois, demandes>> /\ file'[s] = file[s]
    BY <1>1, AvantVrai DEF Livrer, serveur
  <2>2. vue'[s] = vue[s]
    <3>1. CASE b = "cloche"
      BY <3>1 DEF Livrer, EcouteCloche
    <3>2. CASE b \in ecran
      BY <1>1, <3>2, AvantVrai, EvenementVrai DEF Avant
    <3> QED
      BY <3>1, <3>2 DEF Actifs
  <2> QED
    BY <2>1, <2>2, AvantVrai, FideleMeme
<1>2. CASE b = s
  <2>0. PICK i : i = Head(file[s])
    OBVIOUS
  <2>1. /\ UNCHANGED <<messages, envois, demandes>>
        /\ vue'[s].choix = vue[s].choix
        /\ ToSet(Liste(s)) \subseteq ToSet(Liste(s)')
        /\ \A c \in Personnes \cup {Tous} :
             c = vue[s].choix /\ i \in Cible(c) => i \in ToSet(Liste(s)')
        /\ file[s] # << >> /\ file' = [file EXCEPT ![s] = Tail(@)]
    BY <1>2, <2>0, AvantVrai, EvenementVrai DEF Avant
  <2>2. /\ ToSet(file[s]) = ToSet(Tail(file[s])) \cup {i}
        /\ file'[s] = Tail(file[s])
    BY <2>0, <2>1, AvantVrai, TailVrai
  <2>3. EnCours(s)' = EnCours(s)
    BY <2>1, AvantVrai
  <2>4. \A c \in Personnes \cup {Tous} : Cible(c)' = Cible(c)
    <3>1. UNCHANGED moi /\ Ids' = Ids
      BY <2>1, AvantVrai DEF Ids
    <3> QED
      BY <2>1, <3>1, CibleStable
  <2>5. \A r \in EnCours(s)' : /\ r.avec = vue'[s].choix
                               /\ r.pc # "lire" => Cible(r.avec)' \subseteq ToSet(r.lus)
    BY <2>1, <2>3, <2>4, RequetesFideles
  <2>6. ASSUME NEW c \in Personnes \cup {Tous}, EnCours(s)' = {}, vue'[s].choix = c,
               NEW j \in Cible(c)'
        PROVE  Arrive(s, j)'
    <3>1. j \in Cible(c) /\ c = vue[s].choix
      BY <2>1, <2>4, <2>6
    <3>2. Arrive(s, j)
      BY <2>3, <2>6, <3>1, AvantVrai DEF Fidele
    <3>3. CASE j \in ToSet(Liste(s))
      BY <2>1, <3>3 DEF Arrive
    <3>4. CASE j = i
      BY <2>1, <3>1, <3>4 DEF Arrive
    <3>5. CASE j \in ToSet(Tail(file[s]))
      BY <2>2, <3>5 DEF Arrive
    <3>6. CASE \E e \in envois : e.m = j
      BY <2>1, <3>6 DEF Arrive
    <3> QED
      BY <2>2, <3>2, <3>3, <3>4, <3>5, <3>6 DEF Arrive
  <2> QED
    BY <2>5, <2>6 DEF Fidele
<1> QED
  BY <1>1, <1>2

\* Every step keeps what an undisturbed component shows.
LEMMA FideleNext ==
  ASSUME MessagerieAssumption, BoitesAssumption, NEW s, Avant(s), Paisible(s)',
         PagesJustes', Etape
  PROVE  Fidele(s)'
<1>0. s \in Actifs /\ s \in ecran /\ s # "cloche"
  BY AvantVrai
<1>1. CASE GatewayNext /\ UNCHANGED <<cloche, vue, demandes>>
  <2>1. ASSUME NEW b \in DOMAIN prise, HandleConnection(b)
        PROVE  Fidele(s)'
    BY <1>1, <2>1, FideleMeme DEF HandleConnection, serveur
  <2>2. ASSUME \/ \E b \in DOMAIN prise : Refuser(b)
               \/ \E e \in envois : Interrompre(e)
        PROVE  Fidele(s)'
    <3>1. pannes' = pannes + 1
      BY <2>2 DEF Refuser, Interrompre, PanneDe
    <3> QED
      BY <3>1, AvantVrai
  <2>3. ASSUME NEW e \in envois, Lectures(e)
        PROVE  Fidele(s)'
    <3>1. PICK f : f = [e EXCEPT !.pc = "emettre"]
      OBVIOUS
    <3>2. envois' = (envois \ {e}) \cup {f} /\ UNCHANGED <<messages, file>>
      BY <2>3, <3>1 DEF Lectures, Avance, reseau
    <3>3. f.m = e.m
      BY <3>1 DEF Avant, PagesJustes, FormesServeur, EnvoiT
    <3>4. \A g \in envois : \E h \in envois' : h.m = g.m
      BY <3>2, <3>3
    <3> QED
      BY <1>1, <3>2, <3>4, FideleMeme
  <2>4. ASSUME NEW e \in envois, Emettre(e)
        PROVE  Fidele(s)'
    BY <1>1, <2>4, FideleEmettre
  <2> QED
    BY <1>1, <2>1, <2>2, <2>3, <2>4 DEF GatewayNext
<1>2. ASSUME NEW b \in Actifs, Livrer(b)
      PROVE  Fidele(s)'
  BY <1>2, FideleLivrer
<1>3. CASE Renouveler
  BY <1>3, FideleRenouveler
<1>4. CASE MoiConnu
  <2>1. UNCHANGED <<messages, envois, vue, demandes>> /\ file'[s] = file[s]
    BY <1>0, <1>4, AvantVrai DEF MoiConnu, serveur
  <2> QED
    BY <2>1, FideleMeme
<1>5. CASE Echouer
  <2>1. pannes' = pannes + 1
    BY <1>5 DEF Echouer, PanneDe
  <2> QED
    BY <2>1, AvantVrai
<1>6. ASSUME NEW b \in ecran, NEW c, NEW o, Passer(b, c, o)
      PROVE  Fidele(s)'
  BY <1>6, FidelePasser
<1>7. ASSUME NEW de, NEW a, HandleMessage(de, a), UNCHANGED <<cloche, vue, demandes>>
      PROVE  Fidele(s)'
  BY <1>7, FideleMessage
<1>8. CASE Gestes
  <2>1. CASE MonterBoite
    BY <2>1, FidelePasser DEF MonterBoite
  <2>2. CASE MonterBulle
    BY <2>2, FidelePasser DEF MonterBulle
  <2>3. CASE BasculerBulle
    BY <2>3, FidelePasser DEF BasculerBulle
  <2>4. CASE BasculerLivreur
    <3>1. CASE ~vue["livreur"].ouvert
      BY <2>4, <3>1, FidelePasser DEF BasculerLivreur
    <3>2. CASE vue["livreur"].ouvert
      <4> DEFINE x == [vue["livreur"] EXCEPT !.ouvert = FALSE]
      <4>1. /\ vue' = [vue EXCEPT !["livreur"] = x] /\ "livreur" \in ecran
            /\ UNCHANGED <<messages, envois, file, demandes>>
        BY <2>4, <3>2 DEF BasculerLivreur, serveur, reseau
      <4>2. vue["livreur"] \in VueT
        BY <4>1, AvantVrai
      <4>3. /\ x.choix = vue["livreur"].choix /\ x.fil = vue["livreur"].fil
            /\ x.annonces = vue["livreur"].annonces
        BY <4>2 DEF VueT
      <4> HIDE DEF x
      <4>4. /\ vue'["livreur"] = x
            /\ \A b \in ecran : b # "livreur" => vue'[b] = vue[b]
        BY <4>1, AvantVrai
      <4>5. \/ vue'[s] = vue[s]
            \/ vue'[s].choix = vue[s].choix /\ vue'[s].fil = vue[s].fil
                 /\ vue'[s].annonces = vue[s].annonces
        BY <1>0, <4>3, <4>4
      <4> QED
        BY <4>1, <4>5, FideleMeme
    <3> QED
      BY <3>1, <3>2
  <2>5. ASSUME NEW c \in Personnes \cup {Tous}, ChoisirBoite(c) \/ ChoisirAdmin(c)
        PROVE  Fidele(s)'
    BY <2>5, FidelePasser DEF ChoisirBoite, ChoisirAdmin
  <2>6. CASE \/ "boite" \in ecran /\ EnvoyerBoite
             \/ "bulle" \in ecran /\ EnvoyerBulle
             \/ "livreur" \in ecran /\ EnvoyerLivreur
             \/ "admin" \in ecran /\ EnvoyerAdmin
    <3>1. \E a : HandleMessage(moi, a) /\ UNCHANGED <<cloche, vue, demandes>>
      BY <2>6 DEF EnvoyerBoite, EnvoyerBulle, EnvoyerLivreur, EnvoyerAdmin, Envoyer
    <3> QED
      BY <3>1, FideleMessage
  <2> QED
    BY <1>8, <2>1, <2>2, <2>3, <2>4, <2>5, <2>6 DEF Gestes
<1>9. ASSUME NEW c \in Courriers, AutreEnvoie(c[1], c[2])
      PROVE  Fidele(s)'
  BY <1>9, FideleMessage DEF AutreEnvoie
<1>10. ASSUME NEW r \in comptages, Compter(r) \/ CompterRefuse(r) \/ RepondreCompte(r)
       PROVE  Fidele(s)'
  BY <1>10, FideleMeme DEF Compter, CompterRefuse, RepondreCompte, serveur, reseau
<1>11. ASSUME NEW r \in demandes, Lire(r) \/ Marquer(r)
       PROVE  Fidele(s)'
  BY <1>11, FideleLire
<1>12. ASSUME NEW r \in demandes, Repondre(r)
       PROVE  Fidele(s)'
  <2>1. r.pc = "repondre"
    BY <1>12 DEF Repondre
  <2> QED
    BY <1>12, <2>1, FideleRepondre
<1> QED
  BY <1>1, <1>2, <1>3, <1>4, <1>5, <1>8, <1>9, <1>10, <1>11, <1>12 DEF Etape

LEMMA InitCalmes ==
  ASSUME MessagerieAssumption, BoitesAssumption, Init
  PROVE  PagesCalmes
<1>1. PagesJustes
  BY InitPages
<1>2. /\ calme = [s \in Actifs |-> TRUE] /\ demandes = {} /\ messages = << >>
      /\ envois = {} /\ file = [s \in Actifs |-> << >>]
      /\ prise = [s \in Actifs |-> "jointe"]
  BY DEF Init, InitServeur
<1>3. FormesCalme
  BY <1>2, FS_EmptySet DEF FormesCalme
<1>4. ASSUME NEW s \in ecran
      PROVE  Paisible(s) /\ Fidele(s)
  <2>1. s # "cloche" /\ s \in Actifs
    BY <1>1, Constantes DEF PagesJustes, FormesServeur, Actifs
  <2>2. EnCours(s) = {} /\ ~EnChemin(s)
    BY <1>2, <2>1 DEF EnCours, EnChemin
  <2>3. \A c : Cible(c) = {}
    <3>1. Ids = {}
      BY <1>2 DEF Ids
    <3> QED
      BY <3>1 DEF Cible, Diffusions, Fil
  <2> QED
    BY <2>2, <2>3 DEF Paisible, Fidele
<1> QED
  BY <1>1, <1>3, <1>4 DEF PagesCalmes

LEMMA NextCalmes ==
  ASSUME MessagerieAssumption, BoitesAssumption, PagesCalmes, [Next]_vars
  PROVE  PagesCalmes'
<1>1. PagesJustes /\ PagesJustes' /\ FormesCalme
  BY PasPagesVars DEF PagesCalmes
<1>2. CASE Next
  <2>1. FormesCalme' /\ UNCHANGED <<moi, ecran>>
    BY <1>1, <1>2, PasFormesCalme, PasMoi DEF Next
  <2>2. ASSUME NEW s \in ecran, calme'[s]
        PROVE  Paisible(s)' /\ Fidele(s)'
    <3>1. s # "cloche" /\ s \in Actifs
      BY <1>1, Constantes DEF PagesJustes, FormesServeur, Actifs
    <3>2. calme[s] /\ ~Trouble(s) /\ Paisible(s)'
      BY <1>1, <1>2, <2>1, <2>2, <3>1, Tranquille DEF Next
    <3>3. Avant(s)
      BY <1>1, <2>1, <3>1, <3>2 DEF Avant, PagesCalmes
    <3> QED
      BY <1>1, <1>2, <3>2, <3>3, FideleNext DEF Next
  <2>3. \A s \in ecran' : calme'[s] => Paisible(s)' /\ Fidele(s)'
    BY <2>1, <2>2
  <2> QED
    BY <1>1, <2>1, <2>3 DEF PagesCalmes
<1>3. CASE UNCHANGED vars
  <2>1. /\ UNCHANGED <<moi, messages, envois, prise, file, ecran, vue, demandes, calme,
                       gestes, comptages, lectures>>
    BY <1>3 DEF vars, serveur, reseau, bornes, cloche
  <2>2. FormesCalme'
    BY <1>1, <2>1 DEF FormesCalme, Actifs
  <2>3. Ids' = Ids
    BY <2>1 DEF Ids
  <2>4. \A c \in Personnes \cup {Tous} : Cible(c)' = Cible(c)
    BY <2>1, <2>3, CibleStable
  <2>5. ASSUME NEW s \in ecran, calme'[s]
        PROVE  Paisible(s)' /\ Fidele(s)'
    <3>1. Paisible(s) /\ Fidele(s)
      BY <2>1, <2>5 DEF PagesCalmes
    <3>2. EnCours(s)' = EnCours(s) /\ EnChemin(s)' = EnChemin(s) /\ Liste(s)' = Liste(s)
      BY <2>1 DEF EnCours, EnChemin, Liste
    <3>3. Paisible(s)'
      BY <2>1, <3>1, <3>2 DEF Paisible
    <3>4. \A i : Arrive(s, i) => Arrive(s, i)'
      BY <2>1, <3>2 DEF Arrive
    <3>5. s # "cloche" /\ \A r \in EnCours(s) : r.avec \in Personnes \cup {Tous}
      <4>1. s # "cloche" /\ demandes \subseteq DemandeT
        BY <1>1, Constantes DEF PagesJustes, FormesServeur, FormesPages
      <4> QED
        BY <4>1 DEF EnCours, DemandeT
    <3>6. \A r \in EnCours(s) : Cible(r.avec)' = Cible(r.avec)
      BY <2>4, <3>5
    <3>7. Fidele(s)'
      BY <2>1, <2>4, <3>1, <3>2, <3>4, <3>6 DEF Fidele
    <3> QED
      BY <3>3, <3>7
  <2>6. \A s \in ecran' : calme'[s] => Paisible(s)' /\ Fidele(s)'
    BY <2>1, <2>5
  <2> QED
    BY <1>1, <2>2, <2>6 DEF PagesCalmes
<1> QED
  BY <1>2, <1>3

\* What undisturbed components hold: their one request reads what belongs on the
\* screen, and a message of their contact is shown or on its way.
THEOREM PagesCalmesVraies == Spec => []PagesCalmes
<1>1. Init => PagesCalmes
  BY InitCalmes, MessagerieAssumption, BoitesAssumption
<1>2. PagesCalmes /\ [Next]_vars => PagesCalmes'
  BY NextCalmes, MessagerieAssumption, BoitesAssumption
<1> QED
  BY <1>1, <1>2, PTL DEF Spec

\* FilFidele: a thread at rest shows each of its messages, and none twice.
THEOREM FilFideleVrai == Spec => []FilFidele
<1>1. ASSUME PagesCalmes
      PROVE  FilFidele
  <2>1. SansDoublon
    BY <1>1 DEF PagesCalmes, PagesJustes, VueJuste, SansDoublon
  <2>2. ASSUME NEW s \in ecran, calme[s], EnCours(s) = {}, ~EnChemin(s),
               vue[s].choix # Aucun, vue[s].ouvert,
               NEW i \in (IF vue[s].choix = Tous THEN Diffusions
                          ELSE Fil(moi, vue[s].choix))
        PROVE  i \in Ecran(s)
    <3>1. PICK c \in Personnes \cup {Tous} : vue[s].choix = c
      <4>1. vue[s] \in VueT
        BY <1>1 DEF PagesCalmes, PagesJustes, FormesPages
      <4> QED
        BY <2>2, <4>1 DEF VueT
    <3>2. i \in Cible(c)
      BY <2>2, <3>1 DEF Cible
    <3>3. Arrive(s, i)
      BY <1>1, <2>2, <3>1, <3>2 DEF PagesCalmes, Fidele
    <3>4. /\ s \in {"boite", "bulle", "livreur", "admin"} /\ PagesJustes
          /\ VueJuste(s)
      BY <1>1, BoitesAssumption DEF PagesCalmes, PagesJustes, FormesServeur
    <3>5. file[s] = << >> /\ \A e \in envois : ~Concerne(e)
      BY <2>2, <3>4, CheminVrai
    <3>6. \A e \in envois : e.m # i
      BY <3>2, <3>4, <3>5, CibleConcerne
    <3>7. i \in ToSet(Liste(s))
      BY <3>3, <3>5, <3>6, VideVrai DEF Arrive
    <3> QED
      BY <2>2, <3>4, <3>7 DEF Liste, Ecran, EcranBoite, EcranBulle, EcranLivreur, EcranAdmin
  <2>3. FilComplet
    BY <2>2 DEF FilComplet
  <2> QED
    BY <2>1, <2>3 DEF FilFidele
<1> QED
  BY <1>1, PagesCalmesVraies, PTL

----------------------------------------------------------------------------
(* A message marked read was on the screen.                                *)

\* The requests of the one component of the page.
LEMMA SeulEcran ==
  ASSUME BoitesAssumption, PagesJustes, "bulle" \notin ecran,
         NEW s \in ecran \cap {"boite", "admin"}, NEW r \in demandes
  PROVE  r.par = s /\ r \in EnCours(s)
<1>1. r.par \in ecran /\ ecran \in Ecrans
  BY DEF PagesJustes, FormesPages, FormesServeur, DemandeT
<1>2. r.par = s
  BY <1>1 DEF BoitesAssumption
<1> QED
  BY <1>2 DEF EnCours

\* Nothing is newly read, and the requests that were answering still are.
LEMMA MontreeStable ==
  ASSUME NEW s \in ecran, s # "cloche", UNCHANGED moi, Montree(s), montres \subseteq montres',
         Ids \subseteq Ids', \A i \in Ids : messages'[i].de = messages[i].de,
         \A i \in Ids' : messages'[i].a = moi /\ messages'[i].lu =>
           i \in Ids /\ messages[i].a = moi /\ messages[i].lu,
         \A r \in EnCours(s) : r.pc = "repondre" => r \in EnCours(s)'
  PROVE  Montree(s)'
<1> SUFFICES ASSUME NEW i \in Ids', messages'[i].a = moi', messages'[i].lu, i \notin montres'
             PROVE  \E r \in EnCours(s)' : /\ r.pc = "repondre" /\ r.avec = messages'[i].de
                                           /\ i \in ToSet(r.lus)
  BY DEF Montree
<1>1. i \in Ids /\ messages[i].a = moi /\ messages[i].lu /\ i \notin montres
  OBVIOUS
<1>2. PICK r \in EnCours(s) :
        r.pc = "repondre" /\ r.avec = messages[i].de /\ i \in ToSet(r.lus)
  BY <1>1 DEF Montree
<1> QED
  BY <1>1, <1>2

LEMMA MontreeMeme ==
  ASSUME NEW s \in ecran, s # "cloche", UNCHANGED <<moi, messages>>, Montree(s),
         montres \subseteq montres', \A r \in demandes : r.pc = "repondre" => r \in demandes'
  PROVE  Montree(s)'
<1>1. Ids' = Ids /\ \A r \in EnCours(s) : r.pc = "repondre" => r \in EnCours(s)'
  BY DEF Ids, EnCours
<1> QED
  BY <1>1, MontreeStable

LEMMA MontreeNext ==
  ASSUME MessagerieAssumption, BoitesAssumption, "bulle" \notin ecran, PagesJustes',
         NEW s \in ecran \cap {"boite", "admin"}, Avant(s), Montree(s), Next
  PROVE  Montree(s)'
<1>0. /\ s \in ecran /\ s # "cloche" /\ UNCHANGED <<moi, ecran>> /\ PagesJustes /\ Etape
      /\ montres \subseteq montres' /\ Attribues(s)' \subseteq montres'
      /\ s \in {"boite", "admin"}
  BY AvantVrai DEF Avant, Next, Temoins
<1>1. ASSUME UNCHANGED <<messages, demandes>>
      PROVE  Montree(s)'
  BY <1>0, <1>1, MontreeMeme
<1>2. ASSUME NEW de, NEW a, HandleMessage(de, a), UNCHANGED <<cloche, vue, demandes>>
      PROVE  Montree(s)'
  <2>1. messages' = Append(messages, [de |-> de, a |-> a, lu |-> FALSE])
    BY <1>2 DEF HandleMessage
  <2>2. messages \in Seq(MessageT)
    BY <1>0 DEF PagesJustes, FormesServeur
  <2>3. /\ Ids \subseteq Ids' /\ \A i \in Ids : messages'[i] = messages[i]
        /\ \A i \in Ids' : messages'[i].lu => i \in Ids
    BY <2>1, <2>2 DEF Ids
  <2>4. \A r \in EnCours(s) : r \in EnCours(s)'
    BY <1>2 DEF EnCours
  <2> QED
    BY <1>0, <2>3, <2>4, MontreeStable
<1>3. CASE Echouer
  <2>1. pannes' = pannes + 1
    BY <1>3 DEF Echouer, PanneDe
  <2> QED
    BY <2>1, AvantVrai
<1>4. ASSUME NEW b, NEW c, NEW o, Passer(b, c, o)
      PROVE  Montree(s)'
  <2>1. UNCHANGED messages /\ \A r \in demandes : r \in demandes'
    BY <1>4 DEF Passer, Demander, serveur
  <2> QED
    BY <1>0, <2>1, MontreeMeme
<1>5. ASSUME NEW r \in demandes, Lire(r)
      PROVE  Montree(s)'
  <2>1. UNCHANGED messages /\ r.pc = "lire" /\ \A d \in demandes : d # r => d \in demandes'
    BY <1>5 DEF Lire, Suite, serveur
  <2> QED
    BY <1>0, <2>1, MontreeMeme
<1>6. ASSUME NEW r \in demandes, Marquer(r)
      PROVE  Montree(s)'
  <2>0. r \in DemandeT /\ r.par = s /\ r \in EnCours(s) /\ FormesServeur
    BY <1>0, SeulEcran DEF PagesJustes, FormesPages
  <2>1. PICK q : q = [r EXCEPT !.pc = "repondre"]
    OBVIOUS
  <2>2. /\ demandes' = (demandes \ {r}) \cup {q} /\ Marque(r.avec) /\ r.pc = "marquer"
    BY <1>6, <2>1 DEF Marquer, Suite
  <2>3. q.par = s /\ q.avec = r.avec /\ q.pc = "repondre" /\ q.lus = r.lus
    BY <2>0, <2>1 DEF DemandeT
  <2>4. q \in EnCours(s)' /\ \A d \in EnCours(s) : d.pc = "repondre" => d \in EnCours(s)'
    BY <1>0, <2>2, <2>3 DEF EnCours
  <2>5. Cible(r.avec) \subseteq ToSet(r.lus)
    BY <2>0, <2>2, AvantVrai DEF Fidele
  <2>6. /\ Ids' = Ids
        /\ \A i \in Ids : /\ messages'[i].de = messages[i].de
                          /\ messages'[i].a = messages[i].a
                          /\ messages'[i].lu <=>
                               messages[i].lu \/ (r.avec # Tous /\ messages[i].de = r.avec
                                                    /\ messages[i].a = moi)
    BY <2>0, <2>2, MarqueStable
  <2> SUFFICES ASSUME NEW i \in Ids', messages'[i].a = moi', messages'[i].lu,
                      i \notin montres'
               PROVE  \E d \in EnCours(s)' : /\ d.pc = "repondre" /\ d.avec = messages'[i].de
                                             /\ i \in ToSet(d.lus)
    BY DEF Montree
  <2>7. i \in Ids /\ messages[i].a = moi /\ i \notin montres
    BY <1>0, <2>6
  <2>8. CASE messages[i].lu
    <3>1. PICK d \in EnCours(s) :
            d.pc = "repondre" /\ d.avec = messages[i].de /\ i \in ToSet(d.lus)
      BY <2>7, <2>8 DEF Montree
    <3> QED
      BY <2>4, <2>6, <2>7, <3>1
  <2>9. CASE ~messages[i].lu
    <3>1. r.avec # Tous /\ messages[i].de = r.avec
      BY <2>6, <2>7, <2>9
    <3>2. i \in Cible(r.avec)
      BY <2>7, <3>1 DEF Cible, Fil
    <3> QED
      BY <2>3, <2>4, <2>5, <2>6, <2>7, <3>1, <3>2
  <2> QED
    BY <2>8, <2>9
<1>7. ASSUME NEW r \in demandes, Repondre(r)
      PROVE  Montree(s)'
  <2>0. r \in DemandeT /\ r.par = s /\ r \in EnCours(s) /\ r.avec = vue[s].choix
    BY <1>0, SeulEcran, AvantVrai DEF PagesJustes, FormesPages, Fidele
  <2>1. /\ UNCHANGED messages /\ demandes' = demandes \ {r} /\ vue'[s].choix = r.avec
        /\ ~(r.avec = Tous /\ r.par = "boite") => ToSet(vue'[s].fil) = ToSet(r.lus)
    BY <1>0, <1>7, <2>0, ReponseVraie
  <2> SUFFICES ASSUME NEW i \in Ids', messages'[i].a = moi', messages'[i].lu,
                      i \notin montres'
               PROVE  \E d \in EnCours(s)' : /\ d.pc = "repondre" /\ d.avec = messages'[i].de
                                             /\ i \in ToSet(d.lus)
    BY DEF Montree
  <2>2. i \in Ids /\ messages[i].a = moi /\ messages[i].lu /\ i \notin montres
    BY <1>0, <2>1 DEF Ids
  <2>3. PICK d \in EnCours(s) :
          d.pc = "repondre" /\ d.avec = messages[i].de /\ i \in ToSet(d.lus)
    BY <2>2 DEF Montree
  <2>4. CASE d = r
    <3>1. r.avec # Tous
      <4>1. messages[i] \in MessageT
        BY <1>0, <2>2 DEF PagesJustes, FormesServeur, Ids
      <4> QED
        BY <2>3, <2>4, <4>1, Constantes DEF MessageT
    <3>2. i \in Ecran(s)'
      BY <1>0, <2>1, <2>3, <2>4, <3>1 DEF Ecran, EcranBoite, EcranAdmin
    <3>3. i \in Attribues(s)'
      BY <2>1, <2>3, <2>4, <3>2 DEF Attribues
    <3> QED
      BY <1>0, <3>3
  <2>5. CASE d # r
    <3>1. d \in EnCours(s)'
      BY <2>1, <2>5, <1>0 DEF EnCours
    <3> QED
      BY <2>1, <2>3, <3>1
  <2> QED
    BY <2>4, <2>5
<1>8. CASE GatewayNext /\ UNCHANGED <<cloche, vue, demandes>>
  <2>1. UNCHANGED <<messages, demandes>>
    BY <1>8 DEF GatewayNext, HandleConnection, Refuser, Lectures, Emettre, Interrompre,
       serveur
  <2> QED
    BY <1>1, <2>1
<1>9. CASE Renouveler \/ MoiConnu \/ \E b \in Actifs : Livrer(b)
  <2>1. UNCHANGED <<messages, demandes>>
    BY <1>9 DEF Renouveler, MoiConnu, Livrer, serveur
  <2> QED
    BY <1>1, <2>1
<1>10. CASE \E r \in comptages : Compter(r) \/ CompterRefuse(r) \/ RepondreCompte(r)
  <2>1. UNCHANGED <<messages, demandes>>
    BY <1>10 DEF Compter, CompterRefuse, RepondreCompte, serveur
  <2> QED
    BY <1>1, <2>1
<1>11. CASE Gestes
  <2>1. CASE MonterBoite
    BY <1>4, <2>1 DEF MonterBoite
  <2>2. CASE MonterBulle
    BY <1>4, <2>2 DEF MonterBulle
  <2>3. CASE BasculerBulle
    BY <1>4, <2>3 DEF BasculerBulle
  <2>4. CASE BasculerLivreur
    <3>1. UNCHANGED messages /\ \A r \in demandes : r \in demandes'
      BY <2>4 DEF BasculerLivreur, Passer, Demander, serveur
    <3> QED
      BY <1>0, <3>1, MontreeMeme
  <2>5. ASSUME NEW c \in Personnes \cup {Tous}, ChoisirBoite(c) \/ ChoisirAdmin(c)
        PROVE  Montree(s)'
    BY <1>4, <2>5 DEF ChoisirBoite, ChoisirAdmin
  <2>6. CASE \/ "boite" \in ecran /\ EnvoyerBoite
             \/ "bulle" \in ecran /\ EnvoyerBulle
             \/ "livreur" \in ecran /\ EnvoyerLivreur
             \/ "admin" \in ecran /\ EnvoyerAdmin
    <3>1. \E a : HandleMessage(moi, a) /\ UNCHANGED <<cloche, vue, demandes>>
      BY <2>6 DEF EnvoyerBoite, EnvoyerBulle, EnvoyerLivreur, EnvoyerAdmin, Envoyer
    <3> QED
      BY <1>2, <3>1
  <2> QED
    BY <1>11, <2>1, <2>2, <2>3, <2>4, <2>5, <2>6 DEF Gestes
<1>12. ASSUME NEW c \in Courriers, AutreEnvoie(c[1], c[2])
       PROVE  Montree(s)'
  BY <1>2, <1>12 DEF AutreEnvoie
<1> QED
  BY <1>0, <1>3, <1>5, <1>6, <1>7, <1>8, <1>9, <1>10, <1>11, <1>12 DEF Etape

\* The two invariants together.
LusCalmes == PagesCalmes /\ LusMontres

LEMMA InitLus ==
  ASSUME MessagerieAssumption, BoitesAssumption, Init
  PROVE  LusCalmes
<1>1. messages = << >>
  BY DEF Init, InitServeur
<1>2. Ids = {}
  BY <1>1 DEF Ids
<1> QED
  BY <1>2, InitCalmes DEF LusCalmes, LusMontres, Montree

LEMMA NextLus ==
  ASSUME MessagerieAssumption, BoitesAssumption, LusCalmes, [Next]_vars
  PROVE  LusCalmes'
<1>1. PagesCalmes /\ PagesCalmes'
  BY NextCalmes DEF LusCalmes
<1>2. CASE Next
  <2>1. /\ PagesJustes /\ PagesJustes' /\ FormesCalme /\ FormesCalme'
        /\ UNCHANGED <<moi, ecran>>
    BY <1>1, <1>2, PasMoi DEF PagesCalmes, Next
  <2>2. ASSUME "bulle" \notin ecran, NEW s \in ecran \cap {"boite", "admin"}, calme'[s]
        PROVE  Montree(s)'
    <3>1. s # "cloche" /\ s \in Actifs
      BY DEF Actifs
    <3>2. calme[s] /\ ~Trouble(s)
      BY <1>2, <2>1, <2>2, <3>1, Tranquille DEF Next
    <3>3. Avant(s)
      BY <1>1, <2>1, <3>1, <3>2 DEF Avant, PagesCalmes
    <3>4. Montree(s)
      BY <2>2, <3>2 DEF LusCalmes, LusMontres
    <3> QED
      BY <1>2, <2>1, <2>2, <3>3, <3>4, MontreeNext
  <2>3. LusMontres'
    BY <2>1, <2>2 DEF LusMontres
  <2> QED
    BY <1>1, <2>3 DEF LusCalmes
<1>3. CASE UNCHANGED vars
  <2>1. UNCHANGED <<moi, messages, ecran, demandes, calme, montres>>
    BY <1>3 DEF vars, serveur, cloche
  <2>2. ASSUME "bulle" \notin ecran, NEW s \in ecran \cap {"boite", "admin"}, calme'[s]
        PROVE  Montree(s)'
    <3>1. Montree(s) /\ s # "cloche"
      BY <2>1, <2>2 DEF LusCalmes, LusMontres
    <3> QED
      BY <2>1, <3>1, MontreeMeme
  <2>3. LusMontres'
    BY <2>1, <2>2 DEF LusMontres
  <2> QED
    BY <1>1, <2>3 DEF LusCalmes
<1> QED
  BY <1>2, <1>3

\* LuMontre: on the inbox and the admin's page, a message marked read was on the
\* screen as a message of its sender.
THEOREM LuMontreVrai == Spec => []LuMontre
<1>1. Init => LusCalmes
  BY InitLus, MessagerieAssumption, BoitesAssumption
<1>2. LusCalmes /\ [Next]_vars => LusCalmes'
  BY NextLus, MessagerieAssumption, BoitesAssumption
<1>3. LusCalmes => LuMontre
  <2> SUFFICES ASSUME LusCalmes, "bulle" \notin ecran,
                      NEW s \in ecran \cap {"boite", "admin"}, NEW i \in Ids, calme[s],
                      EnCours(s) = {}, messages[i].a = moi, messages[i].lu
               PROVE  i \in montres
    BY DEF LuMontre
  <2>1. Montree(s)
    BY DEF LusCalmes, LusMontres
  <2> QED
    BY <2>1 DEF Montree
<1> QED
  BY <1>1, <1>2, <1>3, PTL DEF Spec

----------------------------------------------------------------------------
(* The bell.                                                               *)

LEMMA InitEnvois ==
  ASSUME MessagerieAssumption, BoitesAssumption, Init
  PROVE  FormesEnvois
<1>1. /\ messages = << >> /\ lectures = {} /\ envois = {}
      /\ moi \in Personnes /\ ecran \in Ecrans
      /\ (moi \in Admins) <=> (ecran = {"admin"})
      /\ "livreur" \in ecran => moi # Livreur
      /\ vue = [s \in ecran |-> [choix |-> IF s = "livreur" THEN Livreur ELSE Aucun,
                                 ouvert |-> s \in {"boite", "admin"},
                                 fil |-> << >>, annonces |-> << >>]]
  BY Constantes DEF Init, InitServeur
<1>2. \A s \in ecran : vue[s].choix # moi
  BY <1>1, Constantes
<1>3. Ids = {}
  BY <1>1 DEF Ids
<1> QED
  BY <1>1, <1>2, <1>3, PremierComptage, FS_EmptySet DEF FormesEnvois

\* The steps that send nothing and keep the contacts.
LEMMA EnvoisStables ==
  ASSUME FormesEnvois, PagesJustes, UNCHANGED <<moi, ecran>>, Ids' = Ids,
         \A i \in Ids : messages'[i].de = messages[i].de /\ messages'[i].a = messages[i].a,
         \A s \in ecran : vue'[s].choix = vue[s].choix \/ vue'[s].choix # moi,
         envois' \subseteq envois, IsFiniteSet(comptages'),
         \A l \in lectures' : \E k \in lectures : l.m = k.m
  PROVE  FormesEnvois'
<1>1. IsFiniteSet(envois')
  BY FS_Subset DEF FormesEnvois
<1>2. \A s \in ecran' : vue'[s].choix # moi'
  BY DEF FormesEnvois
<1>3. \A i \in Ids' : messages'[i].de # messages'[i].a
  BY DEF FormesEnvois
<1>4. \A e, f \in envois' : e.m = f.m => e = f
  BY DEF FormesEnvois
<1>5. \A e \in envois' : \A l \in lectures' : e.pc = "lectures" => l.m # e.m
  BY DEF FormesEnvois
<1> QED
  BY <1>1, <1>2, <1>3, <1>4, <1>5 DEF FormesEnvois

LEMMA EnvoisMessage ==
  ASSUME FormesEnvois, PagesJustes, NEW de, NEW a, de # a, HandleMessage(de, a),
         UNCHANGED <<cloche, vue, demandes>>
  PROVE  FormesEnvois'
<1> DEFINE x == [de |-> de, a |-> a, lu |-> FALSE]
<1>0. PICK N : N = Len(messages) + 1
  OBVIOUS
<1>1. PICK f : f = [de |-> de, a |-> a, m |-> N,
                    pc |-> IF a = Tous THEN "lectures" ELSE "emettre"]
  OBVIOUS
<1>2. /\ messages' = Append(messages, x) /\ envois' = envois \cup {f}
      /\ UNCHANGED <<moi, ecran, vue, comptages, lectures>>
  BY <1>0, <1>1 DEF HandleMessage, cloche
<1>3. messages \in Seq(MessageT) /\ lectures \subseteq [m : Ids, qui : Personnes, lu : BOOLEAN]
  BY DEF PagesJustes, FormesServeur
<1>4. /\ N \notin Ids /\ Ids' = Ids \cup {N} /\ \A i \in Ids : messages'[i] = messages[i]
      /\ messages'[N] = x
  BY <1>0, <1>2, <1>3 DEF Ids
<1>5. f.m = N /\ \A e \in envois : e.m \in Ids
  BY <1>1 DEF PagesJustes, EnvoiJuste
<1>6. IsFiniteSet(envois')
  BY <1>2, FS_AddElement DEF FormesEnvois
<1>7. \A i \in Ids' : messages'[i].de # messages'[i].a
  <2>1. messages'[N].de # messages'[N].a
    BY <1>4
  <2> QED
    BY <1>4, <2>1 DEF FormesEnvois
<1>8. \A e, g \in envois' : e.m = g.m => e = g
  BY <1>2, <1>4, <1>5 DEF FormesEnvois
<1>9. ASSUME NEW e \in envois', NEW l \in lectures', e.pc = "lectures", l.m = e.m
      PROVE  FALSE
  <2>1. l \in lectures /\ l.m \in Ids
    BY <1>2, <1>3
  <2>2. e \in envois
    BY <1>2, <1>4, <1>5, <1>9, <2>1
  <2> QED
    BY <1>9, <2>1, <2>2 DEF FormesEnvois
<1>10. /\ IsFiniteSet(comptages')
       /\ (moi' \in Admins) <=> (ecran' = {"admin"})
       /\ "livreur" \in ecran' => moi' # Livreur
       /\ \A s \in ecran' : vue'[s].choix # moi'
  BY <1>2 DEF FormesEnvois
<1> QED
  BY <1>6, <1>7, <1>8, <1>9, <1>10 DEF FormesEnvois

LEMMA EnvoisLectures ==
  ASSUME FormesEnvois, PagesJustes, NEW e \in envois, Lectures(e),
         UNCHANGED <<cloche, vue, demandes>>
  PROVE  FormesEnvois'
<1> DEFINE Rangees == {[m |-> e.m, qui |-> p, lu |-> FALSE] : p \in Personnes \ {e.de}}
<1>1. PICK f : f = [e EXCEPT !.pc = "emettre"]
  OBVIOUS
<1>2. /\ lectures' = lectures \cup Rangees /\ envois' = (envois \ {e}) \cup {f}
      /\ UNCHANGED <<moi, ecran, vue, messages, comptages>>
  BY <1>1 DEF Lectures, Avance, cloche
<1>3. f.m = e.m /\ f.pc = "emettre"
  BY <1>1 DEF PagesJustes, FormesServeur, EnvoiT
<1>4. IsFiniteSet(envois')
  <2>1. IsFiniteSet(envois \ {e})
    BY FS_RemoveElement DEF FormesEnvois
  <2> QED
    BY <1>2, <2>1, FS_AddElement
<1>5. \A g, h \in envois' : g.m = h.m => g = h
  BY <1>2, <1>3 DEF FormesEnvois
<1>6. ASSUME NEW g \in envois', NEW l \in lectures', g.pc = "lectures", l.m = g.m
      PROVE  FALSE
  <2>1. g \in envois /\ g # e /\ g.m # e.m
    BY <1>2, <1>3, <1>6 DEF FormesEnvois
  <2>2. l \in lectures
    <3>1. \A k \in Rangees : k.m = e.m
      OBVIOUS
    <3> QED
      BY <1>2, <1>6, <2>1, <3>1
  <2> QED
    BY <1>6, <2>1, <2>2 DEF FormesEnvois
<1>7. /\ IsFiniteSet(comptages')
      /\ (moi' \in Admins) <=> (ecran' = {"admin"})
      /\ "livreur" \in ecran' => moi' # Livreur
      /\ \A s \in ecran' : vue'[s].choix # moi'
  BY <1>2 DEF FormesEnvois
<1>8. \A i \in Ids' : messages'[i].de # messages'[i].a
  BY <1>2 DEF FormesEnvois, Ids
<1> QED
  BY <1>4, <1>5, <1>6, <1>7, <1>8 DEF FormesEnvois

LEMMA PasserChoix ==
  ASSUME PagesJustes, NEW b \in ecran, NEW c, NEW o, Passer(b, c, o)
  PROVE  /\ vue'[b].choix = c /\ \A s \in ecran : s # b => vue'[s] = vue[s]
         /\ UNCHANGED <<messages, lectures, envois, comptages, file, compte, connu>>
         /\ \A r \in demandes' : r.pc = "repondre" => r \in demandes
<1>1. /\ vue' = [vue EXCEPT ![b].choix = c, ![b].ouvert = o]
      /\ UNCHANGED <<messages, lectures, envois, comptages, file, compte, connu>>
      /\ demandes' = demandes \cup {[n |-> gestes', par |-> b, avec |-> c, pc |-> "lire",
                                     lus |-> << >>]}
  BY DEF Passer, Demander, serveur, cloche, reseau
<1>2. vue \in [ecran -> VueT] /\ vue[b] \in VueT
  BY DEF PagesJustes, FormesPages
<1> DEFINE x == [vue[b] EXCEPT !.choix = c, !.ouvert = o]
<1>3. vue' = [vue EXCEPT ![b] = x]
  BY <1>1
<1>4. x.choix = c
  BY <1>2 DEF VueT
<1> HIDE DEF x
<1>5. vue'[b] = x /\ \A s \in ecran : s # b => vue'[s] = vue[s]
  BY <1>2, <1>3
<1>6. \A r \in demandes' : r.pc = "repondre" => r \in demandes
  BY <1>1
<1> QED
  BY <1>1, <1>4, <1>5, <1>6

\* Every step keeps what is known of the messages under way.
LEMMA EnvoisNext ==
  ASSUME MessagerieAssumption, BoitesAssumption, PagesJustes, FormesEnvois, Etape
  PROVE  FormesEnvois'
<1>0. /\ UNCHANGED <<moi, ecran>> /\ IsFiniteSet(envois) /\ IsFiniteSet(comptages)
      /\ moi \in Personnes /\ ecran \in Ecrans
      /\ vue \in [ecran -> VueT] /\ demandes \subseteq DemandeT
  BY PasMoi DEF FormesEnvois, PagesJustes, FormesServeur, FormesPages
<1>1. ASSUME UNCHANGED <<messages, lectures>>, envois' \subseteq envois,
             \A s \in ecran : vue'[s].choix = vue[s].choix \/ vue'[s].choix # moi,
             IsFiniteSet(comptages')
      PROVE  FormesEnvois'
  <2>1. Ids' = Ids
    BY <1>1 DEF Ids
  <2> QED
    BY <1>0, <1>1, <2>1, EnvoisStables
<1>2. CASE GatewayNext /\ UNCHANGED <<cloche, vue, demandes>>
  <2>1. ASSUME NEW e \in envois, Lectures(e)
        PROVE  FormesEnvois'
    BY <1>2, <2>1, EnvoisLectures
  <2>2. CASE \/ \E b \in DOMAIN prise : HandleConnection(b) \/ Refuser(b)
             \/ \E e \in envois : Emettre(e) \/ Interrompre(e)
    <3>1. UNCHANGED <<messages, lectures, vue, comptages>> /\ envois' \subseteq envois
      BY <1>2, <2>2 DEF HandleConnection, Refuser, Emettre, Interrompre, serveur, cloche
    <3> QED
      BY <1>0, <1>1, <3>1
  <2> QED
    BY <1>2, <2>1, <2>2 DEF GatewayNext
<1>3. ASSUME NEW b \in Actifs, Livrer(b)
      PROVE  FormesEnvois'
  <2>1. UNCHANGED <<messages, lectures, envois, comptages>>
    BY <1>3 DEF Livrer, serveur
  <2>2. \A s \in ecran : vue'[s].choix = vue[s].choix
    <3>1. CASE b = "cloche"
      <4>1. UNCHANGED vue
        BY <1>3, <3>1 DEF Livrer, EcouteCloche
      <4> QED
        BY <4>1
    <3>2. CASE b \in ecran
      BY <1>3, <3>2, EvenementVrai
    <3> QED
      BY <3>1, <3>2 DEF Actifs
  <2> QED
    BY <1>0, <1>1, <2>1, <2>2
<1>4. CASE Renouveler \/ MoiConnu
  <2>1. UNCHANGED <<messages, lectures, envois, comptages, vue>>
    BY <1>4 DEF Renouveler, MoiConnu, serveur, cloche
  <2> QED
    BY <1>0, <1>1, <2>1
<1>5. CASE Echouer
  <2>1. UNCHANGED <<messages, lectures, envois, vue>> /\ comptages' \subseteq comptages
    BY <1>5 DEF Echouer, serveur
  <2>2. IsFiniteSet(comptages')
    BY <1>0, <2>1, FS_Subset
  <2> QED
    BY <1>0, <1>1, <2>1, <2>2
<1>6. ASSUME NEW r \in comptages, Compter(r) \/ CompterRefuse(r) \/ RepondreCompte(r)
      PROVE  FormesEnvois'
  <2>1. UNCHANGED <<messages, lectures, envois, vue>>
    BY <1>6 DEF Compter, CompterRefuse, RepondreCompte, serveur
  <2>2. IsFiniteSet(comptages \ {r})
    BY <1>0, FS_RemoveElement
  <2>3. IsFiniteSet(comptages')
    <3>1. CASE Compter(r)
      <4>1. PICK q : q = [r EXCEPT !.total = DirectsNonLus + DiffusionsNonLues]
        OBVIOUS
      <4>2. comptages' = (comptages \ {r}) \cup {q}
        BY <3>1, <4>1 DEF Compter
      <4> QED
        BY <2>2, <4>2, FS_AddElement
    <3>2. CASE CompterRefuse(r) \/ RepondreCompte(r)
      BY <2>2, <3>2 DEF CompterRefuse, RepondreCompte
    <3> QED
      BY <1>6, <3>1, <3>2
  <2> QED
    BY <1>0, <1>1, <2>1, <2>3
<1>7. ASSUME NEW b \in ecran, NEW c, NEW o, Passer(b, c, o), c # moi
      PROVE  FormesEnvois'
  <2>1. /\ vue'[b].choix = c /\ \A s \in ecran : s # b => vue'[s] = vue[s]
        /\ UNCHANGED <<messages, lectures, envois, comptages>>
    BY <1>7, PasserChoix
  <2>2. \A s \in ecran : vue'[s].choix = vue[s].choix \/ vue'[s].choix # moi
    BY <1>7, <2>1
  <2> QED
    BY <1>0, <1>1, <2>1, <2>2
<1>8. \A s \in ecran : s \in {"boite", "bulle", "livreur"} => moi # Support
  BY <1>0 DEF FormesEnvois, MessagerieAssumption
<1>9. ASSUME NEW a, a # moi, HandleMessage(moi, a), UNCHANGED <<cloche, vue, demandes>>
      PROVE  FormesEnvois'
  BY <1>9, EnvoisMessage
<1>10. CASE Gestes
  <2>1. CASE MonterBoite
    BY <1>7, <1>8, <2>1 DEF MonterBoite
  <2>2. CASE MonterBulle
    BY <1>7, <1>8, <2>2 DEF MonterBulle
  <2>3. CASE BasculerBulle
    BY <1>7, <1>8, <2>3 DEF BasculerBulle
  <2>4. CASE BasculerLivreur
    <3>0. "livreur" \in ecran /\ moi # Livreur
      BY <2>4 DEF BasculerLivreur, FormesEnvois
    <3>1. CASE ~vue["livreur"].ouvert
      BY <1>7, <2>4, <3>0, <3>1 DEF BasculerLivreur
    <3>2. CASE vue["livreur"].ouvert
      <4> DEFINE x == [vue["livreur"] EXCEPT !.ouvert = FALSE]
      <4>1. /\ vue' = [vue EXCEPT !["livreur"] = x]
            /\ UNCHANGED <<messages, lectures, envois, comptages>>
        BY <2>4, <3>2 DEF BasculerLivreur, serveur, cloche
      <4>2. vue["livreur"] \in VueT
        BY <1>0, <3>0
      <4>3. x.choix = vue["livreur"].choix
        BY <4>2 DEF VueT
      <4> HIDE DEF x
      <4>4. \A s \in ecran : vue'[s].choix = vue[s].choix
        BY <1>0, <4>1, <4>3
      <4> QED
        BY <1>0, <1>1, <4>1, <4>4
    <3> QED
      BY <3>1, <3>2
  <2>5. ASSUME NEW c \in Personnes \cup {Tous}, ChoisirBoite(c) \/ ChoisirAdmin(c)
        PROVE  FormesEnvois'
    BY <1>7, <2>5 DEF ChoisirBoite, ChoisirAdmin
  <2>6. CASE \/ "boite" \in ecran /\ EnvoyerBoite
             \/ "bulle" \in ecran /\ EnvoyerBulle
             \/ "livreur" \in ecran /\ EnvoyerLivreur
             \/ "admin" \in ecran /\ EnvoyerAdmin
    <3>1. \E s \in ecran : HandleMessage(moi, vue[s].choix)
                             /\ UNCHANGED <<cloche, vue, demandes>>
      BY <2>6 DEF EnvoyerBoite, EnvoyerBulle, EnvoyerLivreur, EnvoyerAdmin, Envoyer
    <3> QED
      BY <1>9, <3>1 DEF FormesEnvois
  <2> QED
    BY <1>10, <2>1, <2>2, <2>3, <2>4, <2>5, <2>6 DEF Gestes
<1>11. ASSUME NEW c \in Courriers, AutreEnvoie(c[1], c[2])
       PROVE  FormesEnvois'
  <2>1. c[1] # c[2]
    BY DEF BoitesAssumption
  <2> QED
    BY <1>11, <2>1, EnvoisMessage DEF AutreEnvoie
<1>12. ASSUME NEW r \in demandes, Lire(r)
       PROVE  FormesEnvois'
  <2>1. UNCHANGED <<messages, lectures, envois, comptages, vue>>
    BY <1>12 DEF Lire, serveur, cloche
  <2> QED
    BY <1>0, <1>1, <2>1
<1>13. ASSUME NEW r \in demandes, Marquer(r)
       PROVE  FormesEnvois'
  <2>1. Marque(r.avec) /\ UNCHANGED <<envois, comptages, vue>>
    BY <1>13 DEF Marquer, cloche
  <2>2. FormesServeur
    BY DEF PagesJustes
  <2>3. Ids' = Ids
        /\ \A i \in Ids : messages'[i].de = messages[i].de /\ messages'[i].a = messages[i].a
    BY <2>1, <2>2, MarqueStable
  <2>4. \A l \in lectures' : \E k \in lectures : l.m = k.m
    <3>1. CASE r.avec # Tous
      BY <2>1, <3>1 DEF Marque
    <3>2. CASE r.avec = Tous
      <4>1. lectures' = {[l EXCEPT !.lu = @ \/ l.qui = moi] : l \in lectures}
        BY <2>1, <3>2 DEF Marque
      <4>2. ASSUME NEW l \in lectures'
            PROVE  \E k \in lectures : l.m = k.m
        <5>1. PICK k \in lectures : l = [k EXCEPT !.lu = @ \/ k.qui = moi]
          BY <4>1
        <5>2. k \in [m : Ids, qui : Personnes, lu : BOOLEAN]
          BY <2>2 DEF FormesServeur
        <5>3. l.m = k.m
          BY <5>1, <5>2
        <5> QED
          BY <5>3
      <4> QED
        BY <4>2
    <3> QED
      BY <3>1, <3>2
  <2> QED
    BY <1>0, <2>1, <2>3, <2>4, EnvoisStables
<1>14. ASSUME NEW r \in demandes, Repondre(r)
       PROVE  FormesEnvois'
  <2>1. /\ UNCHANGED <<messages, lectures, envois>>
        /\ comptages' = comptages \cup {[n |-> r.n, total |-> -1]}
    BY <1>14 DEF Repondre, serveur
  <2>2. IsFiniteSet(comptages')
    BY <1>0, <2>1, FS_AddElement
  <2>3. \A s \in ecran : vue'[s].choix = vue[s].choix
    BY <1>14, ReponseVraie
  <2> QED
    BY <1>0, <1>1, <2>1, <2>2, <2>3
<1> QED
  BY <1>2, <1>3, <1>4, <1>5, <1>6, <1>10, <1>11, <1>12, <1>13, <1>14 DEF Etape

\* An undisturbed bell, and a step that does not disturb it.
AvantCloche ==
  /\ PagesJustes /\ PagesJustes' /\ FormesEnvois /\ FormesEnvois'
  /\ Paisible("cloche") /\ Paisible("cloche")' /\ ~Trouble("cloche")
  /\ UNCHANGED <<moi, ecran>> /\ (Libre => Compteur) /\ Plancher
  /\ ecoute = "perimee" => ecoute' = "perimee"

\* A step keeps what the bell asked and answered, and what it will show follows
\* what is left to read.
Accord ==
  /\ UNCHANGED comptages
  /\ \/ Somme' = Somme /\ ANouveau' = ANouveau
     \/ Somme' = Somme + 1 /\ ANouveau' = ANouveau + 1 /\ comptages = {}

LEMMA AvantClocheVrai ==
  ASSUME MessagerieAssumption, BoitesAssumption, AvantCloche
  PROVE  /\ UNCHANGED <<moi, ecran>> /\ "cloche" \in Actifs /\ "cloche" \notin ecran
         /\ EnCours("cloche") = comptages /\ EnCours("cloche")' = comptages'
         /\ EnChemin("cloche") => connu /\ comptages = {}
         /\ EnChemin("cloche")' => comptages' = {}
         /\ EnChemin("cloche") => prise["cloche"] = "jointe"
         /\ ~((EnChemin("cloche") \/ EnChemin("cloche")') /\ prise'["cloche"] # "jointe")
         /\ \A r, q \in comptages : r = q
         /\ \A r, q \in comptages' : r = q
         /\ ~(pannes' > pannes) /\ pannes \in Nat /\ compte \in Nat
         /\ file \in [Actifs -> Seq(Nat)] /\ prise \in [Actifs -> Etats]
         /\ ToSet(file["cloche"]) \subseteq Ids /\ messages \in Seq(MessageT)
         /\ DirectsNonLus \in Nat /\ DiffusionsNonLues \in Nat
         /\ IsFiniteSet(Ids) /\ IsFiniteSet(lectures)
<1>1. "cloche" \in Actifs /\ "cloche" \notin ecran
  BY Constantes DEF Actifs, AvantCloche, PagesJustes, FormesServeur
<1>2. EnCours("cloche") = comptages /\ EnCours("cloche")' = comptages'
  BY DEF EnCours
<1>3. ~Trouble("cloche") /\ Paisible("cloche") /\ Paisible("cloche")'
  BY DEF AvantCloche
<1>4. EnChemin("cloche") => connu
  BY <1>3 DEF Trouble
<1>5. EnChemin("cloche") => comptages = {} /\ prise["cloche"] = "jointe"
  BY <1>2, <1>3 DEF Paisible
<1>6. EnChemin("cloche")' => comptages' = {}
  BY <1>2, <1>3 DEF Paisible
<1>7. ~((EnChemin("cloche") \/ EnChemin("cloche")') /\ prise'["cloche"] # "jointe")
  BY <1>3 DEF Trouble
<1>8. ~(pannes' > pannes)
  BY <1>3 DEF Trouble
<1>9. /\ \A r, q \in comptages : r = q
      /\ \A r, q \in comptages' : r = q
  BY <1>2, <1>3 DEF Paisible
<1>10. /\ pannes \in Nat /\ compte \in Nat /\ messages \in Seq(MessageT)
       /\ file \in [Actifs -> Seq(Nat)] /\ prise \in [Actifs -> Etats]
       /\ FileJuste("cloche") /\ UNCHANGED <<moi, ecran>>
  BY <1>1 DEF AvantCloche, PagesJustes, FormesServeur, FormesPages, FormesCloche
<1>11. ToSet(file["cloche"]) \subseteq Ids
  BY <1>10 DEF FileJuste, MesIds
<1>12. /\ DirectsNonLus \in Nat /\ DiffusionsNonLues \in Nat
       /\ IsFiniteSet(Ids) /\ IsFiniteSet(lectures)
  <2>1. FormesServeur
    BY DEF AvantCloche, PagesJustes
  <2> QED
    BY <2>1, ComptesEntiers, LecturesFinies
<1> QED
  BY <1>1, <1>2, <1>4, <1>5, <1>6, <1>7, <1>8, <1>9, <1>10, <1>11, <1>12

\* The messages that will ring are counted.
LEMMA SonneriesVraies ==
  ASSUME MessagerieAssumption, BoitesAssumption, AvantCloche
  PROVE  /\ Sonneries \subseteq 1..Len(file["cloche"]) /\ IsFiniteSet(Sonneries)
         /\ EnVenue \subseteq envois /\ IsFiniteSet(EnVenue)
         /\ Cardinality(Sonneries) \in Nat /\ Cardinality(EnVenue) \in Nat
         /\ file["cloche"] \in Seq(Nat) /\ DOMAIN file["cloche"] = 1..Len(file["cloche"])
         /\ \A k \in 1..Len(file["cloche"]) : file["cloche"][k] \in Ids
         /\ ~EnChemin("cloche") => Sonneries = {} /\ EnVenue = {}
<1>1. file["cloche"] \in Seq(Nat) /\ ToSet(file["cloche"]) \subseteq Ids
  BY AvantClocheVrai
<1>2. /\ DOMAIN file["cloche"] = 1..Len(file["cloche"]) /\ Len(file["cloche"]) \in Nat
      /\ \A k \in 1..Len(file["cloche"]) : file["cloche"][k] \in ToSet(file["cloche"])
  BY <1>1, SuiteVraie
<1>3. Sonneries \in SUBSET (1..Len(file["cloche"])) /\ EnVenue \in SUBSET envois
  BY <1>2 DEF Sonneries, EnVenue
<1>4. IsFiniteSet(1..Len(file["cloche"])) /\ IsFiniteSet(envois)
  <2>1. PICK n : n = Len(file["cloche"])
    OBVIOUS
  <2>2. n \in Nat
    BY <1>2, <2>1
  <2>3. IsFiniteSet(1..n)
    BY <2>2, IdsFinis
  <2>4. IsFiniteSet(1..Len(file["cloche"]))
    BY <2>1, <2>3
  <2> QED
    BY <2>4 DEF AvantCloche, FormesEnvois
<1>5. IsFiniteSet(Sonneries) /\ IsFiniteSet(EnVenue)
  <2>1. ASSUME NEW S, NEW T, IsFiniteSet(T), S \in SUBSET T
        PROVE  IsFiniteSet(S)
    BY <2>1, FS_Subset
  <2>2. IsFiniteSet(EnVenue)
    BY <1>3, <1>4, <2>1
  <2>3. PICK T : T = 1..Len(file["cloche"])
    OBVIOUS
  <2>4. IsFiniteSet(T) /\ Sonneries \in SUBSET T
    BY <1>3, <1>4, <2>3
  <2>5. IsFiniteSet(Sonneries)
    BY <2>1, <2>4
  <2> QED
    BY <2>2, <2>5
<1>6. Cardinality(Sonneries) \in Nat /\ Cardinality(EnVenue) \in Nat
  BY <1>5, FS_CardinalityType
<1>7. ASSUME ~EnChemin("cloche")
      PROVE  Sonneries = {} /\ EnVenue = {}
  <2>1. file["cloche"] = << >> /\ \A e \in envois : e.a # Tous /\ e.a # moi
    BY <1>7 DEF EnChemin
  <2> QED
    BY <2>1 DEF Sonneries, EnVenue
<1> QED
  BY <1>1, <1>2, <1>3, <1>5, <1>6, <1>7

\* What the bell will show and what is left to read are numbers.
LEMMA SommesEntieres ==
  ASSUME MessagerieAssumption, BoitesAssumption, AvantCloche
  PROVE  Somme \in Nat /\ ANouveau \in Nat /\ Plancher
BY AvantClocheVrai, SonneriesVraies DEF Somme, ANouveau, AvantCloche

\* Such a step keeps the bell right.
LEMMA AccordVrai ==
  ASSUME MessagerieAssumption, BoitesAssumption, AvantCloche, Accord, Libre' => Libre
  PROVE  (Libre' => Compteur') /\ Plancher'
<1>1. Somme \in Nat /\ ANouveau \in Nat /\ Plancher
  BY SommesEntieres
<1>2. /\ Somme >= ANouveau
      /\ \A r \in comptages : r.total # -1 => r.total >= ANouveau
  BY <1>1 DEF Plancher
<1>3. Plancher'
  <2>1. Somme' >= ANouveau'
    BY <1>1, <1>2 DEF Accord
  <2>2. \A r \in comptages' : r.total # -1 => r.total >= ANouveau'
    BY <1>2 DEF Accord
  <2> QED
    BY <2>1, <2>2 DEF Plancher
<1>4. ASSUME Libre'
      PROVE  Compteur'
  <2>1. Compteur /\ (ecoute = "perimee" => ecoute' = "perimee")
    BY <1>4 DEF AvantCloche
  <2>2. ASSUME comptages' = {}
        PROVE  Somme' = ANouveau' \/ ecoute' = "perimee"
    BY <1>1, <2>1, <2>2 DEF Accord, Compteur
  <2>3. \A r \in comptages' : r.total # -1 => r.total = ANouveau'
    BY <2>1 DEF Accord, Compteur
  <2> QED
    BY <2>2, <2>3 DEF Compteur
<1> QED
  BY <1>3, <1>4

\* A step that leaves the bell and what it counts as they are.
LEMMA CompteurMeme ==
  ASSUME UNCHANGED <<moi, messages, lectures, envois, compte, comptages>>,
         Sonneries' = Sonneries
  PROVE  Accord
<1>1. EnVenue' = EnVenue /\ DirectsNonLus' = DirectsNonLus
      /\ DiffusionsNonLues' = DiffusionsNonLues
  BY DEF EnVenue, DirectsNonLus, DiffusionsNonLues, Ids
<1> QED
  BY <1>1 DEF Accord, Somme, ANouveau

\* The same, the queue of the bell and what it knows of moi included.
LEMMA ClocheMeme ==
  ASSUME AvantCloche,
         UNCHANGED <<messages, lectures, envois, compte, connu, comptages>>,
         file'["cloche"] = file["cloche"]
  PROVE  Accord
<1>1. Sonneries' = Sonneries
  BY DEF Sonneries, Sonne, AvantCloche
<1> QED
  BY <1>1, CompteurMeme DEF AvantCloche

\* Taking the first of a queue.
LEMMA Decale ==
  ASSUME NEW N \in Nat, NEW S \in SUBSET (1..N), NEW T, T = {k \in 1..(N-1) : k+1 \in S}
  PROVE  /\ 1 \in S => Cardinality(S) = Cardinality(T) + 1
         /\ 1 \notin S => Cardinality(S) = Cardinality(T)
<1> DEFINE g == [k \in T |-> k+1]
<1>1. T \in SUBSET (1..(N-1)) /\ IsFiniteSet(1..(N-1)) /\ IsFiniteSet(1..N)
  BY FS_Interval
<1>2. IsFiniteSet(T) /\ IsFiniteSet(S)
  BY <1>1, FS_Subset
<1>3. g \in [T -> S \ {1}]
  BY <1>1
<1>4. \A j, k \in T : g[j] = g[k] => j = k
  BY <1>1
<1>5. ASSUME NEW x \in S \ {1}
      PROVE  \E k \in T : g[k] = x
  <2>1. x - 1 \in T
    OBVIOUS
  <2>2. g[x - 1] = x
    BY <2>1
  <2> QED
    BY <2>1, <2>2
<1>6. g \in Bijection(T, S \ {1})
  <2> HIDE DEF g
  <2>1. g \in Injection(T, S \ {1})
    BY <1>3, <1>4 DEF Injection, IsInjective
  <2>2. g \in Surjection(T, S \ {1})
    BY <1>3, <1>5 DEF Surjection
  <2> QED
    BY <2>1, <2>2 DEF Bijection
<1>7. ExistsBijection(T, S \ {1})
  BY <1>6 DEF ExistsBijection
<1>8. Cardinality(S \ {1}) = Cardinality(T)
  BY <1>2, <1>7, FS_Bijection
<1>9. Cardinality(S \ {1}) = IF 1 \in S THEN Cardinality(S) - 1 ELSE Cardinality(S)
  BY <1>2, FS_RemoveElement
<1>10. Cardinality(S) \in Nat
  BY <1>2, FS_CardinalityType
<1> QED
  BY <1>8, <1>9, <1>10

\* A message is stored: it is new, and will ring if moi is its destination.
LEMMA ClocheMessage ==
  ASSUME MessagerieAssumption, BoitesAssumption, AvantCloche, NEW de, NEW a,
         HandleMessage(de, a), UNCHANGED <<cloche, vue, demandes>>
  PROVE  Accord
<1> DEFINE x == [de |-> de, a |-> a, lu |-> FALSE]
<1>0. PICK N : N = Len(messages) + 1
  OBVIOUS
<1>1. PICK f : f = [de |-> de, a |-> a, m |-> N,
                    pc |-> IF a = Tous THEN "lectures" ELSE "emettre"]
  OBVIOUS
<1>2. /\ messages' = Append(messages, x) /\ envois' = envois \cup {f}
      /\ UNCHANGED <<moi, lectures, file, compte, connu, comptages>>
  BY <1>0, <1>1 DEF HandleMessage, cloche, reseau
<1>3. messages \in Seq(MessageT) /\ moi \in Personnes
  BY AvantClocheVrai DEF AvantCloche, PagesJustes, FormesServeur
<1>4. /\ N \notin Ids /\ Ids' = Ids \cup {N} /\ \A i \in Ids : messages'[i] = messages[i]
      /\ messages'[N].a = a /\ messages'[N].lu = FALSE
  BY <1>0, <1>2, <1>3 DEF Ids
<1> HIDE DEF x
<1>5. f \notin envois
  <2>1. \A e \in envois : e.m \in Ids
    BY DEF AvantCloche, PagesJustes, EnvoiJuste
  <2> QED
    BY <1>1, <1>4, <2>1
<1>6. Sonneries' = Sonneries
  <2>1. /\ DOMAIN file["cloche"] = 1..Len(file["cloche"])
        /\ \A k \in 1..Len(file["cloche"]) : file["cloche"][k] \in Ids
    BY SonneriesVraies
  <2>2. ASSUME NEW k \in 1..Len(file["cloche"])
        PROVE  messages'[file["cloche"][k]] = messages[file["cloche"][k]]
    BY <1>4, <2>1
  <2> QED
    BY <1>2, <2>1, <2>2 DEF Sonneries, Sonne
<1>7. DiffusionsNonLues' = DiffusionsNonLues
  BY <1>2 DEF DiffusionsNonLues
<1>8. /\ compte \in Nat /\ DirectsNonLus \in Nat /\ DiffusionsNonLues \in Nat
      /\ Cardinality(Sonneries) \in Nat /\ Cardinality(EnVenue) \in Nat
      /\ IsFiniteSet(EnVenue) /\ EnVenue \subseteq envois /\ IsFiniteSet(Ids)
      /\ EnChemin("cloche")' => comptages' = {}
  BY AvantClocheVrai, SonneriesVraies
<1> DEFINE D == {i \in Ids : messages[i].a = moi /\ ~messages[i].lu}
<1>9. CASE a = moi
  <2>1. EnVenue' = EnVenue \cup {f}
    BY <1>1, <1>2, <1>9 DEF EnVenue
  <2>2. f \notin EnVenue
    BY <1>5, <1>8
  <2>3. Cardinality(EnVenue)' = Cardinality(EnVenue) + 1
    BY <1>8, <2>1, <2>2, FS_AddElement
  <2>4. {i \in Ids' : messages'[i].a = moi' /\ ~messages'[i].lu} = D \cup {N}
    <3>1. ASSUME NEW i
          PROVE  (i \in Ids' /\ messages'[i].a = moi' /\ ~messages'[i].lu) <=> i \in D \cup {N}
      <4>1. CASE i \in Ids
        BY <1>2, <1>4, <4>1
      <4>2. CASE i = N
        BY <1>2, <1>4, <1>9, <4>2
      <4>3. CASE i \notin Ids /\ i # N
        BY <1>4, <4>3
      <4> QED
        BY <4>1, <4>2, <4>3
    <3> HIDE DEF D
    <3> QED
      BY <3>1
  <2>5. D \in SUBSET Ids /\ N \notin D
    BY <1>4
  <2>6. IsFiniteSet(D)
    BY <1>8, <2>5, FS_Subset
  <2>7. DirectsNonLus' = DirectsNonLus + 1
    BY <2>4, <2>5, <2>6, FS_AddElement DEF DirectsNonLus
  <2>8. comptages' = {}
    <3>1. EnChemin("cloche")'
      BY <1>1, <1>2, <1>9 DEF EnChemin
    <3> QED
      BY <1>8, <3>1
  <2> QED
    <3>1. ANouveau' = ANouveau + 1
      BY <1>7, <1>8, <2>7 DEF ANouveau
    <3>2. Somme' = Somme + 1
      BY <1>2, <1>6, <1>8, <2>3 DEF Somme
    <3> QED
      BY <1>2, <2>8, <3>1, <3>2 DEF Accord
<1>10. CASE a # moi
  <2>1. EnVenue' = EnVenue
    <3>1. ~(f.a = moi \/ (f.a = Tous /\ f.pc = "emettre" /\ f.de # moi))
      BY <1>1, <1>10
    <3> QED
      BY <1>2, <3>1 DEF EnVenue
  <2>2. {i \in Ids' : messages'[i].a = moi' /\ ~messages'[i].lu} = D
    <3>1. ASSUME NEW i
          PROVE  (i \in Ids' /\ messages'[i].a = moi' /\ ~messages'[i].lu) <=> i \in D
      <4>1. CASE i \in Ids
        BY <1>2, <1>4, <4>1
      <4>2. CASE i = N
        BY <1>2, <1>4, <1>10, <4>2
      <4>3. CASE i \notin Ids /\ i # N
        BY <1>4, <4>3
      <4> QED
        BY <4>1, <4>2, <4>3
    <3> HIDE DEF D
    <3> QED
      BY <3>1
  <2>3. DirectsNonLus' = DirectsNonLus
    BY <2>2 DEF DirectsNonLus
  <2> QED
    BY <1>2, <1>6, <1>7, <2>1, <2>3 DEF Accord, Somme, ANouveau
<1> QED
  BY <1>9, <1>10

\* The readers of a broadcast are written: moi has one more to read, and one more
\* message that will ring, unless moi sent it.
LEMMA ClocheLectures ==
  ASSUME MessagerieAssumption, BoitesAssumption, AvantCloche, NEW e \in envois,
         Lectures(e), UNCHANGED <<cloche, vue, demandes>>
  PROVE  Accord
<1> DEFINE Rangees == {[m |-> e.m, qui |-> p, lu |-> FALSE] : p \in Personnes \ {e.de}}
<1>1. PICK f : f = [e EXCEPT !.pc = "emettre"]
  OBVIOUS
<1>2. /\ lectures' = lectures \cup Rangees /\ envois' = (envois \ {e}) \cup {f}
      /\ UNCHANGED <<moi, messages, file, compte, connu, comptages>> /\ e.pc = "lectures"
  BY <1>1 DEF Lectures, Avance, cloche, reseau
<1>3. /\ e.a = Tous /\ moi \in Personnes /\ Tous \notin Personnes
      /\ f.m = e.m /\ f.pc = "emettre" /\ f.a = e.a /\ f.de = e.de
  BY <1>1, <1>2, Constantes
     DEF AvantCloche, PagesJustes, EnvoiJuste, FormesServeur, EnvoiT
<1>4. /\ compte \in Nat /\ DirectsNonLus \in Nat /\ DiffusionsNonLues \in Nat
      /\ Cardinality(Sonneries) \in Nat /\ Cardinality(EnVenue) \in Nat
      /\ IsFiniteSet(EnVenue) /\ EnVenue \subseteq envois /\ IsFiniteSet(lectures)
      /\ comptages = {}
  <2>1. EnChemin("cloche")
    BY <1>3 DEF EnChemin
  <2> QED
    BY <2>1, AvantClocheVrai, SonneriesVraies
<1>5. Sonneries' = Sonneries /\ DirectsNonLus' = DirectsNonLus
  BY <1>2 DEF Sonneries, Sonne, DirectsNonLus, Ids
<1>6. e \notin EnVenue
  BY <1>2, <1>3 DEF EnVenue
<1> DEFINE L == {l \in lectures : l.qui = moi /\ ~l.lu}
<1>7. CASE e.de # moi
  <2>1. PICK k : k = [m |-> e.m, qui |-> moi, lu |-> FALSE]
    OBVIOUS
  <2>2. k \in Rangees /\ k.qui = moi /\ ~k.lu /\ k.m = e.m
    BY <1>3, <1>7, <2>1
  <2>3. \A l \in Rangees : l.qui = moi => l = k
    BY <2>1
  <2>4. k \notin lectures
    BY <1>2, <2>2 DEF AvantCloche, FormesEnvois
  <2>5. {l \in lectures' : l.qui = moi' /\ ~l.lu} = L \cup {k}
    BY <1>2, <2>2, <2>3
  <2>6. L \in SUBSET lectures /\ k \notin L
    BY <2>4
  <2>7. IsFiniteSet(L)
    BY <1>4, <2>6, FS_Subset
  <2>8. DiffusionsNonLues' = DiffusionsNonLues + 1
    BY <2>5, <2>6, <2>7, FS_AddElement DEF DiffusionsNonLues
  <2>9. EnVenue' = EnVenue \cup {f}
    BY <1>2, <1>3, <1>6, <1>7 DEF EnVenue
  <2>10. f \notin EnVenue
    <3>1. \A g \in EnVenue : g.m # f.m
      BY <1>3, <1>4, <1>6 DEF AvantCloche, FormesEnvois
    <3> QED
      BY <3>1
  <2>11. Cardinality(EnVenue)' = Cardinality(EnVenue) + 1
    BY <1>4, <2>9, <2>10, FS_AddElement
  <2> QED
    BY <1>2, <1>4, <1>5, <2>8, <2>11 DEF Accord, Somme, ANouveau
<1>8. CASE e.de = moi
  <2>1. {l \in lectures' : l.qui = moi' /\ ~l.lu} = L
    BY <1>2, <1>8
  <2>2. DiffusionsNonLues' = DiffusionsNonLues
    BY <2>1 DEF DiffusionsNonLues
  <2>3. EnVenue' = EnVenue
    BY <1>2, <1>3, <1>6, <1>8 DEF EnVenue
  <2> QED
    BY <1>2, <1>5, <2>2, <2>3 DEF Accord, Somme, ANouveau
<1> QED
  BY <1>7, <1>8

\* A message is emitted: if it was to ring, it is now in the queue of the bell.
LEMMA ClocheEmettre ==
  ASSUME MessagerieAssumption, BoitesAssumption, AvantCloche, NEW e \in envois,
         Emettre(e), UNCHANGED <<cloche, vue, demandes>>
  PROVE  Accord
<1>1. /\ envois' = envois \ {e} /\ e.pc = "emettre"
      /\ UNCHANGED <<moi, messages, lectures, prise, compte, connu, comptages>>
      /\ file' = [s \in DOMAIN prise |->
                    IF Recoit(s, e) THEN Append(file[s], e.m) ELSE file[s]]
  BY DEF Emettre, cloche
<1>2. PICK n : n = Len(file["cloche"])
  OBVIOUS
<1>3. /\ prise \in [Actifs -> Etats] /\ "cloche" \in Actifs /\ compte \in Nat
      /\ DirectsNonLus \in Nat /\ DiffusionsNonLues \in Nat
      /\ Cardinality(Sonneries) \in Nat /\ Cardinality(EnVenue) \in Nat
      /\ IsFiniteSet(EnVenue) /\ IsFiniteSet(Sonneries) /\ Sonneries \subseteq 1..n
      /\ file["cloche"] \in Seq(Nat) /\ DOMAIN file["cloche"] = 1..n /\ n \in Nat
      /\ moi \in Personnes /\ Tous \notin Personnes
  BY <1>2, AvantClocheVrai, SonneriesVraies, Constantes
     DEF AvantCloche, PagesJustes, FormesServeur
<1>4. /\ messages[e.m].de = e.de /\ messages[e.m].a = e.a /\ e.m \in Ids
      /\ e.a \in Personnes \cup {Tous} /\ e.m \in Nat
  BY DEF AvantCloche, PagesJustes, EnvoiJuste, FormesServeur, EnvoiT
<1>5. file'["cloche"] = IF Recoit("cloche", e) THEN Append(file["cloche"], e.m)
                                              ELSE file["cloche"]
  BY <1>1, <1>3
<1>6. ASSUME e.a = Tous \/ e.a = moi
      PROVE  connu /\ prise["cloche"] = "jointe" /\ comptages = {} /\ Recoit("cloche", e)
  <2>1. EnChemin("cloche")
    BY <1>6 DEF EnChemin
  <2>2. connu /\ prise["cloche"] = "jointe" /\ comptages = {}
    BY <2>1, AvantClocheVrai
  <2> QED
    BY <1>6, <2>2 DEF Recoit
<1>7. DirectsNonLus' = DirectsNonLus /\ DiffusionsNonLues' = DiffusionsNonLues
  BY <1>1 DEF DirectsNonLus, DiffusionsNonLues, Ids
<1>8. ANouveau' = ANouveau /\ ANouveau \in Nat
  BY <1>3, <1>7 DEF ANouveau
<1>9. ASSUME file'["cloche"] = Append(file["cloche"], e.m)
      PROVE  /\ Sonne(messages[e.m]) => Sonneries' = Sonneries \cup {n+1}
             /\ ~Sonne(messages[e.m]) => Sonneries' = Sonneries
  <2>1. DOMAIN file'["cloche"] = 1..(n+1) /\ file'["cloche"][n+1] = e.m
        /\ \A k \in 1..n : file'["cloche"][k] = file["cloche"][k]
    BY <1>2, <1>3, <1>4, <1>9
  <2>2. Sonneries' = {k \in 1..(n+1) : Sonne(messages[file'["cloche"][k]])}
    BY <1>1, <2>1 DEF Sonneries, Sonne
  <2>3. Sonneries = {k \in 1..n : Sonne(messages[file["cloche"][k]])}
    BY <1>3 DEF Sonneries
  <2>4. \A k \in 1..(n+1) : k \in 1..n \/ k = n+1
    BY <1>3
  <2>5. 1..n \subseteq 1..(n+1) /\ n+1 \in 1..(n+1) /\ n+1 \notin 1..n
    BY <1>3
  <2>6. ASSUME NEW k
        PROVE  k \in Sonneries' <=> k \in Sonneries \/ (k = n+1 /\ Sonne(messages[e.m]))
    <3>1. CASE k \in 1..n
      BY <2>1, <2>2, <2>3, <2>5, <3>1
    <3>2. CASE k = n+1
      BY <2>1, <2>2, <2>3, <2>5, <3>2
    <3>3. CASE k \notin 1..(n+1)
      BY <2>2, <2>3, <2>5, <3>3
    <3> QED
      BY <2>4, <3>1, <3>2, <3>3
  <2>7. ASSUME Sonne(messages[e.m])
        PROVE  Sonneries' = Sonneries \cup {n+1}
    <3>1. \A k : k \in Sonneries' <=> k \in Sonneries \/ k = n+1
      BY <2>6, <2>7
    <3> QED
      BY <3>1
  <2>8. ASSUME ~Sonne(messages[e.m])
        PROVE  Sonneries' = Sonneries
    <3>1. \A k : k \in Sonneries' <=> k \in Sonneries
      BY <2>6, <2>8
    <3> QED
      BY <2>2, <2>3, <3>1
  <2> QED
    BY <2>7, <2>8
<1>10. CASE e \in EnVenue
  <2>1. e.a = moi \/ (e.a = Tous /\ e.de # moi)
    BY <1>10 DEF EnVenue
  <2>2. e.de # e.a
    BY <1>4 DEF AvantCloche, FormesEnvois
  <2>3. Sonne(messages[e.m])
    BY <1>4, <1>6, <2>1, <2>2 DEF Sonne
  <2>4. Sonneries' = Sonneries \cup {n+1} /\ n+1 \notin Sonneries
    BY <1>3, <1>5, <1>6, <1>9, <2>1, <2>3
  <2>5. Cardinality(Sonneries)' = Cardinality(Sonneries) + 1
    BY <1>3, <2>4, FS_AddElement
  <2>6. EnVenue' = EnVenue \ {e}
    BY <1>1 DEF EnVenue
  <2>7. Cardinality(EnVenue)' = Cardinality(EnVenue) - 1
    BY <1>3, <1>10, <2>6, FS_RemoveElement
  <2>8. Somme' = Somme
    BY <1>1, <1>3, <2>5, <2>7 DEF Somme
  <2> QED
    BY <1>1, <1>8, <2>8 DEF Accord
<1>11. CASE e \notin EnVenue
  <2>1. EnVenue' = EnVenue
    BY <1>1, <1>11 DEF EnVenue
  <2>2. ~Sonne(messages[e.m])
    <3>1. e.a # moi /\ (e.a = Tous => e.de = moi)
      BY <1>1, <1>11 DEF EnVenue
    <3> QED
      BY <1>4, <1>6, <3>1 DEF Sonne
  <2>3. Sonneries' = Sonneries
    <3>1. CASE Recoit("cloche", e)
      BY <1>5, <1>9, <2>2, <3>1
    <3>2. CASE ~Recoit("cloche", e)
      BY <1>1, <1>5, <3>2 DEF Sonneries, Sonne
    <3> QED
      BY <3>1, <3>2
  <2> QED
    BY <1>1, <1>8, <2>1, <2>3 DEF Accord, Somme
<1> QED
  BY <1>10, <1>11

\* The bell takes an event.
LEMMA ClocheLivrer ==
  ASSUME MessagerieAssumption, BoitesAssumption, AvantCloche, Livrer("cloche")
  PROVE  Accord
<1>1. PICK n : n = Len(file["cloche"])
  OBVIOUS
<1>2. /\ file["cloche"] # << >> /\ file' = [file EXCEPT !["cloche"] = Tail(@)]
      /\ compte' = compte + IF Sonne(messages[Head(file["cloche"])]) THEN 1 ELSE 0
      /\ UNCHANGED <<moi, messages, lectures, envois, connu, comptages>>
  BY DEF Livrer, EcouteCloche, serveur
<1>3. /\ file \in [Actifs -> Seq(Nat)] /\ "cloche" \in Actifs /\ compte \in Nat
      /\ DirectsNonLus \in Nat /\ DiffusionsNonLues \in Nat
      /\ Cardinality(Sonneries) \in Nat /\ Cardinality(EnVenue) \in Nat
      /\ Sonneries \in SUBSET (1..n) /\ file["cloche"] \in Seq(Nat)
      /\ DOMAIN file["cloche"] = 1..n /\ n \in Nat /\ n # 0
  BY <1>1, <1>2, AvantClocheVrai, SonneriesVraies DEF AvantCloche
<1>4. comptages = {}
  <2>1. EnChemin("cloche")
    BY <1>2 DEF EnChemin
  <2> QED
    BY <2>1, AvantClocheVrai
<1>5. file'["cloche"] = Tail(file["cloche"])
  BY <1>2, <1>3
<1>6. /\ DOMAIN file'["cloche"] = 1..(n-1)
      /\ \A k \in 1..(n-1) : file'["cloche"][k] = file["cloche"][k+1]
      /\ Head(file["cloche"]) = file["cloche"][1]
  BY <1>1, <1>3, <1>5
<1>7. Sonneries' = {k \in 1..(n-1) : Sonne(messages[file'["cloche"][k]])}
  BY <1>2, <1>6 DEF Sonneries, Sonne
<1>8. Sonneries = {k \in 1..n : Sonne(messages[file["cloche"][k]])}
  BY <1>3 DEF Sonneries
<1>9. Sonneries' = {k \in 1..(n-1) : k+1 \in Sonneries}
  <2>1. ASSUME NEW k \in 1..(n-1)
        PROVE  k+1 \in Sonneries <=> Sonne(messages[file'["cloche"][k]])
    <3>1. k+1 \in 1..n
      BY <1>3
    <3> QED
      BY <1>6, <1>8, <3>1
  <2> QED
    BY <1>7, <2>1
<1>10. 1 \in Sonneries <=> Sonne(messages[Head(file["cloche"])])
  <2>1. 1 \in 1..n
    BY <1>3
  <2> QED
    BY <1>6, <1>8, <2>1
<1>11. compte' + Cardinality(Sonneries)' = compte + Cardinality(Sonneries)
       /\ compte' \in Nat /\ Cardinality(Sonneries)' \in Nat
  <2>1. /\ 1 \in Sonneries => Cardinality(Sonneries) = Cardinality(Sonneries)' + 1
        /\ 1 \notin Sonneries => Cardinality(Sonneries) = Cardinality(Sonneries)'
    <3>1. n \in Nat /\ Sonneries \in SUBSET (1..n)
      BY <1>3
    <3> QED
      BY <1>9, <3>1, Decale
  <2>2. Cardinality(Sonneries)' \in Nat
    <3>1. Sonneries' \in SUBSET (1..(n-1)) /\ IsFiniteSet(1..(n-1))
      <4>1. 1 \in Int /\ n-1 \in Int
        BY <1>3
      <4> QED
        BY <1>9, <4>1, FS_Interval
    <3>2. PICK T : T = Sonneries'
      OBVIOUS
    <3>3. IsFiniteSet(T)
      <4>1. PICK U : U = 1..(n-1)
        OBVIOUS
      <4>2. IsFiniteSet(U) /\ T \in SUBSET U
        BY <3>1, <3>2, <4>1
      <4> QED
        BY <4>2, FS_Subset
    <3>4. Cardinality(T) \in Nat
      BY <3>3, FS_CardinalityType
    <3> QED
      BY <3>2, <3>4
  <2>3. CASE 1 \in Sonneries
    BY <1>2, <1>3, <1>10, <2>1, <2>2, <2>3
  <2>4. CASE 1 \notin Sonneries
    BY <1>2, <1>3, <1>10, <2>1, <2>2, <2>4
  <2> QED
    BY <2>3, <2>4
<1>12. /\ DirectsNonLus' = DirectsNonLus /\ DiffusionsNonLues' = DiffusionsNonLues
       /\ EnVenue' = EnVenue
  BY <1>2 DEF DirectsNonLus, DiffusionsNonLues, EnVenue, Ids
<1>13. ANouveau' = ANouveau
  BY <1>12 DEF ANouveau
<1>14. Somme' = Somme
  BY <1>3, <1>11, <1>12 DEF Somme
<1> QED
  BY <1>2, <1>13, <1>14 DEF Accord

\* Reading leaves less to read.
LEMMA MarqueMoins ==
  ASSUME MessagerieAssumption, FormesServeur, NEW c, Marque(c), UNCHANGED moi
  PROVE  ANouveau' \in Nat /\ ANouveau' \leq ANouveau
<1> DEFINE D == {i \in Ids : messages[i].a = moi /\ ~messages[i].lu}
           L == {l \in lectures : l.qui = moi /\ ~l.lu}
           E == {i \in Ids' : messages'[i].a = moi' /\ ~messages'[i].lu}
           M == {l \in lectures' : l.qui = moi' /\ ~l.lu}
<1>1. E \subseteq D
  <2>1. Ids' = Ids
        /\ \A i \in Ids : messages'[i].a = messages[i].a
                         /\ (messages[i].lu => messages'[i].lu)
    BY MarqueStable
  <2> QED
    BY <2>1
<1>2. M \subseteq L
  <2>1. CASE c # Tous
    BY <2>1 DEF Marque
  <2>2. CASE c = Tous
    <3>1. lectures' = {[l EXCEPT !.lu = @ \/ l.qui = moi] : l \in lectures}
      BY <2>2 DEF Marque
    <3>2. ASSUME NEW l \in M
          PROVE  FALSE
      <4>1. PICK k \in lectures : l = [k EXCEPT !.lu = @ \/ k.qui = moi]
        BY <3>1
      <4>2. k \in [m : Ids, qui : Personnes, lu : BOOLEAN]
        BY DEF FormesServeur
      <4>3. PICK v : v = (k.lu \/ k.qui = moi)
        OBVIOUS
      <4>4. l = [k EXCEPT !.lu = v]
        BY <4>1, <4>3
      <4>5. l.qui = k.qui /\ l.lu = v
        BY <4>2, <4>4
      <4> QED
        BY <4>3, <4>5
    <3> QED
      BY <3>2
  <2> QED
    BY <2>1, <2>2
<1>3. IsFiniteSet(Ids) /\ IsFiniteSet(lectures)
  BY LecturesFinies
<1>4. D \in SUBSET Ids /\ L \in SUBSET lectures
  OBVIOUS
<1>5. IsFiniteSet(D) /\ IsFiniteSet(L)
  BY <1>3, <1>4, FS_Subset
<1> HIDE DEF D, L, E, M
<1>6. /\ IsFiniteSet(E) /\ Cardinality(E) \leq Cardinality(D)
      /\ IsFiniteSet(M) /\ Cardinality(M) \leq Cardinality(L)
  BY <1>1, <1>2, <1>5, FS_Subset
<1>7. /\ Cardinality(D) \in Nat /\ Cardinality(L) \in Nat
      /\ Cardinality(E) \in Nat /\ Cardinality(M) \in Nat
  BY <1>5, <1>6, FS_CardinalityType
<1>8. /\ ANouveau = Cardinality(D) + Cardinality(L)
      /\ ANouveau' = Cardinality(E) + Cardinality(M)
  BY DEF ANouveau, DirectsNonLus, DiffusionsNonLues, D, L, E, M
<1> QED
  BY <1>6, <1>7, <1>8

\* Every step that does not disturb the bell keeps what it shows right.
LEMMA ClocheNext ==
  ASSUME MessagerieAssumption, BoitesAssumption, AvantCloche, FormesCalme, Etape
  PROVE  (Libre' => Compteur') /\ Plancher'
<1> DEFINE But == (Libre' => Compteur') /\ Plancher'
<1>0. /\ UNCHANGED <<moi, ecran>> /\ pannes \in Nat /\ ~(pannes' > pannes)
      /\ "cloche" \in Actifs /\ "cloche" \notin ecran
      /\ PagesJustes /\ file \in [Actifs -> Seq(Nat)]
      /\ \A r, q \in comptages : r = q
      /\ \A r, q \in comptages' : r = q
  BY AvantClocheVrai DEF AvantCloche
<1>1. (Libre => Compteur) /\ Somme \in Nat /\ ANouveau \in Nat /\ Plancher
  BY SommesEntieres DEF AvantCloche
<1>2. ASSUME PanneDe
      PROVE  FALSE
  BY <1>0, <1>2 DEF PanneDe
<1>3. ASSUME UNCHANGED <<messages, lectures, envois, compte, connu, comptages>>,
             file'["cloche"] = file["cloche"],
             \A r \in demandes : r.pc = "repondre" => r \in demandes'
      PROVE  But
  <2>1. Libre' => Libre
    BY <1>3 DEF Libre
  <2>2. Accord
    BY <1>3, ClocheMeme
  <2> QED
    BY <2>1, <2>2, AccordVrai
<1>17. ASSUME Accord, UNCHANGED demandes
       PROVE  But
  <2>1. Libre' => Libre
    BY <1>17 DEF Libre
  <2> QED
    BY <1>17, <2>1, AccordVrai
<1>4. CASE GatewayNext /\ UNCHANGED <<cloche, vue, demandes>>
  <2>1. ASSUME NEW b \in DOMAIN prise, HandleConnection(b)
        PROVE  But
    <3>1. UNCHANGED <<messages, lectures, envois, compte, connu, comptages, file, demandes>>
      BY <1>4, <2>1 DEF HandleConnection, serveur, cloche
    <3> QED
      BY <1>3, <3>1
  <2>2. ASSUME NEW b \in DOMAIN prise, Refuser(b)
        PROVE  But
    BY <1>2, <2>2 DEF Refuser
  <2>3. ASSUME NEW e \in envois, Lectures(e)
        PROVE  But
    BY <1>4, <1>17, <2>3, ClocheLectures
  <2>4. ASSUME NEW e \in envois, Emettre(e)
        PROVE  But
    BY <1>4, <1>17, <2>4, ClocheEmettre
  <2>5. ASSUME NEW e \in envois, Interrompre(e)
        PROVE  But
    BY <1>2, <2>5 DEF Interrompre
  <2> QED
    BY <1>4, <2>1, <2>2, <2>3, <2>4, <2>5 DEF GatewayNext
<1>5. ASSUME NEW b \in Actifs, Livrer(b)
      PROVE  But
  <2>1. CASE b = "cloche"
    <3>1. UNCHANGED demandes
      BY <1>5 DEF Livrer
    <3> QED
      BY <1>5, <1>17, <2>1, <3>1, ClocheLivrer
  <2>2. CASE b \in ecran
    <3>1. /\ UNCHANGED <<messages, envois, demandes, compte>>
          /\ file' = [file EXCEPT ![b] = Tail(@)]
      BY <1>0, <1>5, <2>2, EvenementVrai
    <3>2. UNCHANGED <<lectures, connu, comptages>>
      BY <1>5 DEF Livrer, serveur
    <3>3. file'["cloche"] = file["cloche"]
      BY <1>0, <2>2, <3>1
    <3> QED
      BY <1>3, <3>1, <3>2, <3>3
  <2> QED
    BY <2>1, <2>2 DEF Actifs
<1>6. CASE Renouveler
  <2>1. /\ UNCHANGED <<moi, messages, lectures, envois, compte, comptages, demandes>>
        /\ prise' = [s \in Actifs |-> "ouverte"] /\ file' = [s \in Actifs |-> << >>]
    BY <1>6 DEF Renouveler, serveur, cloche
  <2>2. prise'["cloche"] = "ouverte" /\ file'["cloche"] = << >>
    BY <1>0, <2>1
  <2>3. ~EnChemin("cloche")
    BY <2>2, AvantClocheVrai
  <2>4. Sonneries = {}
    BY <2>3, SonneriesVraies
  <2>5. Sonneries' = {}
    BY <2>2 DEF Sonneries
  <2>6. Accord
    BY <2>1, <2>4, <2>5, CompteurMeme
  <2> QED
    BY <1>17, <2>1, <2>6
<1>7. CASE MoiConnu
  <2>1. /\ UNCHANGED <<moi, messages, lectures, envois, compte, comptages, demandes>>
        /\ ~connu /\ file' = [file EXCEPT !["cloche"] = << >>]
    BY <1>7 DEF MoiConnu, serveur
  <2>2. file'["cloche"] = << >>
    BY <1>0, <2>1
  <2>3. ~EnChemin("cloche")
    BY <2>1, AvantClocheVrai
  <2>4. Sonneries = {}
    BY <2>3, SonneriesVraies
  <2>5. Sonneries' = {}
    BY <2>2 DEF Sonneries
  <2>6. Accord
    BY <2>1, <2>4, <2>5, CompteurMeme
  <2> QED
    BY <1>17, <2>1, <2>6
<1>8. CASE Echouer
  BY <1>2, <1>8 DEF Echouer
<1>9. ASSUME NEW r \in comptages, Compter(r)
      PROVE  But
  <2>1. PICK q : q = [r EXCEPT !.total = DirectsNonLus + DiffusionsNonLues]
    OBVIOUS
  <2>2. /\ comptages' = (comptages \ {r}) \cup {q}
        /\ UNCHANGED <<moi, messages, lectures>>
    BY <1>9, <2>1 DEF Compter, serveur
  <2>3. r \in ComptageT
    BY <1>0 DEF PagesJustes, FormesCloche
  <2>4. q.total = ANouveau
    BY <2>1, <2>3 DEF ComptageT, ANouveau
  <2>5. ANouveau' = ANouveau
    BY <2>2 DEF ANouveau, DirectsNonLus, DiffusionsNonLues, Ids
  <2>6. comptages' # {} /\ \A p \in comptages' : p = q
    BY <1>0, <2>2
  <2>7. Somme' = Somme
    <3>1. UNCHANGED <<moi, messages, envois, file, compte, connu>>
      BY <1>9 DEF Compter, serveur, reseau
    <3>2. Sonneries' = Sonneries /\ EnVenue' = EnVenue
      BY <3>1 DEF Sonneries, Sonne, EnVenue
    <3> QED
      BY <3>1, <3>2 DEF Somme
  <2>8. Compteur'
    BY <2>4, <2>5, <2>6 DEF Compteur
  <2>9. Plancher'
    BY <1>1, <2>4, <2>5, <2>6, <2>7 DEF Plancher
  <2> QED
    BY <2>8, <2>9
<1>18. ASSUME NEW r \in comptages, CompterRefuse(r)
       PROVE  But
  <2>1. /\ comptages' = comptages \ {r} /\ ecoute' = "perimee"
        /\ UNCHANGED <<moi, messages, lectures, envois, file, compte, connu>>
    BY <1>18 DEF CompterRefuse, serveur, reseau
  <2>2. comptages' = {}
    BY <1>0, <2>1
  <2>3. ANouveau' = ANouveau
    BY <2>1 DEF ANouveau, DirectsNonLus, DiffusionsNonLues, Ids
  <2>4. Sonneries' = Sonneries /\ EnVenue' = EnVenue
    BY <2>1 DEF Sonneries, Sonne, EnVenue
  <2>5. Somme' = Somme
    BY <2>1, <2>4 DEF Somme
  <2>6. Plancher'
    BY <1>1, <2>2, <2>3, <2>5 DEF Plancher
  <2>7. Compteur'
    BY <2>1, <2>2 DEF Compteur
  <2> QED
    BY <2>6, <2>7
<1>10. ASSUME NEW r \in comptages, RepondreCompte(r)
       PROVE  But
  <2>1. /\ r.total # -1 /\ compte' = r.total /\ comptages' = comptages \ {r}
        /\ UNCHANGED <<moi, messages, lectures, envois, file, connu, demandes>>
    BY <1>10 DEF RepondreCompte, serveur, reseau
  <2>2. comptages' = {}
    BY <1>0, <2>1
  <2>3. (Libre' => r.total = ANouveau) /\ r.total >= ANouveau
    <3>1. Libre' => Libre
      BY <2>1 DEF Libre
    <3> QED
      BY <1>1, <2>1, <3>1 DEF Compteur, Plancher
  <2>10. r.total \in Nat
    BY <1>0, <2>1 DEF PagesJustes, FormesCloche, ComptageT
  <2>4. ANouveau' = ANouveau
    BY <2>1 DEF ANouveau, DirectsNonLus, DiffusionsNonLues, Ids
  <2>5. ~EnChemin("cloche")
    BY AvantClocheVrai
  <2>6. Sonneries' = {} /\ EnVenue' = {}
    <3>1. Sonneries' = Sonneries /\ EnVenue' = EnVenue
      BY <2>1 DEF Sonneries, Sonne, EnVenue
    <3> QED
      BY <2>5, <3>1, SonneriesVraies
  <2>7. Cardinality(Sonneries') = 0 /\ Cardinality(EnVenue') = 0
    BY <2>6, FS_EmptySet
  <2>8. Somme' = r.total
    BY <2>1, <2>7, <2>10 DEF Somme
  <2>9. Libre' => Compteur'
    BY <2>2, <2>3, <2>4, <2>8 DEF Compteur
  <2>11. Plancher'
    BY <2>2, <2>3, <2>4, <2>8 DEF Plancher
  <2> QED
    BY <2>9, <2>11
<1>11. ASSUME NEW b \in ecran, NEW c, NEW o, Passer(b, c, o)
       PROVE  But
  <2>1. UNCHANGED <<messages, lectures, envois, comptages, file, compte, connu>>
    BY <1>0, <1>11, PasserChoix
  <2>2. \A r \in demandes : r \in demandes'
    BY <1>11 DEF Passer, Demander
  <2> QED
    BY <1>3, <2>1, <2>2
<1>12. CASE Gestes
  <2>1. CASE MonterBoite
    BY <1>11, <2>1 DEF MonterBoite
  <2>2. CASE MonterBulle
    BY <1>11, <2>2 DEF MonterBulle
  <2>3. CASE BasculerBulle
    BY <1>11, <2>3 DEF BasculerBulle
  <2>4. CASE BasculerLivreur
    <3>1. CASE ~vue["livreur"].ouvert
      BY <1>11, <2>4, <3>1 DEF BasculerLivreur
    <3>2. CASE vue["livreur"].ouvert
      <4>1. UNCHANGED <<messages, lectures, envois, comptages, file, compte, connu, demandes>>
        BY <2>4, <3>2 DEF BasculerLivreur, serveur, cloche, reseau
      <4> QED
        BY <1>3, <4>1
    <3> QED
      BY <3>1, <3>2
  <2>5. ASSUME NEW c \in Personnes \cup {Tous}, ChoisirBoite(c) \/ ChoisirAdmin(c)
        PROVE  But
    BY <1>11, <2>5 DEF ChoisirBoite, ChoisirAdmin
  <2>6. CASE \/ "boite" \in ecran /\ EnvoyerBoite
             \/ "bulle" \in ecran /\ EnvoyerBulle
             \/ "livreur" \in ecran /\ EnvoyerLivreur
             \/ "admin" \in ecran /\ EnvoyerAdmin
    <3>1. \E a : HandleMessage(moi, a) /\ UNCHANGED <<cloche, vue, demandes>>
      BY <2>6 DEF EnvoyerBoite, EnvoyerBulle, EnvoyerLivreur, EnvoyerAdmin, Envoyer
    <3> QED
      BY <1>17, <3>1, ClocheMessage
  <2> QED
    BY <1>12, <2>1, <2>2, <2>3, <2>4, <2>5, <2>6 DEF Gestes
<1>13. ASSUME NEW c \in Courriers, AutreEnvoie(c[1], c[2])
       PROVE  But
  <2>1. HandleMessage(c[1], c[2]) /\ UNCHANGED <<cloche, vue, demandes>>
    BY <1>13 DEF AutreEnvoie
  <2>2. UNCHANGED demandes
    BY <2>1
  <2>3. Accord
    BY <2>1, ClocheMessage
  <2> QED
    BY <2>2, <2>3, <1>17
<1>14. ASSUME NEW r \in demandes, Lire(r)
       PROVE  But
  <2>1. /\ UNCHANGED <<messages, lectures, envois, comptages, file, compte, connu>>
        /\ r.pc = "lire" /\ \A d \in demandes : d # r => d \in demandes'
    BY <1>14 DEF Lire, Suite, serveur, reseau, cloche
  <2> QED
    BY <1>3, <2>1
<1>15. ASSUME NEW r \in demandes, Marquer(r)
       PROVE  But
  <2>1. PICK q : q = [r EXCEPT !.pc = "repondre"]
    OBVIOUS
  <2>2. q \in demandes'
    BY <1>15, <2>1 DEF Marquer, Suite
  <2>3. q.pc = "repondre"
    BY <1>0, <2>1 DEF PagesJustes, FormesPages, DemandeT
  <2>4. ~Libre'
    BY <2>2, <2>3 DEF Libre
  <2>5. /\ Marque(r.avec) /\ FormesServeur
        /\ UNCHANGED <<moi, envois, file, compte, connu, comptages>>
    BY <1>0, <1>15 DEF Marquer, reseau, cloche, PagesJustes
  <2>6. ANouveau' \in Nat /\ ANouveau' \leq ANouveau
    BY <2>5, MarqueMoins
  <2>7. Sonneries' = Sonneries
    <3>1. /\ DOMAIN file["cloche"] = 1..Len(file["cloche"])
          /\ \A k \in 1..Len(file["cloche"]) : file["cloche"][k] \in Ids
      BY SonneriesVraies
    <3>2. \A i \in Ids : messages'[i].de = messages[i].de /\ messages'[i].a = messages[i].a
      BY <2>5, MarqueStable
    <3> QED
      BY <2>5, <3>1, <3>2 DEF Sonneries, Sonne
  <2>8. EnVenue' = EnVenue
    BY <2>5 DEF EnVenue
  <2>9. Somme' = Somme
    BY <2>5, <2>7, <2>8 DEF Somme
  <2>10. ASSUME NEW p \in comptages', p.total # -1
         PROVE  p.total >= ANouveau'
    <3>1. p.total \in Nat
      BY <1>0, <2>5, <2>10 DEF PagesJustes, FormesCloche, ComptageT
    <3>2. p.total >= ANouveau
      BY <1>1, <2>5, <2>10 DEF Plancher
    <3> QED
      BY <1>1, <2>6, <3>1, <3>2
  <2>11. Somme' >= ANouveau'
    BY <1>1, <2>6, <2>9 DEF Plancher
  <2>12. Plancher'
    BY <2>10, <2>11 DEF Plancher
  <2> QED
    BY <2>4, <2>12
<1>16. ASSUME NEW r \in demandes, Repondre(r)
       PROVE  But
  <2>1. PICK q : q = [n |-> r.n, total |-> -1]
    OBVIOUS
  <2>2. comptages' = comptages \cup {q}
    BY <1>16, <2>1 DEF Repondre
  <2>3. q.total = -1 /\ comptages' # {} /\ \A p \in comptages' : p = q
    BY <1>0, <2>1, <2>2
  <2>4. Compteur'
    BY <2>3 DEF Compteur
  <2>5. UNCHANGED <<moi, messages, lectures, envois, file, compte, connu>>
    BY <1>16 DEF Repondre, serveur, reseau
  <2>6. Sonneries' = Sonneries /\ EnVenue' = EnVenue
    BY <2>5 DEF Sonneries, Sonne, EnVenue
  <2>7. Somme' = Somme
    BY <2>5, <2>6 DEF Somme
  <2>8. ANouveau' = ANouveau
    BY <2>5 DEF ANouveau, DirectsNonLus, DiffusionsNonLues, Ids
  <2>9. Plancher'
    BY <1>1, <2>3, <2>7, <2>8 DEF Plancher
  <2> QED
    BY <2>4, <2>9
<1> QED
  BY <1>4, <1>5, <1>6, <1>7, <1>8, <1>9, <1>10, <1>12, <1>13, <1>14, <1>15, <1>16, <1>18
     DEF Etape

LEMMA InitCloche ==
  ASSUME MessagerieAssumption, BoitesAssumption, Init
  PROVE  ClocheCalme
<1>1. /\ messages = << >> /\ lectures = {} /\ envois = {} /\ compte = 0
      /\ file = [s \in Actifs |-> << >>] /\ ecoute = "courante"
  BY DEF Init, InitServeur
<1>2. PagesJustes /\ FormesCalme /\ FormesEnvois
  BY InitCalmes, InitEnvois DEF PagesCalmes
<1>3. file["cloche"] = << >>
  BY <1>1 DEF Actifs
<1>4. Ids = {} /\ Sonneries = {} /\ EnVenue = {}
  BY <1>1, <1>3 DEF Ids, Sonneries, EnVenue
<1>5. DirectsNonLus = 0 /\ DiffusionsNonLues = 0
  <2>1. {i \in Ids : messages[i].a = moi /\ ~messages[i].lu} = {}
    BY <1>4
  <2>2. {l \in lectures : l.qui = moi /\ ~l.lu} = {}
    BY <1>1
  <2> QED
    BY <2>1, <2>2, FS_EmptySet DEF DirectsNonLus, DiffusionsNonLues
<1>6. Somme = 0 /\ ANouveau = 0
  BY <1>1, <1>4, <1>5, FS_EmptySet DEF Somme, ANouveau
<1>7. Compteur /\ Plancher
  BY <1>6, PremierComptage DEF Compteur, Plancher
<1>8. Paisible("cloche")
  <2>1. EnCours("cloche") = comptages /\ ~EnChemin("cloche")
    BY <1>1, <1>3 DEF EnCours, EnChemin
  <2> QED
    BY <2>1, PremierComptage DEF Paisible
<1> QED
  BY <1>1, <1>2, <1>7, <1>8 DEF ClocheCalme, ClocheJuste

LEMMA NextCloche ==
  ASSUME MessagerieAssumption, BoitesAssumption, ClocheCalme, [Next]_vars
  PROVE  ClocheCalme'
<1>0. /\ PagesJustes /\ FormesCalme /\ FormesEnvois /\ ClocheJuste
      /\ ecoute \in {"courante", "remplacee", "perimee"}
  BY DEF ClocheCalme
<1>1. CASE Next
  <2>1. PagesJustes'
    BY <1>0, PasPagesVars
  <2>2. FormesCalme'
    BY <1>0, <1>1, <2>1, PasFormesCalme
  <2>3. FormesEnvois' /\ UNCHANGED <<moi, ecran>>
    BY <1>0, <1>1, EnvoisNext, PasMoi DEF Next
  <2>4. IsFiniteSet(comptages') /\ "cloche" \in Actifs
    BY <2>3 DEF FormesEnvois, Actifs
  <2>6. /\ ecoute' \in {"courante", "remplacee", "perimee"}
        /\ ecoute = "perimee" => ecoute' = "perimee"
    BY <1>0, <1>1, EcouteNext
  <2>5. ASSUME calme'["cloche"]
        PROVE  Paisible("cloche")' /\ (Libre' => Compteur') /\ Plancher'
    <3>1. calme["cloche"] /\ ~Trouble("cloche") /\ Paisible("cloche")'
      BY <1>0, <1>1, <2>2, <2>3, <2>4, <2>5, Tranquille DEF Next
    <3>2. AvantCloche
      BY <1>0, <2>1, <2>3, <2>6, <3>1 DEF AvantCloche, ClocheJuste
    <3>3. (Libre' => Compteur') /\ Plancher'
      BY <1>0, <1>1, <3>2, ClocheNext DEF Next
    <3> QED
      BY <3>1, <3>3
  <2> QED
    BY <2>1, <2>2, <2>3, <2>5, <2>6 DEF ClocheCalme, ClocheJuste
<1>2. CASE UNCHANGED vars
  <2>1. PagesJustes'
    BY <1>0, PasPagesVars
  <2>2. UNCHANGED <<moi, messages, lectures, envois, prise, file, gestes, pannes, ecran,
                    compte, connu, ecoute, comptages, vue, demandes, calme>>
    BY <1>2 DEF vars, serveur, reseau, bornes, cloche
  <2>3. FormesCalme' /\ FormesEnvois'
    BY <1>0, <2>2 DEF FormesCalme, FormesEnvois, Actifs, Ids
  <2>4. Paisible("cloche") => Paisible("cloche")'
    BY <2>2 DEF Paisible, EnCours, EnChemin
  <2>5. Sonneries' = Sonneries /\ (Libre' => Libre)
    BY <2>2 DEF Sonneries, Sonne, Libre
  <2>6. (Compteur => Compteur') /\ (Plancher => Plancher')
    <3>2. EnVenue' = EnVenue /\ DirectsNonLus' = DirectsNonLus
          /\ DiffusionsNonLues' = DiffusionsNonLues
      BY <2>2 DEF EnVenue, DirectsNonLus, DiffusionsNonLues, Ids
    <3>3. Somme' = Somme /\ ANouveau' = ANouveau
      BY <2>2, <2>5, <3>2 DEF Somme, ANouveau
    <3> QED
      BY <2>2, <3>3 DEF Compteur, Plancher
  <2> QED
    BY <1>0, <2>1, <2>2, <2>3, <2>4, <2>5, <2>6 DEF ClocheCalme, ClocheJuste
<1> QED
  BY <1>1, <1>2

\* CompteurJuste: when nothing is under way and nothing disturbed it, the bell shows
\* the number of messages left to read, or a greater one after it was refused.
THEOREM CompteurJusteVrai == Spec => []CompteurJuste
<1>1. Init => ClocheCalme
  BY InitCloche, MessagerieAssumption, BoitesAssumption
<1>2. ClocheCalme /\ [Next]_vars => ClocheCalme'
  BY NextCloche, MessagerieAssumption, BoitesAssumption
<1>3. ClocheCalme => CompteurJuste
  <2> SUFFICES ASSUME ClocheCalme, calme["cloche"], comptages = {}, demandes = {},
                      ~EnChemin("cloche")
               PROVE  \/ compte = ANouveau
                      \/ ecoute = "perimee" /\ compte > ANouveau
    BY DEF CompteurJuste, ANouveau
  <2>1. Compteur /\ Plancher
    BY DEF ClocheCalme, ClocheJuste, Libre
  <2>2. file["cloche"] = << >> /\ \A e \in envois : e.a # Tous /\ e.a # moi
    BY DEF EnChemin
  <2>3. Sonneries = {} /\ EnVenue = {}
    BY <2>2 DEF Sonneries, EnVenue
  <2>4. Cardinality(Sonneries) = 0 /\ Cardinality(EnVenue) = 0
    BY <2>3, FS_EmptySet
  <2>5. compte \in Nat
    BY DEF ClocheCalme, PagesJustes, FormesCloche
  <2>6. Somme = compte
    BY <2>4, <2>5 DEF Somme
  <2>7. ANouveau \in Nat
    <3>1. FormesServeur
      BY DEF ClocheCalme, PagesJustes
    <3> QED
      BY <3>1, MessagerieAssumption, ComptesEntiers DEF ANouveau
  <2> QED
    BY <2>1, <2>5, <2>6, <2>7 DEF Compteur, Plancher
<1> QED
  BY <1>1, <1>2, <1>3, PTL DEF Spec
=============================================================================
