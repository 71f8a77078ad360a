-------------------------- MODULE PlaceholdersProofs --------------------------
(***************************************************************************)
(* The walk of the analyzer over a statement numbers the placeholders as   *)
(* Placeholders says, for any number of sites.                             *)
(*                                                                         *)
(* WalkInv is inductive.  WalkOK ties the sites the walk has come to to    *)
(* the clause it is in; PendingOK says what may be left of the site in     *)
(* hand and how many parameters may still come from it, which bounds the   *)
(* positions; DollarsOK and BoundOK say what has been found so far, in a   *)
(* statement with `$N' and in one the walk takes in the order of the text. *)
(***************************************************************************)
EXTENDS Placeholders, FiniteSetTheorems, TLAPS

AllShapes == {"bare", "inverted", "late", "derived", "unread"}

ClausesOf(order) == {order[c] : c \in DOMAIN order}

\* The clauses of a statement as its text may have them.
TextOK ==
  /\ kind \in Kinds
  /\ style \in {"?", "$"}
  /\ text \in Seq([clause : ClausesOf(TextOrder[kind]), shape : AllShapes, item : Nat])
  /\ \A i \in DOMAIN text : text[i].shape \in Shapes(text[i].clause)
  /\ Len(text) <= MaxSites
  /\ \A i, j \in DOMAIN text :
       i <= j => /\ Rank(text[i].clause, TextOrder[kind]) <= Rank(text[j].clause, TextOrder[kind])
                 /\ text[i].item <= text[j].item
  /\ \A i \in DOMAIN text : text[i].item <= i

\* The walk has paid the visits of the clauses before its own, and no others
\* but in its own.
WalkOK ==
  /\ visited \in 0..(Len(VisitOrder[kind]) + 1)
  /\ entered \subseteq Visits
  /\ visited = None => entered = {} /\ pending = <<>> /\ params = {}
  /\ \A v \in Visits : \A c \in DOMAIN VisitOrder[kind] :
       VisitOrder[kind][c] = text[v[1]].clause =>
         /\ c < visited => v \in entered
         /\ v \in entered => c <= visited
  /\ \A v \in entered : \E c \in DOMAIN VisitOrder[kind] : VisitOrder[kind][c] = text[v[1]].clause

\* The pass that reaches a site first, and the sites that pass has come to.
FirstPass(i) == IF text[i].shape = "late" THEN 2 ELSE 1

Met == {i \in DOMAIN text : <<i, FirstPass(i)>> \in entered}

Recalled(k) == \E p \in params : p[2] = k

\* There is room for n more `?' under two for each visit.
Room(n) == style = "?" => Cardinality(params) + n <= 2 * Cardinality(entered)

\* The walk holds some of the places of site i: here, where the last one
\* is, before, the other one of two inverted, or other, of a derived table.
Holds(i, k, here, before, other) ==
  \/ text[i].shape = "bare" /\ pending = <<here, here>> /\ Room(2)
  \/ text[i].shape = "inverted" /\ pending = <<here, before, here>> /\ Room(2)
  \/ text[i].shape = "inverted" /\ pending = <<before, here>> /\ Room(2)
  \/ text[i].shape = "derived" /\ pending = <<other, other>> /\ Room(2)
  \/ text[i].shape = "inverted" /\ pending = <<before, here>> /\ Recalled(k) /\ Room(1)
  \/ text[i].shape \in {"bare", "inverted"} /\ pending = <<here>> /\ Recalled(k) /\ Room(0)
  \/ text[i].shape \in {"inverted", "late"} /\ pending = <<here>> /\ Room(1)
  \/ text[i].shape = "derived" /\ pending = <<other>> /\ Room(1)

\* What is left of the site the walk is at, and the parameters it may add.
PendingOK ==
  \/ pending = <<>> /\ Room(0)
  \/ \E i \in Met :
       Holds(i, LastOf(i), At(LastOf(i), TRUE), At(LastOf(i) - 1, TRUE), At(LastOf(i), FALSE))

ParamsOK ==
  /\ IsFiniteSet(params)
  /\ params \subseteq (1..(4 * MaxSites)) \X Occurrences

Own(i) == LastOf(i - 1) + 1 .. LastOf(i)

\* The placeholders of the sites the walk has come to.
Covered == UNION {Own(i) : i \in {e \in Met : text[e].shape # "unread"}}

DollarsOK ==
  style = "$" =>
    /\ params \subseteq {<<k, k>> : k \in Covered}
    /\ \A k \in Covered : <<k, k>> \in params \/ \E j \in DOMAIN pending : pending[j].occurrence = k

\* The statements BoundInTextOrder is about.
Plain ==
  /\ style = "?" /\ Unread = {} /\ ~Uses("inverted") /\ ~Uses("derived")
  /\ ~Overtaken /\ ~AgainstTheText

Numbered(n) == {<<k, k>> : k \in 1..n}

Held(i) == pending = <<At(i, TRUE), At(i, TRUE)>> \/ pending = <<At(i, TRUE)>>

\* The sites the walk has met are the first of the text; the last of them may
\* be without its number, and any may be visited again.
BoundOK ==
  Plain => \E c \in 0..Len(text) :
    /\ Met = 1..c
    /\ \/ pending = <<>> /\ params = Numbered(c)
       \/ c > 0 /\ Held(c) /\ params = Numbered(c - 1)
       \/ params = Numbered(c) /\ \E i \in 1..c : Held(i)

WalkInv == TextOK /\ WalkOK /\ PendingOK /\ ParamsOK /\ DollarsOK /\ BoundOK

-----------------------------------------------------------------------------
(* The clauses. *)

\* The kinds of statement, spelt out.
LEMMA KindsAre ==
  Kinds = {"select", "commaLimit", "insert", "withInsert", "update", "delete"}
  BY DEF Kinds, TextOrder

\* Both orders are sequences.
LEMMA OrderFacts ==
  ASSUME NEW kd \in Kinds
  PROVE  /\ Len(TextOrder[kd]) \in Nat /\ DOMAIN TextOrder[kd] = 1..Len(TextOrder[kd])
         /\ Len(VisitOrder[kd]) \in Nat /\ DOMAIN VisitOrder[kd] = 1..Len(VisitOrder[kd])
  BY KindsAre DEF TextOrder, VisitOrder

\* A statement has no clause twice, in the text ...
LEMMA TextDistinct ==
  ASSUME NEW kd \in Kinds, NEW p \in DOMAIN TextOrder[kd], NEW q \in DOMAIN TextOrder[kd],
         TextOrder[kd][p] = TextOrder[kd][q]
  PROVE  p = q
  BY KindsAre DEF TextOrder

\* ... or in the walk.
LEMMA VisitDistinct ==
  ASSUME NEW kd \in Kinds, NEW p \in DOMAIN VisitOrder[kd], NEW q \in DOMAIN VisitOrder[kd],
         VisitOrder[kd][p] = VisitOrder[kd][q]
  PROVE  p = q
  BY KindsAre DEF VisitOrder

\* But for three pairs of clauses the walk keeps to the order of the text.
LEMMA OrdersAgree ==
  ASSUME NEW kd \in Kinds, NEW i \in DOMAIN VisitOrder[kd], NEW j \in DOMAIN VisitOrder[kd],
         NEW p \in DOMAIN TextOrder[kd], NEW q \in DOMAIN TextOrder[kd],
         TextOrder[kd][p] = VisitOrder[kd][i], TextOrder[kd][q] = VisitOrder[kd][j],
         p <= q,
         ~(VisitOrder[kd][i] \in {"projection", "set"} /\ VisitOrder[kd][j] = "from"),
         ~(kd = "commaLimit" /\ VisitOrder[kd][i] = "offset" /\ VisitOrder[kd][j] = "limit")
  PROVE  i <= j
  BY KindsAre DEF TextOrder, VisitOrder

\* Rank is the place of a clause.
LEMMA RankIsPlace ==
  ASSUME NEW kd \in Kinds, NEW clause \in ClausesOf(TextOrder[kd])
  PROVE  /\ Rank(clause, TextOrder[kd]) \in DOMAIN TextOrder[kd]
         /\ TextOrder[kd][Rank(clause, TextOrder[kd])] = clause
  <1>1. \E p \in DOMAIN TextOrder[kd] : TextOrder[kd][p] = clause
    BY DEF ClausesOf
  <1> QED
    BY <1>1 DEF Rank

\* Rank gives back the place it is asked about.
LEMMA RankInDomain ==
  ASSUME NEW kd \in Kinds, NEW p \in DOMAIN TextOrder[kd]
  PROVE  /\ TextOrder[kd][p] \in ClausesOf(TextOrder[kd])
         /\ Rank(TextOrder[kd][p], TextOrder[kd]) = p
  <1>1. TextOrder[kd][p] \in ClausesOf(TextOrder[kd])
    BY DEF ClausesOf
  <1> QED
    BY <1>1, RankIsPlace, TextDistinct

\* A text is a sequence of sites.
LEMMA SiteFacts ==
  ASSUME TextOK
  PROVE  /\ Len(text) \in Nat /\ DOMAIN text = 1..Len(text)
         /\ \A i \in DOMAIN text : /\ text[i].clause \in ClausesOf(TextOrder[kind])
                                   /\ text[i].shape \in AllShapes
                                   /\ text[i].item \in Nat
  <1> DEFINE Site == [clause : ClausesOf(TextOrder[kind]), shape : AllShapes, item : Nat]
  <1>1. text \in Seq(Site)
    BY DEF TextOK
  <1>2. \A s \in Site : /\ s.clause \in ClausesOf(TextOrder[kind]) /\ s.shape \in AllShapes
                        /\ s.item \in Nat
    OBVIOUS
  <1> HIDE DEF Site
  <1>3. /\ Len(text) \in Nat /\ DOMAIN text = 1..Len(text)
        /\ \A i \in DOMAIN text : text[i] \in Site
    BY <1>1
  <1> QED
    BY <1>2, <1>3

\* A site is visited on each pass over its clause, the first that reaches it
\* among them.
LEMMA VisitFacts ==
  ASSUME TextOK
  PROVE  /\ \A i, pass : <<i, pass>> \in Visits <=>
              i \in DOMAIN text /\ pass \in Passes(text[i].clause)
         /\ \A v \in Visits : /\ v = <<v[1], v[2]>> /\ v[1] \in DOMAIN text /\ v[2] \in {1, 2}
                              /\ v[2] \in Passes(text[v[1]].clause)
         /\ \A i \in DOMAIN text : <<i, 1>> \in Visits /\ <<i, FirstPass(i)>> \in Visits
  <1>1. \A i, pass : <<i, pass>> \in Visits <=>
          i \in DOMAIN text /\ pass \in Passes(text[i].clause)
    BY DEF Visits, Passes
  <1>2. \A v \in Visits : /\ v = <<v[1], v[2]>> /\ v[1] \in DOMAIN text /\ v[2] \in {1, 2}
                          /\ v[2] \in Passes(text[v[1]].clause)
    BY DEF Visits
  <1>3. ASSUME NEW i \in DOMAIN text
        PROVE  1 \in Passes(text[i].clause) /\ FirstPass(i) \in Passes(text[i].clause)
    <2>1. text[i].shape = "late" => text[i].clause = "projection"
      BY DEF TextOK, Shapes
    <2> QED
      BY <2>1 DEF Passes, FirstPass
  <1> QED
    BY <1>1, <1>2, <1>3

-----------------------------------------------------------------------------
(* The placeholders of a site. *)

InvertedUpto(i) == {j \in 1..i : text[j].shape = "inverted"}

\* LastOf counts the sites and the inverted ones among them.
LEMMA LastOfFacts ==
  ASSUME NEW i \in Nat
  PROVE  /\ IsFiniteSet(InvertedUpto(i)) /\ Cardinality(InvertedUpto(i)) \in Nat
         /\ LastOf(i) = i + Cardinality(InvertedUpto(i))
         /\ LastOf(i) \in Nat /\ LastOf(i) >= i
  <1>1. IsFiniteSet(1..i) /\ InvertedUpto(i) \in SUBSET (1..i)
    BY FS_Interval DEF InvertedUpto
  <1>2. IsFiniteSet(InvertedUpto(i)) /\ Cardinality(InvertedUpto(i)) \in Nat
    BY <1>1, FS_Subset, FS_CardinalityType
  <1>3. LastOf(i) = i + Cardinality(InvertedUpto(i))
    BY DEF LastOf, InvertedUpto
  <1> QED
    BY <1>2, <1>3

\* Later sites have later places.
LEMMA LastOfGrows ==
  ASSUME NEW i \in Nat, NEW j \in Nat, i <= j
  PROVE  LastOf(i) <= LastOf(j)
  <1>1. InvertedUpto(i) \in SUBSET InvertedUpto(j)
    BY DEF InvertedUpto
  <1>2. Cardinality(InvertedUpto(i)) <= Cardinality(InvertedUpto(j))
    BY <1>1, LastOfFacts, FS_Subset
  <1> QED
    BY <1>2, LastOfFacts

\* A site has one place, an inverted one two.
LEMMA LastOfStep ==
  ASSUME NEW i \in Nat \ {0}
  PROVE  LastOf(i) = LastOf(i - 1) + (IF text[i].shape = "inverted" THEN 2 ELSE 1)
  <1>1. i - 1 \in Nat /\ i \notin InvertedUpto(i - 1)
    BY DEF InvertedUpto
  <1>2. CASE text[i].shape = "inverted"
    <2>1. InvertedUpto(i) = InvertedUpto(i - 1) \cup {i}
      BY <1>2 DEF InvertedUpto
    <2>2. Cardinality(InvertedUpto(i)) = Cardinality(InvertedUpto(i - 1)) + 1
      BY <1>1, <2>1, LastOfFacts, FS_AddElement
    <2> QED
      BY <1>1, <1>2, <2>2, LastOfFacts
  <1>3. CASE text[i].shape # "inverted"
    <2>1. InvertedUpto(i) = InvertedUpto(i - 1)
      BY <1>3 DEF InvertedUpto
    <2> QED
      BY <1>1, <1>3, <2>1, LastOfFacts
  <1> QED
    BY <1>2, <1>3

\* The places of a site, in the text.
LEMMA OwnPlaces ==
  ASSUME TextOK, NEW i \in DOMAIN text
  PROVE  /\ LastOf(i) \in Nat
         /\ LastOf(i) \in Occurrences /\ Own(i) \subseteq Occurrences
         /\ text[i].shape = "inverted" => /\ LastOf(i) - 1 \in Occurrences
                                          /\ Own(i) = {LastOf(i) - 1, LastOf(i)}
         /\ text[i].shape # "inverted" => Own(i) = {LastOf(i)}
  <1>1. i \in Nat \ {0} /\ i <= Len(text) /\ Len(text) \in Nat /\ i - 1 \in Nat
    BY SiteFacts
  <1>2. /\ LastOf(i - 1) \in Nat /\ LastOf(i) \in Nat
        /\ LastOf(Len(text)) \in Nat /\ LastOf(i) <= LastOf(Len(text))
    BY <1>1, LastOfFacts, LastOfGrows
  <1>3. LastOf(i) = LastOf(i - 1) + (IF text[i].shape = "inverted" THEN 2 ELSE 1)
    BY <1>1, LastOfStep
  <1> QED
    BY <1>2, <1>3 DEF Own, Occurrences

\* What Reached gives, shape by shape.
LEMMA ReachedCases ==
  ASSUME TextOK, NEW i \in DOMAIN text, NEW pass \in {1, 2}, NEW k, k = LastOf(i)
  PROVE  /\ text[i].shape = "bare" => Reached(i, pass) = <<At(k, TRUE), At(k, TRUE)>>
         /\ text[i].shape = "inverted" =>
              Reached(i, pass) = IF pass = 1
                                 THEN <<At(k, TRUE), At(k - 1, TRUE), At(k, TRUE)>>
                                 ELSE <<At(k - 1, TRUE), At(k, TRUE)>>
         /\ text[i].shape = "late" =>
              Reached(i, pass) = IF pass = 1 THEN <<>> ELSE <<At(k, TRUE)>>
         /\ text[i].shape = "derived" =>
              \/ Reached(i, pass) = <<At(k, FALSE), At(k, FALSE)>>
              \/ Reached(i, pass) = <<At(k, FALSE)>>
         /\ text[i].shape = "unread" => Reached(i, pass) = <<>>
  BY DEF Reached

\* A sequence of two, ...
LEMMA PairOf ==
  ASSUME NEW a, NEW b
  PROVE  <<a, b>> # <<>> /\ Head(<<a, b>>) = a /\ Tail(<<a, b>>) = <<b>>
         /\ DOMAIN <<a, b>> = {1, 2} /\ <<a, b>>[1] = a /\ <<a, b>>[2] = b
  OBVIOUS

\* ... of one ...
LEMMA OneOf ==
  ASSUME NEW a
  PROVE  <<a>> # <<>> /\ Head(<<a>>) = a /\ Tail(<<a>>) = <<>>
         /\ DOMAIN <<a>> = {1} /\ <<a>>[1] = a
  OBVIOUS

\* ... and of three.
LEMMA TripleOf ==
  ASSUME NEW a, NEW b, NEW c
  PROVE  <<a, b, c>> # <<>> /\ Head(<<a, b, c>>) = a /\ Tail(<<a, b, c>>) = <<b, c>>
         /\ DOMAIN <<a, b, c>> = {1, 2, 3}
         /\ <<a, b, c>>[1] = a /\ <<a, b, c>>[2] = b /\ <<a, b, c>>[3] = c
  OBVIOUS

-----------------------------------------------------------------------------
(* The steps: a statement is written, and the walk starts. *)

\* No statement is written yet.
LEMMA WalkInvInit == Init => WalkInv
  <1> SUFFICES ASSUME Init PROVE WalkInv
    OBVIOUS
  <1>1. /\ kind \in Kinds /\ style \in {"?", "$"} /\ text = <<>> /\ visited = 0
        /\ entered = {} /\ pending = <<>> /\ params = {}
    BY DEF Init, None
  <1>2. DOMAIN text = {} /\ Len(text) = 0
    BY <1>1
  <1>3. TextOK
    BY <1>1, <1>2, SitesBound DEF TextOK
  <1>4. WalkOK
    <2>1. visited \in 0..(Len(VisitOrder[kind]) + 1)
      BY <1>1, OrderFacts
    <2>2. Visits = {}
      BY <1>2 DEF Visits
    <2> QED
      BY <1>1, <2>1, <2>2 DEF WalkOK
  <1>5. PendingOK /\ ParamsOK
    <2>1. Room(0)
      BY <1>1, FS_EmptySet DEF Room
    <2>2. PendingOK
      BY <1>1, <2>1 DEF PendingOK
    <2> QED
      BY <1>1, <2>2, FS_EmptySet DEF ParamsOK
  <1>6. DollarsOK
    BY <1>1 DEF DollarsOK, Covered, Met
  <1>7. BoundOK
    <2>1. 0 \in 0..Len(text) /\ Met = 1..0 /\ params = Numbered(0)
      BY <1>1, <1>2 DEF Numbered, Met
    <2> QED
      BY <1>1, <2>1 DEF BoundOK
  <1> QED
    BY <1>3, <1>4, <1>5, <1>6, <1>7 DEF WalkInv

\* Nothing is entered yet, and no parameter found.
Unentered == visited \in {0, 1} /\ entered = {} /\ pending = <<>> /\ params = {}

\* While nothing is entered there is nothing to account for.
LEMMA UnenteredInv == TextOK /\ Unentered => WalkInv
  <1> SUFFICES ASSUME TextOK, Unentered PROVE WalkInv
    OBVIOUS
  <1> USE DEF Unentered
  <1>1. WalkOK
    <2>1. visited \in 0..(Len(VisitOrder[kind]) + 1)
      BY OrderFacts DEF TextOK
    <2>2. \A c \in DOMAIN VisitOrder[kind] : ~(c < visited)
      BY OrderFacts DEF TextOK
    <2> QED
      BY <2>1, <2>2 DEF WalkOK
  <1>2. PendingOK /\ ParamsOK
    <2>1. Room(0)
      BY FS_EmptySet DEF Room
    <2>2. PendingOK
      BY <2>1 DEF PendingOK
    <2> QED
      BY <2>2, FS_EmptySet DEF ParamsOK
  <1>3. DollarsOK
    BY DEF DollarsOK, Covered, Met
  <1>4. BoundOK
    <2>1. 0 \in 0..Len(text) /\ Met = 1..0 /\ params = Numbered(0)
      BY SiteFacts DEF Numbered, Met
    <2> QED
      BY <2>1 DEF BoundOK
  <1> QED
    BY <1>1, <1>2, <1>3, <1>4 DEF WalkInv

\* Writing a site keeps the text in the order of its clauses and its items.
LEMMA WriteInv ==
  ASSUME WalkInv, NEW clause \in ClausesOf(TextOrder[kind]), NEW shape \in Shapes(clause),
         NEW joined \in BOOLEAN, Write(clause, shape, joined)
  PROVE  WalkInv'
  <1> DEFINE Site == [clause : ClausesOf(TextOrder[kind]), shape : AllShapes, item : Nat]
             t == TextOrder[kind]
             n == Len(text)
             item == IF joined THEN text[n].item ELSE n + 1
             site == [clause |-> clause, shape |-> shape, item |-> item]
  <1>1. /\ visited = 0 /\ n < MaxSites
        /\ text # <<>> => Rank(text[n].clause, t) <= Rank(clause, t)
        /\ joined => text # <<>>
        /\ text' = Append(text, site)
        /\ UNCHANGED <<kind, style, visited, entered, pending, params>>
    BY DEF Write, None
  <1>2. Unentered'
    BY <1>1 DEF WalkInv, WalkOK, None, Unentered
  <1>3. n \in Nat /\ DOMAIN text = 1..n /\ (text # <<>> => n \in DOMAIN text)
    BY SiteFacts DEF WalkInv
  <1>4. item \in Nat /\ item <= n + 1 /\ \A i \in DOMAIN text : text[i].item <= item
    <2>1. CASE joined
      <3>1. n \in DOMAIN text /\ item = text[n].item
        BY <1>1, <1>3, <2>1
      <3> QED
        BY <1>3, <3>1, SiteFacts DEF WalkInv, TextOK
    <2>2. CASE ~joined
      BY <1>3, <2>2, SiteFacts DEF WalkInv, TextOK
    <2> QED
      BY <2>1, <2>2
  <1>5. /\ site \in Site /\ text \in Seq(Site)
        /\ site.clause = clause /\ site.shape = shape /\ site.item = item
    BY <1>4 DEF Shapes, AllShapes, WalkInv, TextOK
  <1> HIDE DEF Site, site, item
  <1>6. /\ text' \in Seq(Site) /\ Len(text') = n + 1
        /\ DOMAIN text' = 1..(n + 1)
        /\ \A i \in DOMAIN text : text'[i] = text[i]
        /\ text'[n + 1] = site
    BY <1>1, <1>3, <1>5
  <1>7. ASSUME NEW i \in DOMAIN text', NEW j \in DOMAIN text', i <= j
        PROVE  /\ Rank(text'[i].clause, t) <= Rank(text'[j].clause, t)
               /\ text'[i].item <= text'[j].item
    <2>1. Rank(clause, t) \in Nat
      BY RankIsPlace, OrderFacts DEF WalkInv, TextOK
    <2>2. CASE j \in DOMAIN text
      <3>1. i \in DOMAIN text
        BY <1>3, <1>6, <1>7, <2>2
      <3> QED
        BY <1>6, <1>7, <2>2, <3>1 DEF WalkInv, TextOK
    <2>3. CASE j = n + 1 /\ i = n + 1
      BY <1>4, <1>5, <1>6, <2>1, <2>3
    <2>4. CASE j = n + 1 /\ i \in DOMAIN text
      <3>1. n \in DOMAIN text /\ i <= n /\ text # <<>>
        BY <1>3, <2>4
      <3>2. Rank(text[i].clause, t) <= Rank(text[n].clause, t)
        BY <2>4, <3>1 DEF WalkInv, TextOK
      <3>3. Rank(text[i].clause, t) \in Nat /\ Rank(text[n].clause, t) \in Nat
        BY <2>4, <3>1, SiteFacts, RankIsPlace, OrderFacts DEF WalkInv, TextOK
      <3>4. Rank(text[n].clause, t) <= Rank(clause, t)
        BY <1>1, <3>1
      <3>5. Rank(text[i].clause, t) <= Rank(clause, t)
        BY <2>1, <3>2, <3>3, <3>4
      <3> QED
        BY <1>4, <1>5, <1>6, <2>4, <3>5
    <2> QED
      BY <1>3, <1>6, <2>2, <2>3, <2>4
  <1>8. \A i \in DOMAIN text' : text'[i].shape \in Shapes(text'[i].clause) /\ text'[i].item <= i
    <2> SUFFICES ASSUME NEW i \in DOMAIN text'
                 PROVE  text'[i].shape \in Shapes(text'[i].clause) /\ text'[i].item <= i
      OBVIOUS
    <2>1. CASE i \in DOMAIN text
      BY <1>6, <2>1 DEF WalkInv, TextOK
    <2>2. CASE i = n + 1
      BY <1>4, <1>5, <1>6, <2>2
    <2> QED
      BY <1>3, <1>6, <2>1, <2>2
  <1>9. TextOK'
    <2>1. Len(text') <= MaxSites
      BY <1>1, <1>3, <1>6, SitesBound
    <2>2. text' \in Seq([clause : ClausesOf(TextOrder[kind]), shape : AllShapes, item : Nat])
      BY <1>6 DEF Site
    <2> QED
      BY <1>1, <1>7, <1>8, <2>1, <2>2 DEF WalkInv, TextOK, ClausesOf, AllShapes
  <1> QED
    BY <1>2, <1>9, UnenteredInv, PTL

\* The walk starts with nothing found.
LEMMA StartInv ==
  ASSUME WalkInv, Start
  PROVE  WalkInv'
  <1>1. UNCHANGED <<kind, style, text>> /\ Unentered'
    BY DEF Start, WalkInv, WalkOK, Unentered
  <1>2. TextOK'
    BY <1>1 DEF WalkInv, TextOK, Kinds, ClausesOf, AllShapes
  <1> QED
    BY <1>1, <1>2, UnenteredInv, PTL

-----------------------------------------------------------------------------
(* The walk goes on to the next site, and to the next clause. *)

\* The first n numbers.
LEMMA UptoCardinality ==
  ASSUME NEW n \in Nat
  PROVE  IsFiniteSet(1..n) /\ Cardinality(1..n) = n
  BY FS_Interval

\* The visits paid are finitely many, and no more than two for each site.
LEMMA EnteredFacts ==
  ASSUME WalkInv
  PROVE  /\ IsFiniteSet(entered) /\ Cardinality(entered) \in Nat
         /\ Cardinality(entered) <= 2 * Len(text)
         /\ Cardinality(params) \in Nat
  <1>1. entered \in SUBSET ((1..Len(text)) \X (1..2)) /\ Len(text) \in Nat
    BY SiteFacts DEF WalkInv, WalkOK, Visits
  <1>2. /\ IsFiniteSet(1..Len(text)) /\ Cardinality(1..Len(text)) = Len(text)
        /\ IsFiniteSet(1..2) /\ Cardinality(1..2) = 2
    BY <1>1, UptoCardinality
  <1> DEFINE All == (1..Len(text)) \X (1..2)
  <1>3. /\ IsFiniteSet(All)
        /\ Cardinality(All) = Len(text) * 2
    <2>1. PICK S, T : S = 1..Len(text) /\ T = 1..2
      OBVIOUS
    <2>2. IsFiniteSet(S) /\ IsFiniteSet(T)
      BY <1>2, <2>1
    <2>3. /\ IsFiniteSet(S \X T)
          /\ Cardinality(S \X T) = Cardinality(S) * Cardinality(T)
      BY <2>2, FS_Product, Zenon
    <2>4. All = S \X T
      BY <2>1
    <2>5. Cardinality(S) = Len(text) /\ Cardinality(T) = 2
      BY <1>2, <2>1
    <2> QED
      BY <2>3, <2>4, <2>5, Zenon
  <1>4. IsFiniteSet(entered) /\ Cardinality(entered) <= Len(text) * 2
    BY <1>1, <1>3, FS_Subset
  <1> QED
    BY <1>1, <1>4, FS_CardinalityType DEF WalkInv, ParamsOK

\* Between two visits nothing is pending, and there is room for the next.
LEMMA IdleRoom ==
  ASSUME WalkInv, pending = <<>>
  PROVE  Room(0)
  <1>1. ASSUME NEW i, NEW k, NEW here, NEW before, NEW other
        PROVE  ~Holds(i, k, here, before, other)
    BY PairOf, OneOf, TripleOf DEF Holds
  <1> QED
    BY <1>1 DEF WalkInv, PendingOK

\* Going on to the next clause leaves no site of this one behind.
LEMMA VisitInv ==
  ASSUME WalkInv, Visit
  PROVE  WalkInv'
  <1>1. /\ visited # 0 /\ visited <= Len(VisitOrder[kind]) /\ pending = <<>> /\ Due = {}
        /\ visited' = visited + 1
        /\ UNCHANGED <<kind, style, text, entered, pending, params>>
    BY DEF Visit, Walking, None
  <1>2. visited \in 1..Len(VisitOrder[kind])
    BY <1>1, OrderFacts DEF WalkInv, TextOK, WalkOK
  <1>3. TextOK'
    BY <1>1 DEF WalkInv, TextOK, Kinds, ClausesOf, AllShapes
  <1>4. WalkOK'
    <2>1. visited' \in 0..(Len(VisitOrder[kind]) + 1)
      BY <1>1, <1>2, OrderFacts DEF WalkInv, TextOK
    <2>2. ASSUME NEW w \in Visits, NEW c \in DOMAIN VisitOrder[kind],
                 VisitOrder[kind][c] = text[w[1]].clause
          PROVE  /\ c < visited' => w \in entered
                 /\ w \in entered => c <= visited'
      <3>1. c \in Nat /\ visited \in Nat
        BY <1>2, OrderFacts DEF WalkInv, TextOK
      <3>2. c = visited => w \in entered
        BY <1>1, <2>2 DEF Due
      <3>3. (c < visited => w \in entered) /\ (w \in entered => c <= visited)
        BY <2>2 DEF WalkInv, WalkOK
      <3> QED
        BY <1>1, <3>1, <3>2, <3>3
    <2>3. visited' # 0
      BY <1>1, <1>2
    <2>4. Visits' = Visits
      BY <1>1 DEF Visits
    <2> QED
      BY <1>1, <2>1, <2>2, <2>3, <2>4 DEF WalkInv, WalkOK, None
  <1>5. PendingOK'
    <2>1. Room(0)' /\ pending' = <<>>
      BY <1>1, IdleRoom DEF Room
    <2> QED
      BY <2>1 DEF PendingOK
  <1>6. ParamsOK'
    BY <1>1 DEF WalkInv, ParamsOK, Occurrences, LastOf
  <1>7. DollarsOK'
    <2>1. Covered' = Covered
      BY <1>1 DEF Covered, Own, LastOf, Met, FirstPass
    <2> QED
      BY <1>1, <2>1 DEF WalkInv, DollarsOK
  <1>8. BoundOK'
    <2>1. Plain' = Plain /\ Met' = Met
      BY <1>1 DEF Plain, Unread, Uses, Overtaken, AgainstTheText, Has, Met, FirstPass
    <2>2. \A n : Numbered(n)' = Numbered(n) /\ Held(n)' = Held(n)
      BY <1>1 DEF Numbered, Held, At
    <2> QED
      BY <1>1, <2>1, <2>2 DEF WalkInv, BoundOK
  <1> QED
    BY <1>3, <1>4, <1>5, <1>6, <1>7, <1>8 DEF WalkInv

\* The walk has come to every visit of its clause that is before the next.
LEMMA EarlierVisits ==
  ASSUME WalkInv, NEW i \in DOMAIN text, NEW pass, Enter(i, pass),
         NEW j, NEW other, <<j, other>> \in Visits, text[j].clause = text[i].clause,
         Before(<<j, other>>, <<i, pass>>)
  PROVE  <<j, other>> \in entered
  BY DEF Enter, Due

\* Where the walk keeps to the text, the sites before the one it first comes
\* to are behind it.
LEMMA EarlierAreMet ==
  ASSUME WalkInv, NEW i \in DOMAIN text, NEW pass, pass = FirstPass(i), Enter(i, pass), Plain,
         NEW j \in DOMAIN text, j < i
  PROVE  j \in Met
  <1> DEFINE v == VisitOrder[kind]
             t == TextOrder[kind]
             p == Rank(text[j].clause, t)
             q == Rank(text[i].clause, t)
             first == FirstPass(j)
  <1>1. /\ kind \in Kinds /\ i \in Nat /\ j \in Nat
        /\ visited # 0 /\ visited <= Len(v) /\ <<i, pass>> \in Due
    BY SiteFacts DEF WalkInv, TextOK, Enter, Walking, None
  <1>2. visited \in DOMAIN v /\ v[visited] = text[i].clause
    BY <1>1, OrderFacts DEF WalkInv, WalkOK, Due
  <1>3. PICK c \in DOMAIN v : v[c] = text[j].clause
    BY DEF Plain, Unread
  <1>4. /\ p \in DOMAIN t /\ t[p] = text[j].clause
        /\ q \in DOMAIN t /\ t[q] = text[i].clause
    BY <1>1, RankIsPlace, SiteFacts DEF WalkInv
  <1>5. p <= q /\ text[j].item <= text[i].item /\ text[j].item \in Nat /\ text[i].item \in Nat
    BY <1>1, SiteFacts DEF WalkInv, TextOK
  <1>6. ~(v[c] \in {"projection", "set"} /\ v[visited] = "from")
    BY <1>2, <1>3 DEF Plain, AgainstTheText, Has
  <1>7. ~(kind = "commaLimit" /\ v[c] = "offset" /\ v[visited] = "limit")
    BY <1>2, <1>3 DEF Plain, AgainstTheText, Has
  <1>8. c <= visited
    BY <1>1, <1>2, <1>3, <1>4, <1>5, <1>6, <1>7, OrdersAgree
  <1>9. <<j, first>> \in Visits
    BY VisitFacts DEF WalkInv
  <1>10. CASE c < visited
    <2>1. <<j, first>> \in entered
      BY <1>3, <1>9, <1>10 DEF WalkInv, WalkOK
    <2> QED
      BY <2>1 DEF Met
  <1>11. CASE ~(c < visited)
    <2>1. c = visited
      BY <1>1, <1>2, <1>3, <1>8, <1>11, OrderFacts
    <2>2. text[j].item = text[i].item => first <= pass
      BY <1>1 DEF FirstPass, Plain, Overtaken
    <2>3. first \in {1, 2} /\ pass \in {1, 2}
      BY DEF FirstPass
    <2>4. \/ text[j].item < text[i].item
          \/ text[j].item = text[i].item /\ first < pass
          \/ text[j].item = text[i].item /\ first = pass /\ j < i
      BY <1>5, <2>2, <2>3
    <2>5. Before(<<j, first>>, <<i, pass>>)
      BY <2>4 DEF Before
    <2>6. <<j, first>> \in entered
      BY <1>2, <1>3, <1>9, <2>1, <2>5, EarlierVisits
    <2> QED
      BY <2>6 DEF Met
  <1> QED
    BY <1>10, <1>11

\* A site the walk reaches anything of is met.
LEMMA ReachedIsMet ==
  ASSUME WalkInv, NEW i \in DOMAIN text, NEW pass \in {1, 2}, Enter(i, pass),
         Reached(i, pass) # <<>>
  PROVE  /\ <<i, FirstPass(i)>> \in entered'
         /\ pass # FirstPass(i) => <<i, FirstPass(i)>> \in entered
  <1>1. entered' = entered \cup {<<i, pass>>}
    BY DEF Enter
  <1>2. CASE pass = FirstPass(i)
    BY <1>1, <1>2
  <1>3. CASE pass # FirstPass(i)
    <2>1. FirstPass(i) = 1 /\ pass = 2
      <3>1. text[i].shape = "late" => pass = 2
        BY ReachedCases DEF WalkInv
      <3> QED
        BY <1>3, <3>1 DEF FirstPass
    <2>2. <<i, 1>> \in Visits
      BY VisitFacts DEF WalkInv
    <2>3. Before(<<i, 1>>, <<i, pass>>)
      BY <2>1 DEF Before
    <2>4. <<i, 1>> \in entered
      BY <2>2, <2>3, EarlierVisits
    <2> QED
      BY <1>1, <2>1, <2>4
  <1> QED
    BY <1>2, <1>3

\* The sites met after a visit: one more if it is the first to reach its site.
LEMMA MetGrows ==
  ASSUME WalkInv, NEW i \in DOMAIN text, NEW pass \in {1, 2}, Enter(i, pass)
  PROVE  /\ Met' = IF pass = FirstPass(i) THEN Met \cup {i} ELSE Met
         /\ pass = FirstPass(i) => i \notin Met
         /\ Reached(i, pass) # <<>> /\ pass # FirstPass(i) => i \in Met
  <1>1. /\ entered' = entered \cup {<<i, pass>>} /\ text' = text /\ <<i, pass>> \notin entered
    BY DEF Enter, Due
  <1>2. Met' = {j \in DOMAIN text : <<j, FirstPass(j)>> \in entered'}
    BY <1>1 DEF Met, FirstPass
  <1>3. \A j \in DOMAIN text : <<j, FirstPass(j)>> = <<i, pass>> <=> j = i /\ pass = FirstPass(i)
    OBVIOUS
  <1>4. Met' = IF pass = FirstPass(i) THEN Met \cup {i} ELSE Met
    BY <1>1, <1>2, <1>3 DEF Met
  <1> QED
    BY <1>1, <1>4, ReachedIsMet DEF Met

\* The first pass that reaches a site reaches all its places.
LEMMA FirstReaches ==
  ASSUME TextOK, NEW i \in DOMAIN text, NEW pass, pass = FirstPass(i),
         text[i].shape # "unread", NEW k \in Own(i), NEW held, held = Reached(i, pass)
  PROVE  \E j \in DOMAIN held : held[j].occurrence = k
  <1>1. PICK l, here, before, other :
          /\ l = LastOf(i)
          /\ here = At(l, TRUE) /\ before = At(l - 1, TRUE) /\ other = At(l, FALSE)
    OBVIOUS
  <1>2. here.occurrence = l /\ before.occurrence = l - 1 /\ other.occurrence = l
    BY <1>1 DEF At
  <1>3. text[i].shape \in {"bare", "inverted", "late", "derived"}
    BY SiteFacts DEF AllShapes
  <1>4. /\ pass \in {1, 2}
        /\ text[i].shape = "inverted" => pass = 1 /\ pass # 2
        /\ text[i].shape = "late" => pass # 1
    BY DEF FirstPass
  <1>5. CASE text[i].shape = "bare"
    <2>1. held = <<here, here>> /\ k = l
      BY <1>1, <1>4, <1>5, ReachedCases, OwnPlaces
    <2>2. 1 \in DOMAIN held /\ held[1] = here
      BY <2>1, PairOf
    <2> QED
      BY <1>2, <2>1, <2>2
  <1>6. CASE text[i].shape = "inverted"
    <2>1. held = <<here, before, here>> /\ (k = l \/ k = l - 1)
      BY <1>1, <1>4, <1>6, ReachedCases, OwnPlaces
    <2>2. /\ 1 \in DOMAIN held /\ held[1] = here
          /\ 2 \in DOMAIN held /\ held[2] = before
      BY <2>1, TripleOf
    <2> QED
      BY <1>2, <2>1, <2>2
  <1>7. CASE text[i].shape = "late"
    <2>1. held = <<here>> /\ k = l
      BY <1>1, <1>4, <1>7, ReachedCases, OwnPlaces
    <2>2. 1 \in DOMAIN held /\ held[1] = here
      BY <2>1, OneOf
    <2> QED
      BY <1>2, <2>1, <2>2
  <1>8. CASE text[i].shape = "derived"
    <2>1. (held = <<other, other>> \/ held = <<other>>) /\ k = l
      BY <1>1, <1>4, <1>8, ReachedCases, OwnPlaces
    <2>2. 1 \in DOMAIN held /\ held[1] = other
      BY <2>1, PairOf, OneOf
    <2> QED
      BY <1>2, <2>1, <2>2
  <1> QED
    BY <1>3, <1>5, <1>6, <1>7, <1>8

\* In the statements of BoundInTextOrder a site's place is its number.
LEMMA PlainPlaces ==
  ASSUME TextOK, Plain, NEW i \in DOMAIN text
  PROVE  text[i].shape \in {"bare", "late"} /\ LastOf(i) = i /\ i \in Nat
  <1>1. i \in Nat
    BY SiteFacts
  <1>2. text[i].shape \in {"bare", "late"}
    BY SiteFacts DEF Plain, Uses, Unread, AllShapes
  <1>3. InvertedUpto(i) = {}
    BY SiteFacts DEF InvertedUpto, Plain, Uses
  <1>4. Cardinality(InvertedUpto(i)) = 0
    BY <1>3, FS_EmptySet
  <1> QED
    BY <1>1, <1>2, <1>4, LastOfFacts

\* Coming to a site makes its places pending, and room for two parameters.
LEMMA EnterInv ==
  ASSUME WalkInv, NEW i \in DOMAIN text, NEW pass \in {1, 2}, Enter(i, pass)
  PROVE  WalkInv'
  <1>1. /\ visited # 0 /\ visited <= Len(VisitOrder[kind]) /\ pending = <<>>
        /\ <<i, pass>> \in Due /\ entered' = entered \cup {<<i, pass>>}
        /\ pending' = Reached(i, pass)
        /\ UNCHANGED <<kind, style, text, visited, params>>
    BY DEF Enter, Walking, None
  <1>2. /\ visited \in DOMAIN VisitOrder[kind] /\ kind \in Kinds
        /\ text[i].clause = VisitOrder[kind][visited]
        /\ <<i, pass>> \notin entered /\ <<i, pass>> \in Visits
    BY <1>1, OrderFacts DEF WalkInv, WalkOK, TextOK, Due
  <1>3. TextOK'
    BY <1>1 DEF WalkInv, TextOK, Kinds, ClausesOf, AllShapes
  <1>4. WalkOK'
    <2>1. ASSUME NEW w \in Visits, NEW c \in DOMAIN VisitOrder[kind],
                 VisitOrder[kind][c] = text[w[1]].clause
          PROVE  /\ c < visited => w \in entered'
                 /\ w \in entered' => c <= visited
      <3>1. CASE w = <<i, pass>>
        <4>1. c = visited /\ visited \in Nat
          BY <1>2, <2>1, <3>1, VisitDistinct, OrderFacts
        <4> QED
          BY <1>1, <3>1, <4>1
      <3>2. CASE w # <<i, pass>>
        BY <1>1, <2>1, <3>2 DEF WalkInv, WalkOK
      <3> QED
        BY <3>1, <3>2
    <2>2. \A w \in entered' : \E c \in DOMAIN VisitOrder[kind] :
            VisitOrder[kind][c] = text[w[1]].clause
      BY <1>1, <1>2 DEF WalkInv, WalkOK
    <2>3. Visits' = Visits
      BY <1>1 DEF Visits
    <2> QED
      BY <1>1, <1>2, <2>1, <2>2, <2>3 DEF WalkInv, WalkOK, None
  <1>5. PendingOK'
    <2>1. Cardinality(entered') = Cardinality(entered) + 1
      BY <1>1, <1>2, EnteredFacts, FS_AddElement
    <2>2. Room(2)' /\ Room(1)' /\ Room(0)'
      BY <1>1, <2>1, IdleRoom, EnteredFacts DEF Room
    <2>3. CASE pending' = <<>>
      BY <2>2, <2>3 DEF PendingOK
    <2>4. CASE pending' # <<>>
      <3>1. i \in Met'
        BY <1>1, <2>4, MetGrows
      <3>2. PICK k, here, before, other :
              /\ k = LastOf(i)
              /\ here = At(k, TRUE) /\ before = At(k - 1, TRUE) /\ other = At(k, FALSE)
        OBVIOUS
      <3>3. \/ text[i].shape = "bare" /\ pending' = <<here, here>>
            \/ text[i].shape = "inverted" /\ pending' = <<here, before, here>>
            \/ text[i].shape = "inverted" /\ pending' = <<before, here>>
            \/ text[i].shape = "late" /\ pending' = <<here>>
            \/ text[i].shape = "derived" /\ pending' = <<other, other>>
            \/ text[i].shape = "derived" /\ pending' = <<other>>
        BY <1>1, <2>4, <3>2, ReachedCases, SiteFacts DEF AllShapes, WalkInv
      <3>4. Holds(i, k, here, before, other)'
        BY <1>1, <2>2, <3>3 DEF Holds
      <3>5. (/\ k = LastOf(i)
             /\ here = At(k, TRUE) /\ before = At(k - 1, TRUE) /\ other = At(k, FALSE))'
        BY <1>1, <3>2 DEF LastOf, At
      <3>6. Holds(i, LastOf(i), At(LastOf(i), TRUE), At(LastOf(i) - 1, TRUE), At(LastOf(i), FALSE))'
        BY <3>4, <3>5
      <3> QED
        BY <3>1, <3>6 DEF PendingOK
    <2> QED
      BY <2>3, <2>4
  <1>6. ParamsOK'
    BY <1>1 DEF WalkInv, ParamsOK, Occurrences, LastOf
  <1>7. DollarsOK'
    <2> SUFFICES ASSUME style = "$"
                 PROVE  /\ params \subseteq {<<k, k>> : k \in Covered'}
                        /\ \A k \in Covered' : \/ <<k, k>> \in params
                                               \/ \E j \in DOMAIN pending' : pending'[j].occurrence = k
      BY <1>1 DEF DollarsOK
    <2>1. Covered' = Covered \cup (IF pass = FirstPass(i) /\ text[i].shape # "unread"
                                   THEN Own(i) ELSE {})
      <3>1. \A j : Own(j)' = Own(j)
        BY <1>1 DEF Own, LastOf
      <3>2. Covered' = UNION {Own(j) : j \in {e \in Met' : text[e].shape # "unread"}}
        BY <1>1, <3>1 DEF Covered
      <3> QED
        BY <3>2, MetGrows DEF Covered
    <2>2. params \subseteq {<<k, k>> : k \in Covered}
      BY DEF WalkInv, DollarsOK
    <2>3. \A k \in Covered : <<k, k>> \in params
      <3>1. DOMAIN pending = {}
        BY <1>1
      <3> QED
        BY <3>1 DEF WalkInv, DollarsOK
    <2>4. ASSUME pass = FirstPass(i), text[i].shape # "unread", NEW k \in Own(i)
          PROVE  \E j \in DOMAIN pending' : pending'[j].occurrence = k
      BY <1>1, <2>4, FirstReaches DEF WalkInv
    <2> QED
      BY <2>1, <2>2, <2>3, <2>4
  <1>8. BoundOK'
    <2>1. Plain' = Plain
      BY <1>1 DEF Plain, Unread, Uses, Overtaken, AgainstTheText, Has
    <2> SUFFICES ASSUME Plain
                 PROVE  \E c \in 0..Len(text) :
                          /\ Met' = 1..c
                          /\ \/ pending' = <<>> /\ params = Numbered(c)
                             \/ c > 0 /\ Held(c)' /\ params = Numbered(c - 1)
                             \/ params = Numbered(c) /\ \E j \in 1..c : Held(j)'
      <3>1. text' = text /\ params' = params
        BY <1>1
      <3>2. \A n : Numbered(n)' = Numbered(n)
        BY DEF Numbered
      <3> QED
        BY <2>1, <3>1, <3>2 DEF BoundOK
    <2>2. PICK c \in 0..Len(text) : Met = 1..c /\ params = Numbered(c)
      BY <1>1, PairOf, OneOf DEF WalkInv, BoundOK, Held
    <2>3. i \in 1..Len(text) /\ DOMAIN text = 1..Len(text) /\ Len(text) \in Nat
      BY SiteFacts DEF WalkInv
    <2>4. text[i].shape \in {"bare", "late"} /\ LastOf(i) = i
      BY PlainPlaces DEF WalkInv
    <2>5. pending' = <<>> \/ Held(i)'
      <3>1. \/ pending' = <<>> \/ pending' = <<At(i, TRUE), At(i, TRUE)>>
            \/ pending' = <<At(i, TRUE)>>
        BY <1>1, <2>4, ReachedCases DEF WalkInv
      <3> QED
        BY <3>1 DEF Held, At
    <2>6. CASE pass = FirstPass(i)
      <3>1. \A j \in 1..Len(text) : j < i => j \in 1..c
        BY <2>2, <2>3, <2>6, EarlierAreMet
      <3>2. Met' = Met \cup {i} /\ i \notin Met
        BY <2>6, MetGrows
      <3>3. i = c + 1
        <4>1. ~(i <= c)
          BY <2>2, <2>3, <3>2
        <4>2. ~(c + 1 < i)
          BY <2>2, <2>3, <3>1
        <4> QED
          BY <2>2, <2>3, <4>1, <4>2
      <3>4. Met' = 1..i
        BY <2>2, <2>3, <3>2, <3>3
      <3>5. i \in 0..Len(text) /\ i > 0 /\ i - 1 = c
        BY <2>2, <2>3, <3>3
      <3>6. pending' # <<>>
        <4>1. text[i].shape = "late" => pass # 1
          BY <2>6 DEF FirstPass
        <4>2. \/ pending' = <<At(i, TRUE), At(i, TRUE)>> \/ pending' = <<At(i, TRUE)>>
          BY <1>1, <2>4, <4>1, ReachedCases DEF WalkInv
        <4> QED
          BY <4>2, PairOf, OneOf
      <3> QED
        BY <2>2, <2>5, <3>4, <3>5, <3>6
    <2>7. CASE pass # FirstPass(i)
      <3>1. Met' = Met /\ (pending' # <<>> => i \in 1..c)
        BY <1>1, <2>2, <2>7, MetGrows
      <3> QED
        BY <2>2, <2>5, <3>1
    <2> QED
      BY <2>6, <2>7
  <1> QED
    BY <1>3, <1>4, <1>5, <1>6, <1>7, <1>8 DEF WalkInv

-----------------------------------------------------------------------------
(* A placeholder is resolved. *)

\* The fields of a place.
LEMMA AtFacts ==
  ASSUME NEW o, NEW m
  PROVE  At(o, m).occurrence = o /\ At(o, m).memo = m
  BY DEF At

\* So many parameters numbered from 1: the next gets the next number.
LEMMA NumberedCardinality ==
  ASSUME NEW n \in Nat
  PROVE  IsFiniteSet(Numbered(n)) /\ Cardinality(Numbered(n)) = n
  <1> DEFINE f == [k \in 1..n |-> <<k, k>>]
  <1>1. IsFiniteSet(1..n) /\ Cardinality(1..n) = n
    BY FS_Interval
  <1>2. f \in [1..n -> Numbered(n)] /\ \A k \in 1..n : f[k] = <<k, k>>
    BY DEF Numbered
  <1> HIDE DEF f
  <1>3. \A x \in Numbered(n) : \E k \in 1..n : f[k] = x
    BY <1>2 DEF Numbered
  <1>4. \A x, y \in 1..n : f[x] = f[y] => x = y
    BY <1>2
  <1>5. f \in Injection(1..n, Numbered(n))
    BY <1>2, <1>4 DEF Injection, IsInjective
  <1>6. f \in Surjection(1..n, Numbered(n))
    BY <1>2, <1>3 DEF Surjection
  <1>7. IsFiniteSet(Numbered(n))
    BY <1>1, <1>6, FS_Surjection
  <1> QED
    BY <1>1, <1>5, <1>6, <1>7, FS_Surjection

\* What the walk still reaches of a site, place by place.
LEMMA PendingCases ==
  ASSUME WalkInv, pending # <<>>
  PROVE  \E i, k, here, before, other :
           /\ i \in Met
           /\ k = LastOf(i)
           /\ here = At(k, TRUE) /\ before = At(k - 1, TRUE) /\ other = At(k, FALSE)
           /\ here.occurrence = k /\ before.occurrence = k - 1 /\ other.occurrence = k
           /\ Known(here) <=> Recalled(k)
           /\ Holds(i, k, here, before, other)
  <1>1. PICK i, k, here, before, other :
          /\ i \in Met
          /\ k = LastOf(i)
          /\ here = At(k, TRUE) /\ before = At(k - 1, TRUE) /\ other = At(k, FALSE)
          /\ Holds(i, k, here, before, other)
    BY Zenon DEF WalkInv, PendingOK
  <1>2. /\ here.occurrence = k /\ before.occurrence = k - 1 /\ other.occurrence = k
        /\ Known(here) <=> Recalled(k)
    BY <1>1, AtFacts DEF Known, Recalled
  <1> QED
    BY <1>1, <1>2

\* A set grows by at most one element.
LEMMA SmallStep ==
  ASSUME NEW S, IsFiniteSet(S), NEW x
  PROVE  /\ Cardinality(S) \in Nat
         /\ IsFiniteSet(S \cup {x}) /\ Cardinality(S \cup {x}) \in Nat
         /\ Cardinality(S \cup {x}) <= Cardinality(S) + 1
  <1>1. Cardinality(S) \in Nat
    BY FS_CardinalityType
  <1>2. IsFiniteSet(S \cup {x}) /\ Cardinality(S \cup {x}) \in {Cardinality(S), Cardinality(S) + 1}
    BY FS_AddElement
  <1> QED
    BY <1>1, <1>2

\* A placeholder is resolved: it is recalled from now on, and at most one
\* parameter is new.
LEMMA ResolveEffect ==
  ASSUME WalkInv, NEW place, Resolve, Head(pending) = place,
         NEW o \in Occurrences, o = place.occurrence,
         NEW position, position = IF style = "$" THEN o ELSE Cardinality(params) + 1
  PROVE  /\ pending' = Tail(pending)
         /\ UNCHANGED <<kind, style, text, visited, entered>>
         /\ IsFiniteSet(params') /\ Recalled(o)'
         /\ \A k : Recalled(k) => Recalled(k)'
         /\ Cardinality(params') <= Cardinality(params) + 1
         /\ params' = IF style = "?" /\ Known(place) THEN params
                      ELSE params \cup {<<position, o>>}
  <1>1. PICK found : found = <<position, o>>
    OBVIOUS
  <1>2. found[2] = o
    BY <1>1
  <1>4. /\ pending' = Tail(pending)
        /\ UNCHANGED <<kind, style, text, visited, entered>>
        /\ params' = IF style = "?" /\ Known(place) THEN params ELSE params \cup {found}
    BY <1>1 DEF Resolve
  <1>5. IsFiniteSet(params)
    BY DEF WalkInv, ParamsOK
  <1>6. params' = params \/ params' = params \cup {found}
    BY <1>4
  <1>7. IsFiniteSet(params') /\ Cardinality(params') <= Cardinality(params) + 1
    <2>1. CASE params' = params
      BY <1>5, <2>1, FS_CardinalityType
    <2>2. CASE params' = params \cup {found}
      BY <1>5, <2>2, SmallStep
    <2> QED
      BY <1>6, <2>1, <2>2
  <1>8. Recalled(o)'
    BY <1>2, <1>4 DEF Recalled, Known
  <1>9. \A k : Recalled(k) => Recalled(k)'
    BY <1>6 DEF Recalled
  <1> QED
    BY <1>1, <1>4, <1>7, <1>8, <1>9

\* The places of a text are at most two for each site.
LEMMA OccurrencesBound ==
  ASSUME TextOK
  PROVE  Occurrences \subseteq 1..(2 * MaxSites)
  <1>1. Len(text) \in Nat /\ Len(text) <= MaxSites /\ MaxSites \in Nat
    BY SiteFacts, SitesBound DEF TextOK
  <1>2. InvertedUpto(Len(text)) \in SUBSET (1..Len(text))
    BY DEF InvertedUpto
  <1>3. IsFiniteSet(1..Len(text)) /\ Cardinality(1..Len(text)) = Len(text)
    BY <1>1, UptoCardinality
  <1>4. Cardinality(InvertedUpto(Len(text))) <= Len(text)
    BY <1>2, <1>3, FS_Subset
  <1> QED
    BY <1>1, <1>4, LastOfFacts DEF Occurrences

\* What resolving a placeholder of site i does to all but what is pending.
LEMMA ResolveRest ==
  ASSUME WalkInv, Resolve, pending # <<>>, NEW i \in Met, NEW place,
         Head(pending) = place, NEW o \in Own(i), o = place.occurrence, text[i].shape # "unread",
         style = "?" /\ ~Known(place) => Cardinality(params) + 1 <= 4 * MaxSites,
         \A j \in DOMAIN pending : \/ pending[j].occurrence = o
                                   \/ \E n \in DOMAIN pending' :
                                        pending'[n].occurrence = pending[j].occurrence
  PROVE  TextOK' /\ WalkOK' /\ ParamsOK' /\ DollarsOK'
  <1> USE DEF WalkInv
  <1>1. i \in DOMAIN text /\ o \in Occurrences
    BY OwnPlaces DEF Met
  <1>2. PICK position : position = IF style = "$" THEN o ELSE Cardinality(params) + 1
    OBVIOUS
  <1>3. /\ UNCHANGED <<kind, style, text, visited, entered>>
        /\ IsFiniteSet(params')
        /\ params' = IF style = "?" /\ Known(place) THEN params
                     ELSE params \cup {<<position, o>>}
    BY <1>1, <1>2, ResolveEffect
  <1>4. TextOK'
    BY <1>3 DEF TextOK, Kinds, ClausesOf, AllShapes
  <1>5. WalkOK'
    <2>1. Visits' = Visits
      BY <1>3 DEF Visits
    <2> QED
      BY <1>3, <2>1 DEF WalkOK, None
  <1>6. ParamsOK'
    <2>1. Occurrences' = Occurrences
      BY <1>3 DEF Occurrences, LastOf
    <2>2. Cardinality(params) \in Nat /\ MaxSites \in Nat /\ style \in {"?", "$"}
      BY EnteredFacts, SitesBound DEF TextOK
    <2>3. ~(style = "?" /\ Known(place)) => position \in 1..(4 * MaxSites)
      BY <1>1, <1>2, <2>2, OccurrencesBound
    <2> QED
      BY <1>1, <1>3, <2>1, <2>3 DEF ParamsOK
  <1>7. DollarsOK'
    <2>1. Covered' = Covered
      BY <1>3 DEF Covered, Own, LastOf, Met, FirstPass
    <2>2. o \in Covered
      BY DEF Covered
    <2> SUFFICES ASSUME style = "$"
                 PROVE  /\ params' \subseteq {<<k, k>> : k \in Covered}
                        /\ \A k \in Covered : \/ <<k, k>> \in params'
                                              \/ \E j \in DOMAIN pending' : pending'[j].occurrence = k
      BY <1>3, <2>1 DEF DollarsOK
    <2>3. params' = params \cup {<<o, o>>}
      BY <1>2, <1>3
    <2>4. params' \subseteq {<<k, k>> : k \in Covered}
      BY <2>2, <2>3 DEF DollarsOK
    <2>5. ASSUME NEW k \in Covered
          PROVE  <<k, k>> \in params' \/ \E j \in DOMAIN pending' : pending'[j].occurrence = k
      <3>1. CASE k = o
        BY <2>3, <3>1
      <3>2. CASE k # o
        BY <2>3, <3>2 DEF DollarsOK
      <3> QED
        BY <3>1, <3>2
    <2> QED
      BY <2>4, <2>5
  <1> QED
    BY <1>4, <1>5, <1>6, <1>7

\* Each place the walk may be at: what is left of the site, and the room for it.
LEMMA ResolvePlaces ==
  ASSUME WalkInv, Resolve, NEW i \in Met, NEW k, k = LastOf(i),
         NEW here, NEW before, NEW other,
         here.occurrence = k, before.occurrence = k - 1, other.occurrence = k,
         Known(here) <=> Recalled(k),
         Holds(i, k, here, before, other)
  PROVE  /\ TextOK' /\ WalkOK' /\ ParamsOK' /\ DollarsOK'
         /\ i \in Met' /\ text'[i].shape = text[i].shape /\ LastOf(i)' = k
         /\ \/ text[i].shape = "inverted" /\ pending' = <<before, here>> /\ Recalled(k)' /\ Room(1)'
            \/ /\ text[i].shape \in {"bare", "inverted"} /\ pending' = <<here>>
               /\ Recalled(k)' /\ Room(0)'
            \/ text[i].shape = "inverted" /\ pending' = <<here>> /\ Room(1)'
            \/ text[i].shape = "derived" /\ pending' = <<other>> /\ Room(1)'
            \/ pending' = <<>> /\ Room(0)'
  <1> USE DEF WalkInv
  <1> DEFINE Rest == TextOK' /\ WalkOK' /\ ParamsOK' /\ DollarsOK'
  <1>1. /\ i \in DOMAIN text /\ k \in Nat /\ k \in Occurrences /\ k \in Own(i)
        /\ text[i].shape = "inverted" => k - 1 \in Occurrences /\ k - 1 \in Own(i)
    BY OwnPlaces DEF Met
  <1>2. /\ Cardinality(params) \in Nat /\ Cardinality(entered) \in Nat
        /\ Cardinality(entered) <= 2 * MaxSites /\ MaxSites \in Nat
    BY EnteredFacts, SiteFacts, SitesBound DEF TextOK
  <1>3. (Room(1) \/ Room(2)) /\ style = "?" => Cardinality(params) + 1 <= 4 * MaxSites
    BY <1>2 DEF Room
  <1>4. pending' = Tail(pending)
    BY DEF Resolve
  <1>5. ASSUME NEW place, Head(pending) = place,
               NEW o \in Own(i), o = place.occurrence,
               pending # <<>>, text[i].shape # "unread",
               style = "?" /\ ~Known(place) => Room(1) \/ Room(2),
               \A j \in DOMAIN pending : \/ pending[j].occurrence = o
                                         \/ \E n \in DOMAIN pending' :
                                              pending'[n].occurrence = pending[j].occurrence
        PROVE  /\ Rest
               /\ i \in Met' /\ text'[i].shape = text[i].shape /\ LastOf(i)' = k
               /\ Recalled(o)' /\ (Recalled(k) => Recalled(k)')
               /\ Room(2) => Room(1)' /\ Room(0)'
               /\ Room(1) => Room(0)'
               /\ Known(place) /\ Room(0) => Room(0)'
    <2>1. PICK position : position = IF style = "$" THEN o ELSE Cardinality(params) + 1
      OBVIOUS
    <2>2. o \in Occurrences
      BY <1>1, OwnPlaces
    <2>3. /\ UNCHANGED <<kind, style, text, visited, entered>>
          /\ IsFiniteSet(params')
          /\ Cardinality(params') <= Cardinality(params) + 1
          /\ style = "?" /\ Known(place) => params' = params
          /\ Recalled(o)' /\ (Recalled(k) => Recalled(k)')
      BY <1>5, <2>1, <2>2, ResolveEffect
    <2>4. LastOf(i)' = k /\ i \in Met'
      BY <2>3 DEF LastOf, Met, FirstPass
    <2>5. Cardinality(params') \in Nat
      BY <2>3, FS_CardinalityType
    <2>6. /\ Room(2) => Room(1)' /\ Room(0)'
          /\ Room(1) => Room(0)'
      BY <1>2, <2>3, <2>5 DEF Room
    <2>7. Known(place) /\ Room(0) => Room(0)'
      BY <2>3 DEF Room
    <2>8. Rest
      BY <1>3, <1>5, ResolveRest
    <2> QED
      BY <2>3, <2>4, <2>6, <2>7, <2>8
  <1> HIDE DEF Rest
  <1>6. CASE text[i].shape = "bare" /\ pending = <<here, here>> /\ Room(2)
    <2>1. pending # <<>> /\ Head(pending) = here /\ pending' = <<here>>
          /\ \A j \in DOMAIN pending : pending[j] = here
      BY <1>4, <1>6, PairOf
    <2>2. /\ Rest /\ i \in Met' /\ text'[i].shape = text[i].shape /\ LastOf(i)' = k
          /\ Recalled(k)' /\ Room(0)'
      BY <1>1, <1>5, <1>6, <2>1
    <2> QED
      BY <1>6, <2>1, <2>2 DEF Rest
  <1>7. CASE text[i].shape = "inverted" /\ pending = <<here, before, here>> /\ Room(2)
    <2>1. /\ pending # <<>> /\ Head(pending) = here /\ pending' = <<before, here>>
          /\ \A j \in DOMAIN pending : pending[j] = here \/ pending[j] = before
      BY <1>4, <1>7, TripleOf
    <2>2. \E n \in DOMAIN pending' : pending'[n] = before
      BY <2>1, PairOf
    <2>3. /\ Rest /\ i \in Met' /\ text'[i].shape = text[i].shape /\ LastOf(i)' = k
          /\ Recalled(k)' /\ Room(1)'
      BY <1>1, <1>5, <1>7, <2>1, <2>2
    <2> QED
      BY <1>7, <2>1, <2>3 DEF Rest
  <1>8. CASE text[i].shape = "derived" /\ pending = <<other, other>> /\ Room(2)
    <2>1. /\ pending # <<>> /\ Head(pending) = other /\ pending' = <<other>>
          /\ \A j \in DOMAIN pending : pending[j] = other
      BY <1>4, <1>8, PairOf
    <2>2. /\ Rest /\ i \in Met' /\ text'[i].shape = text[i].shape /\ LastOf(i)' = k
          /\ Room(1)'
      BY <1>1, <1>5, <1>8, <2>1
    <2> QED
      BY <1>8, <2>1, <2>2 DEF Rest
  <1>9. CASE text[i].shape = "inverted" /\ pending = <<before, here>> /\ Recalled(k) /\ Room(1)
    <2>1. /\ pending # <<>> /\ Head(pending) = before /\ pending' = <<here>>
          /\ \A j \in DOMAIN pending : pending[j] = here \/ pending[j] = before
      BY <1>4, <1>9, PairOf
    <2>2. \E n \in DOMAIN pending' : pending'[n] = here
      BY <2>1, OneOf
    <2>3. /\ Rest /\ i \in Met' /\ text'[i].shape = text[i].shape /\ LastOf(i)' = k
          /\ Recalled(k)' /\ Room(0)'
      BY <1>1, <1>5, <1>9, <2>1, <2>2
    <2> QED
      BY <1>9, <2>1, <2>3 DEF Rest
  <1>10. CASE /\ text[i].shape \in {"bare", "inverted"} /\ pending = <<here>>
              /\ Recalled(k) /\ Room(0)
    <2>1. /\ pending # <<>> /\ Head(pending) = here /\ pending' = <<>>
          /\ \A j \in DOMAIN pending : pending[j] = here
      BY <1>4, <1>10, OneOf
    <2>2. /\ Rest /\ i \in Met' /\ text'[i].shape = text[i].shape /\ LastOf(i)' = k
          /\ Room(0)'
      BY <1>1, <1>5, <1>10, <2>1
    <2> QED
      BY <2>1, <2>2 DEF Rest
  <1>11. CASE text[i].shape = "derived" /\ pending = <<other>> /\ Room(1)
    <2>1. /\ pending # <<>> /\ Head(pending) = other /\ pending' = <<>>
          /\ \A j \in DOMAIN pending : pending[j] = other
      BY <1>4, <1>11, OneOf
    <2>2. /\ Rest /\ i \in Met' /\ text'[i].shape = text[i].shape /\ LastOf(i)' = k
          /\ Room(0)'
      BY <1>1, <1>5, <1>11, <2>1
    <2> QED
      BY <2>1, <2>2 DEF Rest
  <1>12. CASE text[i].shape = "inverted" /\ pending = <<before, here>> /\ Room(2)
    <2>1. /\ pending # <<>> /\ Head(pending) = before /\ pending' = <<here>>
          /\ \A j \in DOMAIN pending : pending[j] = here \/ pending[j] = before
      BY <1>4, <1>12, PairOf
    <2>2. \E n \in DOMAIN pending' : pending'[n] = here
      BY <2>1, OneOf
    <2>3. /\ Rest /\ i \in Met' /\ text'[i].shape = text[i].shape /\ LastOf(i)' = k
          /\ Room(1)'
      BY <1>1, <1>5, <1>12, <2>1, <2>2
    <2> QED
      BY <1>12, <2>1, <2>3 DEF Rest
  <1>13. CASE text[i].shape \in {"inverted", "late"} /\ pending = <<here>> /\ Room(1)
    <2>1. /\ pending # <<>> /\ Head(pending) = here /\ pending' = <<>>
          /\ \A j \in DOMAIN pending : pending[j] = here
      BY <1>4, <1>13, OneOf
    <2>2. /\ Rest /\ i \in Met' /\ text'[i].shape = text[i].shape /\ LastOf(i)' = k
          /\ Room(0)'
      BY <1>1, <1>5, <1>13, <2>1
    <2> QED
      BY <2>1, <2>2 DEF Rest
  <1> QED
    BY <1>6, <1>7, <1>8, <1>9, <1>10, <1>11, <1>12, <1>13 DEF Holds

\* All but BoundOK, of resolving a placeholder.
LEMMA ResolvePending ==
  ASSUME WalkInv, Resolve
  PROVE  TextOK' /\ WalkOK' /\ ParamsOK' /\ DollarsOK' /\ PendingOK'
  <1>1. pending # <<>>
    BY DEF Resolve
  <1>2. PICK i, k, here, before, other :
          /\ i \in Met
          /\ k = LastOf(i)
          /\ here = At(k, TRUE) /\ before = At(k - 1, TRUE) /\ other = At(k, FALSE)
          /\ here.occurrence = k /\ before.occurrence = k - 1 /\ other.occurrence = k
          /\ Known(here) <=> Recalled(k)
          /\ Holds(i, k, here, before, other)
    BY <1>1, PendingCases, Zenon
  <1>3. /\ i \in Met /\ k = LastOf(i)
        /\ here.occurrence = k /\ before.occurrence = k - 1 /\ other.occurrence = k
        /\ Known(here) <=> Recalled(k)
        /\ Holds(i, k, here, before, other)
    BY <1>2
  <1>4. /\ TextOK' /\ WalkOK' /\ ParamsOK' /\ DollarsOK'
        /\ i \in Met' /\ text'[i].shape = text[i].shape /\ LastOf(i)' = k
        /\ \/ text[i].shape = "inverted" /\ pending' = <<before, here>> /\ Recalled(k)' /\ Room(1)'
           \/ /\ text[i].shape \in {"bare", "inverted"} /\ pending' = <<here>>
              /\ Recalled(k)' /\ Room(0)'
           \/ text[i].shape = "inverted" /\ pending' = <<here>> /\ Room(1)'
           \/ text[i].shape = "derived" /\ pending' = <<other>> /\ Room(1)'
           \/ pending' = <<>> /\ Room(0)'
    BY <1>3, ResolvePlaces
  <1>5. PendingOK'
    <2>1. (here = At(LastOf(i), TRUE) /\ before = At(LastOf(i) - 1, TRUE)
           /\ other = At(LastOf(i), FALSE))'
      BY <1>2, <1>4 DEF At
    <2>2. CASE pending' = <<>> /\ Room(0)'
      BY <2>2 DEF PendingOK
    <2>3. CASE ~(pending' = <<>> /\ Room(0)')
      <3>1. Holds(i, k, here, before, other)'
        BY <1>4, <2>3 DEF Holds
      <3>2. Holds(i, LastOf(i), At(LastOf(i), TRUE), At(LastOf(i) - 1, TRUE),
                  At(LastOf(i), FALSE))'
        BY <1>4, <2>1, <3>1
      <3> QED
        BY <1>4, <3>2 DEF PendingOK
    <2> QED
      BY <2>2, <2>3
  <1> QED
    BY <1>4, <1>5

-----------------------------------------------------------------------------
(* The theorems. *)

\* In the statements of BoundInTextOrder the next placeholder gets the next
\* number, and one that is visited again keeps its own.
LEMMA ResolveBound ==
  ASSUME WalkInv, Resolve
  PROVE  BoundOK'
  <1>1. pending # <<>> /\ UNCHANGED <<kind, style, text, visited, entered>>
    BY DEF Resolve
  <1>2. Plain' = Plain /\ Met' = Met /\ Len(text)' = Len(text)
    BY <1>1 DEF Plain, Unread, Uses, Overtaken, AgainstTheText, Has, Met, FirstPass
  <1> SUFFICES ASSUME Plain
               PROVE  \E c \in 0..Len(text) :
                        /\ Met = 1..c
                        /\ params' = Numbered(c)
                        /\ pending' = <<>> \/ \E i \in 1..c : Held(i)'
    <2>1. \A n : Numbered(n)' = Numbered(n)
      BY DEF Numbered
    <2> QED
      BY <1>2, <2>1 DEF BoundOK
  <1>3. PICK c \in 0..Len(text) :
          /\ Met = 1..c
          /\ \/ c > 0 /\ Held(c) /\ params = Numbered(c - 1)
             \/ params = Numbered(c) /\ \E i \in 1..c : Held(i)
    BY <1>1 DEF WalkInv, BoundOK
  <1>4. c \in Nat /\ Len(text) \in Nat
    BY <1>3, SiteFacts DEF WalkInv
  <1>5. PICK i \in 1..c : /\ Held(i)
                          /\ \/ i = c /\ c > 0 /\ params = Numbered(c - 1)
                             \/ params = Numbered(c)
    BY <1>3, <1>4
  <1>6. PICK place : place = At(i, TRUE)
    OBVIOUS
  <1>7. pending = <<place, place>> \/ pending = <<place>>
    BY <1>5, <1>6 DEF Held
  <1>8. Head(pending) = place /\ (pending' = <<place>> \/ pending' = <<>>)
    <2>1. pending' = Tail(pending)
      BY DEF Resolve
    <2>2. CASE pending = <<place, place>>
      BY <2>1, <2>2, PairOf
    <2>3. CASE pending = <<place>>
      BY <2>1, <2>3, OneOf
    <2> QED
      BY <1>7, <2>2, <2>3
  <1>9. pending' = <<>> \/ Held(i)'
    BY <1>6, <1>8 DEF Held, At
  <1>10. place.occurrence = i /\ (Known(place) <=> Recalled(i))
    BY <1>6, AtFacts DEF Known, Recalled
  <1>11. i \in Occurrences
    BY <1>3, <1>5, OwnPlaces, PlainPlaces DEF WalkInv, Met
  <1>12. PICK position : position = IF style = "$" THEN i ELSE Cardinality(params) + 1
    OBVIOUS
  <1>13. style = "?" /\ "?" # "$"
    BY DEF Plain
  <1>14. params' = IF Recalled(i) THEN params ELSE params \cup {<<position, i>>}
    BY <1>8, <1>10, <1>11, <1>12, <1>13, ResolveEffect
  <1>15. CASE params = Numbered(c)
    <2>1. <<i, i>> \in params
      BY <1>5, <1>15 DEF Numbered
    <2>2. Recalled(i)
      BY <2>1 DEF Recalled
    <2> QED
      BY <1>3, <1>5, <1>9, <1>14, <1>15, <2>2
  <1>16. CASE i = c /\ c > 0 /\ params = Numbered(c - 1)
    <2>1. ~Recalled(c)
      BY <1>4, <1>16 DEF Recalled, Numbered
    <2>2. position = c
      BY <1>4, <1>12, <1>13, <1>16, NumberedCardinality
    <2>3. Numbered(c) = Numbered(c - 1) \cup {<<c, c>>}
      BY <1>4, <1>16 DEF Numbered
    <2> QED
      BY <1>3, <1>5, <1>9, <1>14, <1>16, <2>1, <2>2, <2>3
  <1> QED
    BY <1>5, <1>15, <1>16

\* Every step keeps WalkInv.
LEMMA WalkInvNext == WalkInv /\ [Next]_vars => WalkInv'
  <1> SUFFICES ASSUME WalkInv, [Next]_vars PROVE WalkInv'
    OBVIOUS
  <1>1. CASE \E i \in DOMAIN TextOrder[kind] :
               \E shape \in Shapes(TextOrder[kind][i]), joined \in BOOLEAN :
                 Write(TextOrder[kind][i], shape, joined)
    <2>1. PICK i \in DOMAIN TextOrder[kind] :
                 \E shape \in Shapes(TextOrder[kind][i]), joined \in BOOLEAN :
                   Write(TextOrder[kind][i], shape, joined)
      BY <1>1
    <2>2. TextOrder[kind][i] \in ClausesOf(TextOrder[kind])
      BY RankInDomain DEF WalkInv, TextOK
    <2> QED
      BY <2>1, <2>2, WriteInv
  <1>2. CASE Start
    BY <1>2, StartInv
  <1>3. CASE \E i \in DOMAIN text, pass \in {1, 2} : Enter(i, pass)
    BY <1>3, EnterInv
  <1>4. CASE Visit
    BY <1>4, VisitInv
  <1>5. CASE Resolve
    BY <1>5, ResolvePending, ResolveBound DEF WalkInv
  <1>6. CASE UNCHANGED vars
    <2>1. UNCHANGED <<kind, style, text, visited, entered, pending, params>>
      BY <1>6 DEF vars
    <2>2. TextOK' /\ WalkOK'
      <3>1. Visits' = Visits
        BY <2>1 DEF Visits
      <3> QED
        BY <2>1, <3>1 DEF WalkInv, TextOK, WalkOK, Kinds, ClausesOf, AllShapes, None
    <2>3. ParamsOK' /\ DollarsOK' /\ PendingOK'
      <3>1. Occurrences' = Occurrences /\ Covered' = Covered /\ Met' = Met
        BY <2>1 DEF Occurrences, Covered, Own, LastOf, Met, FirstPass
      <3>2. ParamsOK' /\ DollarsOK'
        BY <2>1, <3>1 DEF WalkInv, ParamsOK, DollarsOK
      <3>3. PendingOK'
        <4>1. \A n : Room(n)' = Room(n) /\ Recalled(n)' = Recalled(n)
          BY <2>1 DEF Room, Recalled
        <4>2. \A i, k, here, before, other :
                Holds(i, k, here, before, other) => Holds(i, k, here, before, other)'
          BY <2>1, <4>1 DEF Holds
        <4>3. CASE pending = <<>> /\ Room(0)
          BY <2>1, <4>1, <4>3 DEF PendingOK
        <4>4. CASE ~(pending = <<>> /\ Room(0))
          <5>1. PICK i \in Met :
                  Holds(i, LastOf(i), At(LastOf(i), TRUE), At(LastOf(i) - 1, TRUE),
                        At(LastOf(i), FALSE))
            BY <4>4 DEF WalkInv, PendingOK
          <5>2. LastOf(i)' = LastOf(i)
            BY <2>1 DEF LastOf
          <5>3. Holds(i, LastOf(i), At(LastOf(i), TRUE), At(LastOf(i) - 1, TRUE),
                      At(LastOf(i), FALSE))'
            BY <4>2, <5>1, <5>2 DEF At
          <5> QED
            BY <3>1, <5>1, <5>3 DEF PendingOK
        <4> QED
          BY <4>3, <4>4
      <3> QED
        BY <3>2, <3>3
    <2>4. BoundOK'
      <3>1. Plain' = Plain /\ Met' = Met
        BY <2>1 DEF Plain, Unread, Uses, Overtaken, AgainstTheText, Has, Met, FirstPass
      <3>2. \A n : Numbered(n)' = Numbered(n) /\ Held(n)' = Held(n)
        BY <2>1 DEF Numbered, Held, At
      <3> QED
        BY <2>1, <3>1, <3>2 DEF WalkInv, BoundOK
    <2> QED
      BY <2>2, <2>3, <2>4 DEF WalkInv
  <1> QED
    BY <1>1, <1>2, <1>3, <1>4, <1>5, <1>6 DEF Next

\* The inductive invariant of the walk, of which the three below follow.
THEOREM SpecWalkInv == Spec => []WalkInv
  BY WalkInvInit, WalkInvNext, PTL DEF Spec

\* The type invariant is part of it.
LEMMA WalkInvTypeOK == WalkInv => TypeOK
  <1> SUFFICES ASSUME WalkInv PROVE TypeOK
    OBVIOUS
  <1> USE DEF WalkInv
  <1>1. visited \in Nat
    BY OrderFacts DEF TextOK, WalkOK
  <1>2. ASSUME NEW j \in DOMAIN pending PROVE pending[j].occurrence \in Occurrences
    <2>1. CASE pending = <<>>
      BY <2>1
    <2>2. CASE pending # <<>>
      <3>1. PICK i, k, here, before, other :
              /\ i \in Met
              /\ k = LastOf(i)
              /\ here.occurrence = k /\ before.occurrence = k - 1 /\ other.occurrence = k
              /\ Holds(i, k, here, before, other)
        BY <2>2, PendingCases, Zenon
      <3>2. /\ k \in Occurrences
            /\ text[i].shape = "inverted" => k - 1 \in Occurrences
        BY <3>1, OwnPlaces DEF Met
      <3>3. pending[j] \in {here, other} \/ (pending[j] = before /\ text[i].shape = "inverted")
        BY <3>1, PairOf, OneOf, TripleOf DEF Holds
      <3> QED
        BY <3>1, <3>2, <3>3
    <2> QED
      BY <2>1, <2>2
  <1>3. \A p \in params : p[1] \in 1..(4 * MaxSites) /\ p[2] \in Occurrences
    BY DEF ParamsOK
  <1> QED
    BY <1>1, <1>2, <1>3 DEF TypeOK, TextOK, WalkOK

\* All sites of the clauses that are visited, once all are.
LEMMA AllMet ==
  ASSUME WalkInv, Analyzed
  PROVE  /\ Met \ {i \in DOMAIN text : text[i].shape = "unread"} = DOMAIN text \ Unread
         /\ Unread = {} => Met = DOMAIN text
  <1>1. \A c \in DOMAIN VisitOrder[kind] : c < visited
    BY OrderFacts DEF WalkInv, TextOK, WalkOK, Analyzed
  <1>2. ASSUME NEW i \in DOMAIN text
        PROVE  i \in Met <=> \E c \in DOMAIN VisitOrder[kind] : VisitOrder[kind][c] = text[i].clause
    <2>1. PICK v : v = <<i, FirstPass(i)>>
      OBVIOUS
    <2>2. v \in Visits /\ v[1] = i
      BY <2>1, VisitFacts DEF WalkInv
    <2>3. v \in entered <=> \E c \in DOMAIN VisitOrder[kind] : VisitOrder[kind][c] = text[i].clause
      BY <1>1, <2>2 DEF WalkInv, WalkOK
    <2> QED
      BY <2>1, <2>3 DEF Met
  <1>3. Met \subseteq DOMAIN text
    BY DEF Met
  <1> QED
    BY <1>2, <1>3 DEF Unread

\* Once analysed, a statement with `$N' has exactly the parameters of the
\* places the walk reaches, each with its own number: register_param loses
\* and renumbers none, in whatever order the clauses are visited.
THEOREM SpecDollarsKeepTheirNumber == Spec => []DollarsKeepTheirNumber
  <1>1. WalkInv => DollarsKeepTheirNumber
    <2> SUFFICES ASSUME WalkInv, Analyzed, style = "$"
                 PROVE  params = {<<k, k>> : k \in {o \in Occurrences :
                          \E i \in DOMAIN text \ Unread : o \in LastOf(i - 1) + 1 .. LastOf(i)}}
      BY DEF DollarsKeepTheirNumber
    <2>1. Covered = {o \in Occurrences : \E i \in DOMAIN text \ Unread : o \in Own(i)}
      <3>1. \A i \in DOMAIN text : Own(i) \subseteq Occurrences
        BY OwnPlaces DEF WalkInv
      <3>2. {e \in Met : text[e].shape # "unread"} = DOMAIN text \ Unread
        BY AllMet DEF Met
      <3> QED
        BY <3>1, <3>2 DEF Covered
    <2>2. DOMAIN pending = {}
      BY DEF Analyzed
    <2>3. params = {<<k, k>> : k \in Covered}
      BY <2>2 DEF WalkInv, DollarsOK
    <2> QED
      BY <2>1, <2>3 DEF Own
  <1> QED
    BY <1>1, SpecWalkInv, PTL

\* Once analysed, a statement whose `?' are all reached, and in clauses that
\* are visited as the text has them, numbers each as the driver binds it:
\* resolve_placeholder_position counts none twice and skips none.
THEOREM SpecBoundInTextOrder == Spec => []BoundInTextOrder
  <1>1. WalkInv => BoundInTextOrder
    <2> SUFFICES ASSUME WalkInv, Analyzed, Plain PROVE params = InTextOrder
      BY DEF BoundInTextOrder, Plain
    <2>1. pending = <<>> /\ Unread = {}
      BY DEF Analyzed, Plain
    <2>2. PICK c \in 0..Len(text) : Met = 1..c /\ params = Numbered(c)
      BY <2>1, PairOf, OneOf DEF WalkInv, BoundOK, Held
    <2>3. Met = 1..Len(text) /\ Len(text) \in Nat
      BY <2>1, AllMet, SiteFacts DEF WalkInv
    <2>4. c = Len(text)
      <3>1. ~(c < Len(text))
        <4>1. Len(text) > 0 => Len(text) \in 1..c
          BY <2>2, <2>3
        <4> QED
          BY <2>2, <2>3, <4>1
      <3> QED
        BY <2>2, <2>3, <3>1
    <2>5. LastOf(Len(text)) = Len(text)
      <3>1. InvertedUpto(Len(text)) = {}
        BY SiteFacts DEF InvertedUpto, Plain, Uses, WalkInv
      <3>2. Cardinality(InvertedUpto(Len(text))) = 0
        BY <3>1, FS_EmptySet
      <3> QED
        BY <2>3, <3>2, LastOfFacts
    <2> QED
      BY <2>2, <2>4, <2>5 DEF InTextOrder, Numbered, Occurrences
  <1> QED
    BY <1>1, SpecWalkInv, PTL

\* Every parameter found has a position under four for each site, and the
\* number of a placeholder of the text.
THEOREM SpecTypeOK == Spec => []TypeOK
  BY SpecWalkInv, WalkInvTypeOK, PTL
=============================================================================
