-------------------------- MODULE NullabilityProofs --------------------------
(***************************************************************************)
(* First the walk over a FROM clause, for any number of sources and any    *)
(* nesting of parentheses.  No outer join is overlooked: the walk never    *)
(* looks back at a join, so the invariant says, group by group, what the   *)
(* flags pushed so far owe to the joins still to be closed.  A group's     *)
(* sources are those pushed since it was opened and before the next one    *)
(* was.  And no source is marked for nothing: the same, the other way.     *)
(*                                                                         *)
(* Then the expressions: no column typed as never NULL meets a NULL, for   *)
(* any chain of expressions and queries.  EmitSound is the argument: an    *)
(* expression is sound if the values of its arm hold no NULL whenever it   *)
(* is inferred NOT NULL, no gap is used and its operands are sound.  One   *)
(* lemma per arm shows that of the arm.                                    *)
(***************************************************************************)
EXTENDS Nullability, TLAPS

\* Where the sources of group k end.
Ends(k) == IF k = Len(groups) THEN Len(sources) ELSE groups[k + 1].base

\* A source whose columns keep their NOT NULL.
Kept(i) == ~sources[i] /\ i \notin doubted

\* A group on the nullable side of the join that connects it.
Optional(g) == g.join \in {"left", "full", "outer apply"}

\* Groups begin one after the other.
BasesOK ==
  /\ \A k \in 1..Len(groups) : groups[k].base <= Ends(k)
  /\ \A k, l \in 1..Len(groups) : k <= l => groups[k].base <= groups[l].base

\* A group that has read nothing has no sources, and what is being read in it
\* then is its first source.
FirstOK ==
  /\ \A k \in 1..Len(groups) :
       groups[k].present = {} => groups[k].base = Ends(k)
  /\ \A k \in 2..Len(groups) :
       (groups[k].join = "first") = (groups[k - 1].present = {})

\* Inside an optional group, however deep, the flag is inherited or a gap is
\* known; so every source in it is nullable or doubted.
InheritOK ==
  \A k \in 1..Len(groups) : Optional(groups[k]) =>
    /\ \A l \in k..Len(groups) : groups[l].inherit \/ groups[l].doubtful
    /\ \A i \in groups[k].base + 1 .. Len(sources) : ~Kept(i)

\* A RIGHT or FULL join has marked whatever was there when it was read.
MarkedOK ==
  \A k \in 1..Len(groups) : groups[k].join \in {"right", "full"} =>
    \A i \in 1..groups[k].base : sources[i]

\* The sources that keep their NOT NULL are in every row: of the items before,
\* and of their group as far as it is read.
ItemsOK == \A i \in 1..groups[1].base : Kept(i) => \A row \in items : i \in row
GroupsOK ==
  \A k \in 1..Len(groups) : \A i \in groups[k].base + 1 .. Ends(k) :
    Kept(i) => \A row \in groups[k].present : i \in row

FromInv ==
  /\ FromTypeOK /\ BasesOK /\ FirstOK /\ InheritOK /\ MarkedOK /\ ItemsOK /\ GroupsOK
-----------------------------------------------------------------------------
(* Facts on sequences and on the rows of a join. *)

LEMMA AppendFacts ==
  ASSUME NEW S, NEW s \in Seq(S), NEW e \in S
  PROVE  /\ Append(s, e) \in Seq(S)
         /\ Len(Append(s, e)) = Len(s) + 1
         /\ \A i \in 1..Len(s) : Append(s, e)[i] = s[i]
         /\ Append(s, e)[Len(s) + 1] = e
  OBVIOUS

LEMMA TopFacts ==
  ASSUME FromTypeOK
  PROVE  /\ Len(groups) \in Nat \ {0} /\ Len(sources) \in Nat
         /\ \A k \in 1..Len(groups) : groups[k] \in Group /\ groups[k].base \in Nat
         /\ top = groups[Len(groups)] /\ top \in Group /\ top.base \in Nat
  <1>1. Len(groups) \in Nat \ {0} /\ Len(sources) \in Nat
    BY DEF FromTypeOK
  <1>2. \A k \in 1..Len(groups) : groups[k] \in Group
    BY DEF FromTypeOK
  <1>3. \A g \in Group : g.base \in Nat
    BY FromBounds DEF Group
  <1> QED
    BY <1>1, <1>2, <1>3 DEF top

LEMMA MatchedFacts ==
  ASSUME NEW left, NEW right
  PROVE  /\ \A row \in Matched(left, right) :
              \E l \in left, r \in right : row = l \cup r
         /\ \A l \in left, r \in right : l \cup r \in Matched(left, right)
  <1>1. \A row \in Matched(left, right) : \E l \in left, r \in right : row = l \cup r
    BY DEF Matched
  <1>2. \A l \in left, r \in right : l \cup r \in Matched(left, right)
    BY DEF Matched
  <1> QED
    BY <1>1, <1>2

\* What a join yields, and which sources it keeps in every row.
LEMMA JoinedKeeps ==
  ASSUME NEW join \in Joins \ {"right", "full"}, NEW left, NEW right, NEW i,
         \A l \in left : i \in l
  PROVE  \A row \in Joined(join, left, right) : i \in row
  <1>1. \A row \in Matched(left, right) : i \in row
    BY MatchedFacts
  <1>2. \A row \in Joined(join, left, right) : row \in Matched(left, right) \cup left
    BY DEF Joined, Joins
  <1> QED
    BY <1>1, <1>2

LEMMA JoinedBrings ==
  ASSUME NEW join \in {"first", "inner", "right"}, NEW left, NEW right, NEW i,
         \A r \in right : i \in r
  PROVE  \A row \in Joined(join, left, right) : i \in row
  <1>1. \A row \in Matched(left, right) : i \in row
    BY MatchedFacts
  <1>2. \A row \in Joined(join, left, right) : row \in Matched(left, right) \cup right
    BY DEF Joined
  <1> QED
    BY <1>1, <1>2

LEMMA JoinedSome ==
  ASSUME NEW join \in Joins \cup {"first"}, NEW left, NEW right,
         right # {}, join # "first" => left # {}
  PROVE  Joined(join, left, right) # {}
  <1>1. Matched(left, right) # {} \/ left = {}
    BY MatchedFacts
  <1> QED
    BY <1>1 DEF Joined, Joins

LEMMA JoinedType ==
  ASSUME NEW join \in Joins \cup {"first"}, NEW D,
         NEW left \in SUBSET SUBSET D, NEW right \in SUBSET SUBSET D
  PROVE  Joined(join, left, right) \in SUBSET SUBSET D
  <1>1. \A row \in Matched(left, right) : row \in SUBSET D
    BY MatchedFacts
  <1> QED
    BY <1>1 DEF Joined, Joins

LEMMA MarkedFacts ==
  ASSUME FromTypeOK, NEW join
  PROVE  /\ Marked(join) \in Seq(BOOLEAN)
         /\ Len(Marked(join)) = Len(sources)
         /\ \A i \in 1..Len(sources) :
              /\ sources[i] => Marked(join)[i]
              /\ join \in {"right", "full"} => Marked(join)[i]
              /\ Marked(join)[i] => sources[i] \/ join \in {"right", "full"}
  <1>1. sources \in Seq(BOOLEAN) /\ Len(sources) \in Nat /\ DOMAIN sources = 1..Len(sources)
    BY DEF FromTypeOK
  <1>2. Marked(join) \in [1..Len(sources) -> BOOLEAN]
    BY <1>1 DEF Marked
  <1>3. Marked(join) \in Seq(BOOLEAN) /\ Len(Marked(join)) = Len(sources)
    BY <1>1, <1>2
  <1> QED
    BY <1>1, <1>3 DEF Marked

LEMMA FlagFacts ==
  ASSUME NEW join, NEW inherit \in BOOLEAN
  PROVE  /\ JoinFlag(join, inherit) \in BOOLEAN
         /\ join \in {"left", "full"} => JoinFlag(join, inherit)
         /\ join # "right" /\ inherit => JoinFlag(join, inherit)
  BY DEF JoinFlag

-----------------------------------------------------------------------------
(* The walk starts with the invariant. *)

LEMMA OpenedType ==
  ASSUME NEW inherit \in BOOLEAN, NEW join \in Joins \cup {"first"},
         NEW base \in 0..MaxSources, NEW doubtful \in BOOLEAN
  PROVE  /\ Opened(inherit, join, base, doubtful) \in Group
         /\ Opened(inherit, join, base, doubtful).base = base
         /\ Opened(inherit, join, base, doubtful).join = join
         /\ Opened(inherit, join, base, doubtful).inherit = inherit
         /\ Opened(inherit, join, base, doubtful).doubtful = doubtful
         /\ Opened(inherit, join, base, doubtful).present = {}
  BY DEF Opened, Group

\* The state of a walk that begins: also that of the next SELECT.
LEMMA FromInitInv == FromInit => FromInv
  <1> SUFFICES ASSUME FromInit PROVE FromInv
    OBVIOUS
  <1> DEFINE g == Opened(FALSE, "first", 0, FALSE)
  <1>1. /\ g \in Group /\ g.base = 0 /\ g.join = "first" /\ g.present = {}
    BY FromBounds DEF Opened, Group, Joins
  <1> HIDE DEF g
  <1>2. /\ groups = <<g>> /\ Len(groups) = 1 /\ groups[1] = g /\ groups \in Seq(Group)
        /\ sources = <<>> /\ Len(sources) = 0 /\ sources \in Seq(BOOLEAN)
    <2>1. groups = <<g>> /\ sources = <<>>
      BY DEF FromInit, g
    <2> QED
      BY <1>1, <2>1
  <1>3. FromTypeOK
    <2>1. items = {{}} /\ doubted = {} /\ widened = FALSE
      BY DEF FromInit
    <2>2. items \in SUBSET SUBSET (1..MaxSources) /\ doubted \in SUBSET (1..MaxSources)
      BY <2>1
    <2>3. Len(sources) <= MaxSources /\ Len(groups) >= 1
      BY <1>2, FromBounds
    <2> QED
      BY <1>2, <2>1, <2>2, <2>3 DEF FromTypeOK
  <1>4. Ends(1) = 0
    BY <1>2 DEF Ends
  <1>5. BasesOK /\ FirstOK
    BY <1>1, <1>2, <1>4 DEF BasesOK, FirstOK
  <1>6. \A k \in 1..Len(groups) : groups[k].join = "first"
    BY <1>1, <1>2
  <1>7. InheritOK /\ MarkedOK
    BY <1>6 DEF InheritOK, MarkedOK, Optional
  <1>8. ItemsOK /\ GroupsOK
    BY <1>1, <1>2, <1>4 DEF ItemsOK, GroupsOK
  <1> QED
    BY <1>3, <1>5, <1>7, <1>8 DEF FromInv

-----------------------------------------------------------------------------
(* A source is pushed. *)

\* What pushing a source does, n being the group read and m the sources so far.
SourceAdded(join, n, m) ==
  /\ FromTypeOK /\ n \in Nat \ {0} /\ m \in Nat /\ m < MaxSources
  /\ \A k \in 1..n : groups[k] \in Group /\ groups[k].base \in Nat
  /\ top = groups[n] /\ top \in Group
  /\ sources' \in Seq(BOOLEAN) /\ Len(sources') = m + 1
  /\ \A i \in 1..m :
       /\ sources[i] => sources'[i]
       /\ join \in {"right", "full"} => sources'[i]
       /\ sources'[i] => sources[i] \/ join \in {"right", "full"}
  /\ sources'[m + 1] = JoinFlag(join, top.inherit)
  /\ top.present \in SUBSET SUBSET (1..MaxSources)
  /\ Joined(join, top.present, {{m + 1}}) # {}
  /\ groups' \in Seq(Group) /\ Len(groups') = n
  /\ \A k \in 1..n : /\ groups'[k].base = groups[k].base
                     /\ groups'[k].join = groups[k].join
                     /\ groups'[k].inherit = groups[k].inherit
                     /\ groups'[k].doubtful = groups[k].doubtful
                     /\ k # n => groups'[k].present = groups[k].present
  /\ groups'[n].present = Joined(join, top.present, {{m + 1}})
  /\ \A k \in 1..n : Ends(k)' = IF k = n THEN m + 1 ELSE Ends(k)
  /\ \A k \in 1..n : groups[k].base <= Ends(k) /\ Ends(k) \in Nat /\ Ends(k) <= m
  /\ Ends(n) = m

\* What pushing a source does to the flags and to its group.
LEMMA AddSourceEffect ==
  ASSUME FromInv, NEW join \in Joins \cup {"first"}, AddSource(join),
         NEW n, n = Len(groups), NEW m, m = Len(sources)
  PROVE  SourceAdded(join, n, m)
  <1>0. /\ FromTypeOK /\ n \in Nat \ {0} /\ m \in Nat /\ m < MaxSources
        /\ \A k \in 1..n : groups[k] \in Group /\ groups[k].base \in Nat
        /\ top = groups[n] /\ top \in Group
    BY TopFacts DEF FromInv, AddSource, Walk
  <1>1. /\ sources' \in Seq(BOOLEAN) /\ Len(sources') = m + 1
        /\ \A i \in 1..m : /\ sources[i] => sources'[i]
                           /\ join \in {"right", "full"} => sources'[i]
                           /\ sources'[i] => sources[i] \/ join \in {"right", "full"}
        /\ sources'[m + 1] = JoinFlag(join, top.inherit)
    <2>1. top.inherit \in BOOLEAN
      BY <1>0 DEF Group
    <2>2. JoinFlag(join, top.inherit) \in BOOLEAN
      BY <2>1, FlagFacts
    <2>3. sources' = Append(Marked(join), JoinFlag(join, top.inherit))
      BY DEF AddSource
    <2> QED
      BY <1>0, <2>2, <2>3, MarkedFacts, AppendFacts
  <1>2. /\ top.present \in SUBSET SUBSET (1..MaxSources)
        /\ Joined(join, top.present, {{m + 1}}) \in SUBSET SUBSET (1..MaxSources)
        /\ Joined(join, top.present, {{m + 1}}) # {}
    <2>1. top.present \in SUBSET SUBSET (1..MaxSources)
      BY <1>0 DEF Group
    <2>2. {{m + 1}} \in SUBSET SUBSET (1..MaxSources)
      BY <1>0, FromBounds
    <2>3. join # "first" => top.present # {}
      BY DEF AddSource, Walk, NextJoin
    <2> DEFINE D == 1..MaxSources
               right == {{m + 1}}
    <2>4. Joined(join, top.present, right) \in SUBSET SUBSET D
      <3>1. top.present \in SUBSET SUBSET D /\ right \in SUBSET SUBSET D
        BY <2>1, <2>2
      <3> HIDE DEF D, right
      <3> QED
        BY <3>1, JoinedType
    <2>5. Joined(join, top.present, {{m + 1}}) # {}
      BY <2>3, JoinedSome
    <2> QED
      BY <2>1, <2>4, <2>5
  <1>3. /\ groups' \in Seq(Group) /\ Len(groups') = n
        /\ \A k \in 1..n : /\ groups'[k].base = groups[k].base
                           /\ groups'[k].join = groups[k].join
                           /\ groups'[k].inherit = groups[k].inherit
                           /\ groups'[k].doubtful = groups[k].doubtful
                           /\ k # n => groups'[k].present = groups[k].present
        /\ groups'[n].present = Joined(join, top.present, {{m + 1}})
    <2>1. groups' = [groups EXCEPT ![n].present = Joined(join, top.present, {{m + 1}})]
      BY <1>0 DEF AddSource
    <2>2. [groups[n] EXCEPT !.present = Joined(join, top.present, {{m + 1}})] \in Group
      BY <1>0, <1>2 DEF Group
    <2>3. groups \in Seq(Group)
      BY <1>0 DEF FromTypeOK
    <2> QED
      BY <1>0, <2>1, <2>2, <2>3 DEF Group
  <1>4. \A k \in 1..n : Ends(k)' = IF k = n THEN m + 1 ELSE Ends(k)
    BY <1>0, <1>1, <1>3 DEF Ends
  <1>5. /\ \A k \in 1..n : groups[k].base <= Ends(k) /\ Ends(k) \in Nat /\ Ends(k) <= m
        /\ Ends(n) = m
    <2>1. \A k \in 1..n : Ends(k) \in Nat /\ Ends(k) <= m
      BY <1>0 DEF FromInv, BasesOK, Ends
    <2> QED
      BY <1>0, <2>1 DEF FromInv, BasesOK, Ends
  <1> QED
    BY <1>0, <1>1, <1>2, <1>3, <1>4, <1>5 DEF SourceAdded

LEMMA AddSourceInv ==
  ASSUME FromInv, NEW join \in Joins \cup {"first"}, AddSource(join),
         NEW n, n = Len(groups), NEW m, m = Len(sources)
  PROVE  FromInv'
  <1>added. SourceAdded(join, n, m)
    BY AddSourceEffect
  <1>0. /\ FromTypeOK /\ n \in Nat \ {0} /\ m \in Nat /\ m < MaxSources
        /\ \A k \in 1..n : groups[k] \in Group /\ groups[k].base \in Nat
        /\ top = groups[n] /\ top \in Group
    BY <1>added DEF SourceAdded
  <1>1. /\ sources' \in Seq(BOOLEAN) /\ Len(sources') = m + 1
        /\ \A i \in 1..m : /\ sources[i] => sources'[i]
                           /\ join \in {"right", "full"} => sources'[i]
                           /\ sources'[i] => sources[i] \/ join \in {"right", "full"}
        /\ sources'[m + 1] = JoinFlag(join, top.inherit)
    BY <1>added DEF SourceAdded
  <1>2. /\ top.present \in SUBSET SUBSET (1..MaxSources)
        /\ Joined(join, top.present, {{m + 1}}) # {}
    BY <1>added DEF SourceAdded
  <1>3. /\ groups' \in Seq(Group) /\ Len(groups') = n
        /\ \A k \in 1..n : /\ groups'[k].base = groups[k].base
                           /\ groups'[k].join = groups[k].join
                           /\ groups'[k].inherit = groups[k].inherit
                           /\ groups'[k].doubtful = groups[k].doubtful
                           /\ k # n => groups'[k].present = groups[k].present
        /\ groups'[n].present = Joined(join, top.present, {{m + 1}})
    BY <1>added DEF SourceAdded
  <1>4. /\ doubted' \in SUBSET (1..MaxSources)
        /\ \A i : i \in doubted => i \in doubted'
        /\ Gap(join) => m + 1 \in doubted'
    <2>1. doubted' = doubted \cup (IF Gap(join) THEN {m + 1} ELSE {})
      BY DEF AddSource
    <2>2. m + 1 \in 1..MaxSources
      BY <1>0, FromBounds
    <2> QED
      BY <1>0, <2>1, <2>2 DEF FromTypeOK
  <1>5. \A i \in 1..m : Kept(i)' => Kept(i)
    BY <1>1, <1>4 DEF Kept
  <1>6. \A k \in 1..n : Ends(k)' = IF k = n THEN m + 1 ELSE Ends(k)
    BY <1>added DEF SourceAdded
  <1>7. /\ \A k \in 1..n : groups[k].base <= Ends(k) /\ Ends(k) \in Nat /\ Ends(k) <= m
        /\ Ends(n) = m
    BY <1>added DEF SourceAdded
  <1>8. FromTypeOK'
    BY <1>0, <1>1, <1>3, <1>4, FromBounds DEF FromTypeOK, AddSource, Walk
  <1>9. BasesOK'
    <2>1. \A k \in 1..n : groups'[k].base <= Ends(k)'
      BY <1>0, <1>3, <1>6, <1>7
    <2>2. ASSUME NEW k \in 1..n, NEW l \in 1..n, k <= l
          PROVE  groups'[k].base <= groups'[l].base
      <3>1. groups[k].base <= groups[l].base
        BY <2>2 DEF FromInv, BasesOK
      <3>2. groups'[k].base = groups[k].base /\ groups'[l].base = groups[l].base
        BY <1>3
      <3> QED
        BY <3>1, <3>2
    <2> QED
      BY <1>3, <2>1, <2>2 DEF BasesOK
  <1>10. FirstOK'
    <2>1. \A k \in 1..n : groups'[k].present = {} => groups'[k].base = Ends(k)'
      <3> SUFFICES ASSUME NEW k \in 1..n, groups'[k].present = {}
                   PROVE  groups'[k].base = Ends(k)'
        OBVIOUS
      <3>1. k # n /\ groups[k].present = {}
        BY <1>2, <1>3
      <3>2. groups[k].base = Ends(k)
        BY <3>1 DEF FromInv, FirstOK
      <3> QED
        BY <1>3, <1>6, <3>1, <3>2
    <2>2. \A k \in 2..n : (groups'[k].join = "first") = (groups'[k - 1].present = {})
      <3> SUFFICES ASSUME NEW k \in 2..n
                   PROVE  (groups'[k].join = "first") = (groups'[k - 1].present = {})
        OBVIOUS
      <3>1. k \in 1..n /\ k - 1 \in 1..n /\ k - 1 # n
        BY <1>0
      <3>2. (groups[k].join = "first") = (groups[k - 1].present = {})
        BY DEF FromInv, FirstOK
      <3> QED
        BY <1>3, <3>1, <3>2
    <2> QED
      BY <1>3, <2>1, <2>2 DEF FirstOK
  <1>11. InheritOK'
    <2> SUFFICES ASSUME NEW k \in 1..n, Optional(groups[k])
                 PROVE  /\ \A l \in k..n : groups'[l].inherit \/ groups'[l].doubtful
                        /\ \A i \in groups[k].base + 1 .. m + 1 : ~Kept(i)'
      BY <1>1, <1>3 DEF InheritOK, Optional
    <2>1. \A l \in k..n : groups[l].inherit \/ groups[l].doubtful
      BY DEF FromInv, InheritOK
    <2>2. \A l \in k..n : groups'[l].inherit \/ groups'[l].doubtful
      BY <1>0, <1>3, <2>1
    <2>3. top.inherit \/ top.doubtful
      BY <1>0, <2>1
    <2>4. sources'[m + 1] \/ Gap(join)
      BY <1>1, <2>3 DEF JoinFlag, Gap
    <2>5. ~Kept(m + 1)'
      BY <1>4, <2>4 DEF Kept
    <2>6. \A i \in groups[k].base + 1 .. m : ~Kept(i)
      BY DEF FromInv, InheritOK
    <2>7. \A i \in groups[k].base + 1 .. m : ~Kept(i)'
      BY <1>0, <1>5, <2>6
    <2> QED
      BY <1>0, <2>2, <2>5, <2>7
  <1>12. MarkedOK'
    <2> SUFFICES ASSUME NEW k \in 1..n, groups[k].join \in {"right", "full"},
                        NEW i \in 1..groups[k].base
                 PROVE  sources'[i]
      BY <1>3 DEF MarkedOK
    <2>1. sources[i] /\ i \in 1..m
      BY <1>0, <1>7 DEF FromInv, MarkedOK
    <2> QED
      BY <1>1, <2>1
  <1>13. ItemsOK'
    <2>1. items' = items
      BY DEF AddSource, Walk
    <2>2. groups'[1].base = groups[1].base /\ groups[1].base \in Nat /\ groups[1].base <= m
      BY <1>0, <1>3, <1>7
    <2> QED
      BY <1>0, <1>5, <2>1, <2>2 DEF FromInv, ItemsOK
  <1>14. GroupsOK'
    <2> SUFFICES ASSUME NEW k \in 1..n, NEW i \in groups[k].base + 1 .. Ends(k)', Kept(i)'
                 PROVE  \A row \in groups'[k].present : i \in row
      BY <1>3 DEF GroupsOK
    <2>1. CASE k # n
      <3>1. i \in groups[k].base + 1 .. Ends(k) /\ i \in 1..m
        BY <1>0, <1>6, <1>7, <2>1
      <3> QED
        BY <1>3, <1>5, <2>1, <3>1 DEF FromInv, GroupsOK
    <2>2. CASE k = n /\ i # m + 1
      <3>1. i \in groups[n].base + 1 .. Ends(n) /\ i \in 1..m
        BY <1>0, <1>6, <1>7, <2>2
      <3>2. \A row \in top.present : i \in row
        BY <1>0, <1>5, <3>1 DEF FromInv, GroupsOK
      <3>3. join \notin {"right", "full"}
        BY <1>1, <3>1 DEF Kept
      <3>4. top.present # {}
        BY <1>0, <3>1 DEF FromInv, FirstOK
      <3>5. join \in Joins \ {"right", "full"}
        BY <3>3, <3>4 DEF AddSource, Walk, NextJoin
      <3> QED
        BY <1>3, <2>2, <3>2, <3>5, JoinedKeeps
    <2>3. CASE k = n /\ i = m + 1
      <3>1. join \notin {"left", "full"}
        BY <1>1, <2>3 DEF Kept, JoinFlag
      <3>2. join # "outer apply"
        BY <1>1, <1>4, <2>3 DEF Kept, JoinFlag, Gap
      <3>3. join \in {"first", "inner", "right"}
        BY <3>1, <3>2 DEF Joins
      <3> QED
        BY <1>3, <2>3, <3>3, JoinedBrings
    <2> QED
      BY <2>1, <2>2, <2>3
  <1> QED
    BY <1>8, <1>9, <1>10, <1>11, <1>12, <1>13, <1>14 DEF FromInv

-----------------------------------------------------------------------------
(* A group is opened. *)

\* What opening a group does.
LEMMA OpenGroupEffect ==
  ASSUME FromInv, NEW join \in Joins \cup {"first"}, OpenGroup(join),
         NEW n, n = Len(groups), NEW m, m = Len(sources)
  PROVE  /\ FromTypeOK /\ n \in Nat \ {0} /\ m \in Nat /\ m < MaxSources
         /\ \A k \in 1..n : groups[k] \in Group /\ groups[k].base \in Nat
         /\ top = groups[n] /\ top \in Group
         /\ sources' \in Seq(BOOLEAN) /\ Len(sources') = m
         /\ \A i \in 1..m :
              /\ sources[i] => sources'[i]
              /\ join \in {"right", "full"} => sources'[i]
              /\ sources'[i] => sources[i] \/ join \in {"right", "full"}
         /\ groups' \in Seq(Group) /\ Len(groups') = n + 1
         /\ \A k \in 1..n : groups'[k] = groups[k]
         /\ groups'[n + 1].base = m /\ groups'[n + 1].join = join
         /\ groups'[n + 1].present = {}
         /\ groups'[n + 1].inherit = JoinFlag(join, top.inherit)
         /\ groups'[n + 1].doubtful = Gap(join)
         /\ \A k \in 1..n : Ends(k) \in Nat /\ Ends(k) <= m /\ groups[k].base <= Ends(k)
         /\ Ends(n) = m /\ Ends(n + 1)' = m
         /\ \A k \in 1..n : Ends(k)' = Ends(k)
  <1>0. /\ FromTypeOK /\ n \in Nat \ {0} /\ m \in Nat /\ m < MaxSources
        /\ \A k \in 1..n : groups[k] \in Group /\ groups[k].base \in Nat
        /\ top = groups[n] /\ top \in Group
    BY TopFacts DEF FromInv, OpenGroup, Walk
  <1>1. /\ sources' \in Seq(BOOLEAN) /\ Len(sources') = m
        /\ \A i \in 1..m : /\ sources[i] => sources'[i]
                           /\ join \in {"right", "full"} => sources'[i]
                           /\ sources'[i] => sources[i] \/ join \in {"right", "full"}
    BY <1>0, MarkedFacts DEF OpenGroup
  <1> DEFINE new == Opened(JoinFlag(join, top.inherit), join, m, Gap(join))
  <1>2. /\ new \in Group /\ new.base = m /\ new.join = join /\ new.present = {}
        /\ new.inherit = JoinFlag(join, top.inherit) /\ new.doubtful = Gap(join)
    <2>1. top.inherit \in BOOLEAN /\ top.doubtful \in BOOLEAN /\ m \in 0..MaxSources
      BY <1>0, FromBounds DEF Group
    <2>2. JoinFlag(join, top.inherit) \in BOOLEAN /\ Gap(join) \in BOOLEAN
      BY <2>1 DEF JoinFlag, Gap
    <2> QED
      BY <2>1, <2>2, OpenedType
  <1> HIDE DEF new
  <1>3. /\ groups' \in Seq(Group) /\ Len(groups') = n + 1
        /\ \A k \in 1..n : groups'[k] = groups[k]
        /\ groups'[n + 1] = new
    <2>1. groups' = Append(groups, new) /\ groups \in Seq(Group)
      BY <1>0 DEF OpenGroup, FromTypeOK, new
    <2> QED
      BY <1>0, <1>2, <2>1, AppendFacts
  <1>4. \A k \in 1..n : Ends(k) \in Nat /\ Ends(k) <= m /\ groups[k].base <= Ends(k)
    BY <1>0 DEF FromInv, BasesOK, Ends
  <1>5. Ends(n) = m
    BY DEF Ends
  <1>6. \A k \in 1..n : Ends(k)' = Ends(k)
    <2> TAKE k \in 1..n
    <2>1. Ends(k)' = groups'[k + 1].base
      BY <1>0, <1>3 DEF Ends
    <2>2. CASE k = n
      BY <1>2, <1>3, <1>5, <2>1, <2>2
    <2>3. CASE k # n
      <3>1. k + 1 \in 1..n /\ Ends(k) = groups[k + 1].base
        BY <1>0, <2>3 DEF Ends
      <3> QED
        BY <1>3, <2>1, <3>1
    <2> QED
      BY <2>2, <2>3
  <1>7. Ends(n + 1)' = m
    BY <1>0, <1>1, <1>3 DEF Ends
  <1> QED
    BY <1>0, <1>1, <1>2, <1>3, <1>4, <1>5, <1>6, <1>7

LEMMA OpenGroupInv ==
  ASSUME FromInv, NEW join \in Joins \cup {"first"}, OpenGroup(join),
         NEW n, n = Len(groups), NEW m, m = Len(sources)
  PROVE  FromInv'
  <1>0. /\ FromTypeOK /\ n \in Nat \ {0} /\ m \in Nat /\ m < MaxSources
        /\ \A k \in 1..n : groups[k] \in Group /\ groups[k].base \in Nat
        /\ top = groups[n] /\ top \in Group
    BY OpenGroupEffect
  <1>1. /\ sources' \in Seq(BOOLEAN) /\ Len(sources') = m
        /\ \A i \in 1..m : /\ sources[i] => sources'[i]
                           /\ join \in {"right", "full"} => sources'[i]
                           /\ sources'[i] => sources[i] \/ join \in {"right", "full"}
    BY OpenGroupEffect
  <1>2. /\ groups'[n + 1].base = m /\ groups'[n + 1].join = join
        /\ groups'[n + 1].present = {}
        /\ groups'[n + 1].inherit = JoinFlag(join, top.inherit)
        /\ groups'[n + 1].doubtful = Gap(join)
    BY OpenGroupEffect
  <1>3. /\ groups' \in Seq(Group) /\ Len(groups') = n + 1
        /\ \A k \in 1..n : groups'[k] = groups[k]
    BY OpenGroupEffect
  <1>4. doubted' = doubted /\ items' = items
    BY DEF OpenGroup, Walk
  <1>5. \A i \in 1..m : Kept(i)' => Kept(i)
    BY <1>1, <1>4 DEF Kept
  <1>6. \A k \in 1..n : Ends(k) \in Nat /\ Ends(k) <= m /\ groups[k].base <= Ends(k)
    BY OpenGroupEffect
  <1>7. Ends(n) = m
    BY OpenGroupEffect
  <1>8. \A k \in 1..n : Ends(k)' = Ends(k)
    BY OpenGroupEffect
  <1>9. Ends(n + 1)' = m
    BY OpenGroupEffect
  <1>10. FromTypeOK'
    BY <1>0, <1>1, <1>3, <1>4 DEF FromTypeOK, OpenGroup, Walk
  <1>11. BasesOK'
    <2>1. \A k \in 1..n + 1 : groups'[k].base <= Ends(k)'
      BY <1>0, <1>2, <1>3, <1>6, <1>8, <1>9
    <2>2. \A k, l \in 1..n : k <= l => groups'[k].base <= groups'[l].base
      BY <1>3 DEF FromInv, BasesOK
    <2>3. \A k \in 1..n + 1 : groups'[k].base <= groups'[n + 1].base
      BY <1>0, <1>2, <1>3, <1>6
    <2> QED
      BY <1>0, <1>3, <2>1, <2>2, <2>3 DEF BasesOK
  <1>12. FirstOK'
    <2>1. \A k \in 1..n + 1 : groups'[k].present = {} => groups'[k].base = Ends(k)'
      BY <1>0, <1>2, <1>3, <1>8, <1>9 DEF FromInv, FirstOK
    <2>2. (groups'[n + 1].join = "first") = (groups'[n].present = {})
      BY <1>0, <1>2, <1>3 DEF OpenGroup, Walk, NextJoin
    <2>3. \A k \in 2..n : (groups'[k].join = "first") = (groups'[k - 1].present = {})
      <3> SUFFICES ASSUME NEW k \in 2..n
                   PROVE  (groups'[k].join = "first") = (groups'[k - 1].present = {})
        OBVIOUS
      <3>1. k \in 1..n /\ k - 1 \in 1..n
        BY <1>0
      <3>2. (groups[k].join = "first") = (groups[k - 1].present = {})
        BY DEF FromInv, FirstOK
      <3> QED
        BY <1>3, <3>1, <3>2
    <2>4. \A k \in 2..n + 1 : (groups'[k].join = "first") = (groups'[k - 1].present = {})
      <3> SUFFICES ASSUME NEW k \in 2..n + 1
                   PROVE  (groups'[k].join = "first") = (groups'[k - 1].present = {})
        OBVIOUS
      <3>1. CASE k = n + 1
        <4>1. k - 1 = n
          BY <1>0, <3>1
        <4> QED
          BY <2>2, <3>1, <4>1
      <3>2. CASE k # n + 1
        <4>1. k \in 2..n
          BY <1>0, <3>2
        <4> QED
          BY <2>3, <4>1
      <3> QED
        BY <3>1, <3>2
    <2> QED
      BY <1>3, <2>1, <2>4 DEF FirstOK
  <1>13. InheritOK'
    <2> SUFFICES ASSUME NEW k \in 1..n + 1, Optional(groups'[k])
                 PROVE  /\ \A l \in k..n + 1 : groups'[l].inherit \/ groups'[l].doubtful
                        /\ \A i \in groups'[k].base + 1 .. m : ~Kept(i)'
      BY <1>1, <1>3 DEF InheritOK
    <2>1. CASE k = n + 1
      <3>1. groups'[n + 1].inherit \/ groups'[n + 1].doubtful
        BY <1>2, <1>3, <2>1 DEF Optional, JoinFlag, Gap
      <3> QED
        BY <1>0, <1>2, <1>3, <2>1, <3>1
    <2>2. CASE k # n + 1
      <3>1. k \in 1..n /\ Optional(groups[k])
        BY <1>0, <1>3, <2>2
      <3>2. /\ \A l \in k..n : groups[l].inherit \/ groups[l].doubtful
            /\ \A i \in groups[k].base + 1 .. m : ~Kept(i)
        BY <3>1 DEF FromInv, InheritOK
      <3>3. top.inherit \/ top.doubtful
        BY <1>0, <3>1, <3>2
      <3>4. groups'[n + 1].inherit \/ groups'[n + 1].doubtful
        BY <1>2, <3>3 DEF JoinFlag, Gap
      <3>5. \A l \in k..n + 1 : groups'[l].inherit \/ groups'[l].doubtful
        <4> SUFFICES ASSUME NEW l \in k..n + 1, l # n + 1
                     PROVE  groups'[l].inherit \/ groups'[l].doubtful
          BY <1>3, <3>4
        <4>1. l \in k..n /\ l \in 1..n
          BY <1>0, <3>1
        <4> QED
          BY <1>3, <3>2, <4>1
      <3>6. \A i \in groups[k].base + 1 .. m : i \in 1..m
        BY <1>0, <3>1
      <3> QED
        BY <1>3, <1>5, <3>1, <3>2, <3>5, <3>6
    <2> QED
      BY <2>1, <2>2
  <1>14. MarkedOK'
    <2> SUFFICES ASSUME NEW k \in 1..n + 1, groups'[k].join \in {"right", "full"},
                        NEW i \in 1..groups'[k].base
                 PROVE  sources'[i]
      BY <1>3 DEF MarkedOK
    <2>1. CASE k = n + 1
      BY <1>1, <1>2, <1>3, <2>1
    <2>2. CASE k # n + 1
      <3>1. k \in 1..n
        BY <1>0, <2>2
      <3>2. sources[i] /\ i \in 1..m
        BY <1>0, <1>3, <1>6, <3>1 DEF FromInv, MarkedOK
      <3> QED
        BY <1>1, <3>2
    <2> QED
      BY <2>1, <2>2
  <1>15. ItemsOK'
    <2>1. groups'[1].base = groups[1].base /\ groups[1].base \in Nat /\ groups[1].base <= m
      BY <1>0, <1>3, <1>6
    <2> QED
      BY <1>0, <1>4, <1>5, <2>1 DEF FromInv, ItemsOK
  <1>16. GroupsOK'
    <2> SUFFICES ASSUME NEW k \in 1..n + 1, NEW i \in groups'[k].base + 1 .. Ends(k)',
                        Kept(i)'
                 PROVE  \A row \in groups'[k].present : i \in row
      BY <1>3 DEF GroupsOK
    <2>1. k \in 1..n
      BY <1>0, <1>2, <1>3, <1>9
    <2>2. i \in groups[k].base + 1 .. Ends(k) /\ i \in 1..m
      BY <1>0, <1>3, <1>6, <1>8, <2>1
    <2> QED
      BY <1>3, <1>5, <2>1, <2>2 DEF FromInv, GroupsOK
  <1> QED
    BY <1>10, <1>11, <1>12, <1>13, <1>14, <1>15, <1>16 DEF FromInv

-----------------------------------------------------------------------------
(* A group is closed: the rows of its parent are those of the join. *)

\* What closing the group n does, m being the sources so far.
GroupClosed(n, m) ==
  LET outer == groups[n - 1]
      pairs == Joined(top.join, outer.present, top.present)
  IN /\ FromTypeOK /\ n \in Nat \ {0, 1} /\ m \in Nat
     /\ \A k \in 1..n : groups[k] \in Group /\ groups[k].base \in Nat
     /\ top = groups[n] /\ top \in Group /\ top.present # {}
     /\ outer \in Group /\ n - 1 \in 1..n /\ n - 1 \in Nat
     /\ (top.join = "first") = (outer.present = {})
     /\ top.join \in Joins \cup {"first"}
     /\ pairs # {}
     /\ UNCHANGED <<sources, items, doubted, widened>>
     /\ groups' \in Seq(Group) /\ Len(groups') = n - 1
     /\ \A k \in 1..n - 1 :
          /\ groups'[k].base = groups[k].base
          /\ groups'[k].join = groups[k].join
          /\ groups'[k].inherit = groups[k].inherit
          /\ groups'[k].doubtful = groups[k].doubtful
          /\ k # n - 1 => groups'[k].present = groups[k].present
     /\ groups'[n - 1].present = pairs
     /\ \A k \in 1..n : Ends(k) \in Nat /\ Ends(k) <= m /\ groups[k].base <= Ends(k)
     /\ Ends(n) = m /\ Ends(n - 1) = top.base
     /\ \A k \in 1..n - 1 : Ends(k)' = IF k = n - 1 THEN m ELSE Ends(k)

\* What closing a group does.
LEMMA CloseGroupEffect ==
  ASSUME FromInv, CloseGroup, NEW n, n = Len(groups), NEW m, m = Len(sources)
  PROVE  GroupClosed(n, m)
  <1>0. /\ FromTypeOK /\ n \in Nat \ {0, 1} /\ m \in Nat
        /\ \A k \in 1..n : groups[k] \in Group /\ groups[k].base \in Nat
        /\ top = groups[n] /\ top \in Group /\ top.present # {}
    BY TopFacts DEF FromInv, CloseGroup
  <1> DEFINE outer == groups[n - 1]
             pairs == Joined(top.join, outer.present, top.present)
  <1>1. outer \in Group /\ n - 1 \in 1..n /\ n - 1 \in Nat
    BY <1>0
  <1>2. (top.join = "first") = (outer.present = {})
    BY <1>0 DEF FromInv, FirstOK
  <1>3. top.join \in Joins \cup {"first"}
    BY <1>0 DEF Group
  <1>4. pairs \in SUBSET SUBSET (1..MaxSources)
    <2> DEFINE D == 1..MaxSources
               join == top.join
               left == outer.present
               right == top.present
    <2>1. left \in SUBSET SUBSET D /\ right \in SUBSET SUBSET D
      BY <1>0, <1>1 DEF Group
    <2>2. join \in Joins \cup {"first"}
      BY <1>3
    <2> HIDE DEF D, join, left, right
    <2>3. Joined(join, left, right) \in SUBSET SUBSET D
      BY <2>1, <2>2, JoinedType
    <2> QED
      BY <2>3 DEF D, join, left, right
  <1>5. pairs # {}
    <2>1. top.join # "first" => outer.present # {}
      BY <1>2
    <2> QED
      BY <1>0, <1>3, <2>1, JoinedSome
  <1>6. UNCHANGED <<sources, items, doubted, widened>>
    BY DEF CloseGroup
  <1>7. /\ groups' \in Seq(Group) /\ Len(groups') = n - 1
        /\ \A k \in 1..n - 1 : /\ groups'[k].base = groups[k].base
                               /\ groups'[k].join = groups[k].join
                               /\ groups'[k].inherit = groups[k].inherit
                               /\ groups'[k].doubtful = groups[k].doubtful
                               /\ k # n - 1 => groups'[k].present = groups[k].present
        /\ groups'[n - 1].present = pairs
    <2> DEFINE joined == [outer EXCEPT !.present = pairs]
    <2>1. /\ joined \in Group
          /\ joined.base = outer.base /\ joined.join = outer.join
          /\ joined.inherit = outer.inherit /\ joined.doubtful = outer.doubtful
          /\ joined.present = pairs
      BY <1>1, <1>4 DEF Group
    <2>2. groups' = [k \in 1..n - 1 |-> IF k = n - 1 THEN joined ELSE groups[k]]
      BY <1>0 DEF CloseGroup
    <2> HIDE DEF joined, outer, pairs
    <2>3. groups' \in [1..n - 1 -> Group]
      BY <1>0, <1>1, <2>1, <2>2
    <2>4. groups' \in Seq(Group) /\ Len(groups') = n - 1
      BY <1>1, <2>3
    <2> QED
      BY <1>0, <1>1, <2>1, <2>2, <2>4 DEF outer
  <1> HIDE DEF pairs
  <1>8. /\ \A k \in 1..n : Ends(k) \in Nat /\ Ends(k) <= m /\ groups[k].base <= Ends(k)
        /\ Ends(n) = m /\ Ends(n - 1) = top.base
    BY <1>0 DEF FromInv, BasesOK, Ends
  <1>9. \A k \in 1..n - 1 : Ends(k)' = IF k = n - 1 THEN m ELSE Ends(k)
    BY <1>0, <1>6, <1>7 DEF Ends
  <1> QED
    BY <1>0, <1>1, <1>2, <1>3, <1>5, <1>6, <1>7, <1>8, <1>9 DEF pairs, GroupClosed

LEMMA CloseGroupInv ==
  ASSUME FromInv, CloseGroup, NEW n, n = Len(groups), NEW m, m = Len(sources)
  PROVE  FromInv'
  <1>closed. GroupClosed(n, m)
    BY CloseGroupEffect
  <1>0. /\ FromTypeOK /\ n \in Nat \ {0, 1} /\ m \in Nat
        /\ \A k \in 1..n : groups[k] \in Group /\ groups[k].base \in Nat
        /\ top = groups[n] /\ top \in Group /\ top.present # {}
    BY <1>closed DEF GroupClosed
  <1> DEFINE outer == groups[n - 1]
             pairs == Joined(top.join, outer.present, top.present)
  <1>1. outer \in Group /\ n - 1 \in 1..n /\ n - 1 \in Nat
    BY <1>closed DEF GroupClosed
  <1>2. (top.join = "first") = (outer.present = {})
    BY <1>closed DEF GroupClosed
  <1>3. top.join \in Joins \cup {"first"}
    BY <1>closed DEF GroupClosed
  <1>5. pairs # {}
    BY <1>closed DEF GroupClosed
  <1>6. UNCHANGED <<sources, items, doubted, widened>>
    BY <1>closed DEF GroupClosed
  <1>7. /\ groups' \in Seq(Group) /\ Len(groups') = n - 1
        /\ \A k \in 1..n - 1 : /\ groups'[k].base = groups[k].base
                               /\ groups'[k].join = groups[k].join
                               /\ groups'[k].inherit = groups[k].inherit
                               /\ groups'[k].doubtful = groups[k].doubtful
                               /\ k # n - 1 => groups'[k].present = groups[k].present
        /\ groups'[n - 1].present = pairs
    BY <1>closed DEF GroupClosed
  <1>9. /\ \A k \in 1..n : Ends(k) \in Nat /\ Ends(k) <= m /\ groups[k].base <= Ends(k)
        /\ Ends(n) = m /\ Ends(n - 1) = top.base
    <2>1. \A k \in 1..n : Ends(k) \in Nat /\ Ends(k) <= m /\ groups[k].base <= Ends(k)
      BY <1>closed DEF GroupClosed
    <2>2. Ends(n) = m /\ Ends(n - 1) = top.base
      BY <1>0 DEF Ends
    <2> QED
      BY <2>1, <2>2
  <1>10. \A k \in 1..n - 1 : Ends(k)' = IF k = n - 1 THEN m ELSE Ends(k)
    BY <1>closed DEF GroupClosed
  <1> HIDE DEF pairs
  <1>8. \A i : Kept(i)' = Kept(i)
    BY <1>6 DEF Kept
  <1>11. FromTypeOK'
    BY <1>0, <1>1, <1>6, <1>7 DEF FromTypeOK
  <1>12. BasesOK'
    <2>1. \A k \in 1..n - 1 : groups[k].base <= m
      BY <1>0, <1>9
    <2>2. \A k \in 1..n - 1 : groups'[k].base <= Ends(k)'
      <3> SUFFICES ASSUME NEW k \in 1..n - 1 PROVE groups'[k].base <= Ends(k)'
        OBVIOUS
      <3>1. k \in 1..n
        BY <1>0
      <3>2. groups[k].base <= m /\ groups[k].base <= Ends(k)
        BY <1>9, <2>1, <3>1
      <3> QED
        BY <1>7, <1>10, <3>2
    <2>3. \A k, l \in 1..n - 1 : k <= l => groups'[k].base <= groups'[l].base
      <3> SUFFICES ASSUME NEW k \in 1..n - 1, NEW l \in 1..n - 1, k <= l
                   PROVE  groups'[k].base <= groups'[l].base
        OBVIOUS
      <3>1. k \in 1..n /\ l \in 1..n
        BY <1>0
      <3>2. groups[k].base <= groups[l].base
        BY <3>1 DEF FromInv, BasesOK
      <3> QED
        BY <1>7, <3>2
    <2> QED
      BY <1>7, <2>2, <2>3 DEF BasesOK
  <1>13. FirstOK'
    <2>1. \A k \in 1..n - 1 : groups'[k].present = {} => groups'[k].base = Ends(k)'
      BY <1>0, <1>5, <1>7, <1>10 DEF FromInv, FirstOK
    <2>2. \A k \in 2..n - 1 : (groups'[k].join = "first") = (groups'[k - 1].present = {})
      <3> SUFFICES ASSUME NEW k \in 2..n - 1
                   PROVE  (groups'[k].join = "first") = (groups'[k - 1].present = {})
        OBVIOUS
      <3>1. k \in 1..n - 1 /\ k - 1 \in 1..n - 1 /\ k - 1 # n - 1 /\ k \in 2..n
        BY <1>0
      <3>2. (groups[k].join = "first") = (groups[k - 1].present = {})
        BY <3>1 DEF FromInv, FirstOK
      <3>3. groups'[k].join = groups[k].join
        BY <1>7, <3>1
      <3>4. groups'[k - 1].present = groups[k - 1].present
        BY <1>7, <3>1
      <3> QED
        BY <3>2, <3>3, <3>4
    <2> QED
      BY <1>7, <2>1, <2>2 DEF FirstOK
  <1>14. InheritOK'
    <2> SUFFICES ASSUME NEW k \in 1..n - 1, Optional(groups[k])
                 PROVE  /\ \A l \in k..n - 1 : groups'[l].inherit \/ groups'[l].doubtful
                        /\ \A i \in groups[k].base + 1 .. m : ~Kept(i)
      BY <1>6, <1>7, <1>8 DEF InheritOK, Optional
    <2>1. /\ \A l \in k..n : groups[l].inherit \/ groups[l].doubtful
          /\ \A i \in groups[k].base + 1 .. m : ~Kept(i)
      BY <1>0 DEF FromInv, InheritOK
    <2> QED
      BY <1>0, <1>7, <2>1
  <1>15. MarkedOK'
    <2> SUFFICES ASSUME NEW k \in 1..n - 1, groups[k].join \in {"right", "full"},
                        NEW i \in 1..groups[k].base
                 PROVE  sources[i]
      BY <1>6, <1>7 DEF MarkedOK
    <2>1. k \in 1..n
      BY <1>0
    <2> QED
      BY <2>1 DEF FromInv, MarkedOK
  <1>16. ItemsOK'
    BY <1>0, <1>6, <1>7, <1>8 DEF FromInv, ItemsOK
  <1>17. GroupsOK'
    <2> SUFFICES ASSUME NEW k \in 1..n - 1, NEW i \in groups[k].base + 1 .. Ends(k)', Kept(i)
                 PROVE  \A row \in groups'[k].present : i \in row
      BY <1>7, <1>8 DEF GroupsOK
    <2>1. CASE k # n - 1
      <3>1. k \in 1..n /\ i \in groups[k].base + 1 .. Ends(k)
        BY <1>0, <1>10, <2>1
      <3> QED
        BY <1>7, <2>1, <3>1 DEF FromInv, GroupsOK
    <2>2. CASE k = n - 1 /\ i <= top.base
      <3>1. i \in outer.base + 1 .. Ends(n - 1) /\ i \in 1..top.base
        BY <1>0, <1>1, <1>9, <2>2
      <3>2. \A row \in outer.present : i \in row
        BY <1>1, <3>1 DEF FromInv, GroupsOK
      <3>3. top.join \notin {"right", "full"}
        BY <1>0, <3>1 DEF FromInv, MarkedOK, Kept
      <3>4. outer.present # {}
        BY <1>0, <1>1, <3>1 DEF FromInv, FirstOK
      <3>5. top.join \in Joins \ {"right", "full"}
        BY <1>2, <1>3, <3>3, <3>4
      <3> QED
        BY <1>7, <2>2, <3>2, <3>5, JoinedKeeps DEF pairs
    <2>3. CASE k = n - 1 /\ ~(i <= top.base)
      <3>1. i \in top.base + 1 .. m /\ i \in top.base + 1 .. Ends(n)
        BY <1>0, <1>9, <1>10, <2>3
      <3>2. \A row \in top.present : i \in row
        BY <1>0, <3>1 DEF FromInv, GroupsOK
      <3>3. ~Optional(top)
        BY <1>0, <3>1 DEF FromInv, InheritOK
      <3>4. top.join \in {"first", "inner", "right"}
        BY <1>3, <3>3 DEF Optional, Joins
      <3> QED
        BY <1>7, <2>3, <3>2, <3>4, JoinedBrings DEF pairs
    <2> QED
      BY <2>1, <2>2, <2>3
  <1> QED
    BY <1>11, <1>12, <1>13, <1>14, <1>15, <1>16, <1>17 DEF FromInv

-----------------------------------------------------------------------------
(* The next item of FROM. *)

LEMMA NextItemInv ==
  ASSUME FromInv, NextItem, NEW m, m = Len(sources)
  PROVE  FromInv'
  <1>0. /\ FromTypeOK /\ Len(groups) = 1 /\ m \in Nat /\ m < MaxSources
        /\ groups[1].base \in Nat /\ top = groups[1] /\ top \in Group
    BY TopFacts DEF FromInv, NextItem
  <1> DEFINE g == Opened(FALSE, "first", m, FALSE)
  <1>1. /\ g \in Group /\ g.base = m /\ g.join = "first" /\ g.present = {}
    <2>1. m \in 0..MaxSources
      BY <1>0, FromBounds
    <2> QED
      BY <2>1 DEF Opened, Group
  <1> HIDE DEF g
  <1>2. /\ groups' = <<g>> /\ Len(groups') = 1 /\ groups'[1] = g /\ groups' \in Seq(Group)
    <2>1. groups' = <<g>>
      BY DEF NextItem, g
    <2> QED
      BY <1>1, <2>1
  <1>3. UNCHANGED <<sources, doubted, widened>> /\ items' = Matched(items, top.present)
    BY DEF NextItem
  <1>4. items' \in SUBSET SUBSET (1..MaxSources)
    <2> DEFINE D == 1..MaxSources
    <2>1. items \in SUBSET SUBSET D /\ top.present \in SUBSET SUBSET D
      BY <1>0 DEF Group, FromTypeOK
    <2> HIDE DEF D
    <2>2. \A row \in items' : row \in SUBSET D
      BY <1>3, <2>1, MatchedFacts
    <2> QED
      BY <2>2 DEF D
  <1>5. FromTypeOK'
    BY <1>0, <1>2, <1>3, <1>4 DEF FromTypeOK
  <1>6. Ends(1)' = m
    BY <1>2, <1>3 DEF Ends
  <1>7. BasesOK' /\ FirstOK'
    BY <1>0, <1>1, <1>2, <1>6 DEF BasesOK, FirstOK
  <1>8. \A k \in 1..Len(groups') : groups'[k].join = "first"
    BY <1>1, <1>2
  <1>9. InheritOK' /\ MarkedOK'
    BY <1>8 DEF InheritOK, MarkedOK, Optional
  <1>10. GroupsOK'
    BY <1>0, <1>1, <1>2, <1>6 DEF GroupsOK
  <1>11. ItemsOK'
    <2> SUFFICES ASSUME NEW i \in 1..m, Kept(i), NEW row \in items'
                 PROVE  i \in row
      BY <1>1, <1>2, <1>3 DEF ItemsOK, Kept
    <2>1. PICK before \in items, here \in top.present : row = before \cup here
      BY <1>3, MatchedFacts
    <2>2. CASE i <= groups[1].base
      BY <1>0, <2>1, <2>2 DEF FromInv, ItemsOK
    <2>3. CASE ~(i <= groups[1].base)
      <3>1. i \in groups[1].base + 1 .. Ends(1)
        BY <1>0, <2>3 DEF Ends
      <3> QED
        BY <1>0, <2>1, <3>1 DEF FromInv, GroupsOK
    <2> QED
      BY <2>2, <2>3
  <1> QED
    BY <1>5, <1>7, <1>9, <1>10, <1>11 DEF FromInv

-----------------------------------------------------------------------------
LEMMA FromInvNext == FromInv /\ [FromNext]_fromVars => FromInv'
  <1> SUFFICES ASSUME FromInv, [FromNext]_fromVars PROVE FromInv'
    OBVIOUS
  <1>1. ASSUME NEW join \in Joins \cup {"first"}, AddSource(join) PROVE FromInv'
    BY <1>1, AddSourceInv
  <1>2. ASSUME NEW join \in Joins \cup {"first"}, OpenGroup(join) PROVE FromInv'
    BY <1>2, OpenGroupInv
  <1>3. CASE CloseGroup
    BY <1>3, CloseGroupInv
  <1>4. CASE NextItem
    BY <1>4, NextItemInv
  <1>5. CASE UNCHANGED fromVars
    <2>1. \A k : Ends(k)' = Ends(k) /\ Kept(k)' = Kept(k)
      BY <1>5 DEF fromVars, Ends, Kept
    <2>2. /\ sources' = sources /\ groups' = groups /\ items' = items
          /\ doubted' = doubted /\ widened' = widened
      BY <1>5 DEF fromVars
    <2>3. FromTypeOK' /\ BasesOK' /\ FirstOK'
      BY <2>1, <2>2 DEF FromInv, FromTypeOK, BasesOK, FirstOK
    <2>4. InheritOK' /\ MarkedOK'
      BY <2>1, <2>2 DEF FromInv, InheritOK, MarkedOK, Optional
    <2>5. ItemsOK' /\ GroupsOK'
      BY <2>1, <2>2 DEF FromInv, ItemsOK, GroupsOK
    <2> QED
      BY <2>3, <2>4, <2>5 DEF FromInv
  <1> QED
    BY <1>1, <1>2, <1>3, <1>4, <1>5 DEF FromNext

\* The invariant is enough: of a clause that can end, nothing is still owed.
LEMMA FromInvPresent == FromInv => NonNullIsPresent
  <1> SUFFICES ASSUME FromInv, Complete, NEW i \in DOMAIN sources \ doubted, ~sources[i],
                      NEW row \in RowsOfFrom
               PROVE  i \in row
    BY DEF NonNullIsPresent
  <1>1. /\ FromTypeOK /\ Len(groups) = 1 /\ Len(sources) \in Nat
        /\ groups[1].base \in Nat /\ top = groups[1]
    BY TopFacts DEF FromInv, Complete
  <1>2. i \in 1..Len(sources) /\ Kept(i)
    BY <1>1 DEF FromTypeOK, Kept
  <1>3. PICK before \in items, here \in top.present : row = before \cup here
    BY MatchedFacts DEF RowsOfFrom
  <1>4. CASE i <= groups[1].base
    BY <1>1, <1>2, <1>3, <1>4 DEF FromInv, ItemsOK
  <1>5. CASE ~(i <= groups[1].base)
    <2>1. i \in groups[1].base + 1 .. Ends(1)
      BY <1>1, <1>2, <1>5 DEF Ends
    <2> QED
      BY <1>1, <1>2, <1>3, <2>1 DEF FromInv, GroupsOK
  <1> QED
    BY <1>4, <1>5

-----------------------------------------------------------------------------
(* No source is marked for nothing. *)

\* The rows of a group, or of the items before it, hold its own sources only.
RowsOK ==
  /\ \A k \in 1..Len(groups) : \A row \in groups[k].present :
       row \subseteq groups[k].base + 1 .. Ends(k)
  /\ items # {}
  /\ \A row \in items : row \subseteq 1..groups[1].base

\* The flag a group was entered with.
FlagsOK ==
  /\ ~groups[1].inherit
  /\ \A k \in 2..Len(groups) :
       groups[k].inherit = JoinFlag(groups[k].join, groups[k - 1].inherit)

\* A RIGHT or FULL join is being read to the right of group k.
Awaits(k) == k < Len(groups) /\ groups[k + 1].join \in {"right", "full"}

\* A marked source is missing from a row of its group, or will be once the
\* group around it is closed, or the one being read to its right.
MarksOK ==
  \A k \in 1..Len(groups) : \A i \in groups[k].base + 1 .. Ends(k) :
    sources[i] => \/ groups[k].inherit
                  \/ Awaits(k)
                  \/ \E row \in groups[k].present : i \notin row

\* ... or from a row of the items before.
ItemMarksOK ==
  \A i \in 1..groups[1].base : sources[i] => \E row \in items : i \notin row

RealInv ==
  /\ RowsOK
  /\ FlagsOK
  /\ ~widened => MarksOK /\ ItemMarksOK

-----------------------------------------------------------------------------
(* Which rows of a join lack a source. *)

LEMMA JoinedParts ==
  ASSUME NEW join, NEW left, NEW right, join \in Joins \cup {"first"}
  PROVE  /\ Joined(join, left, right) \subseteq Matched(left, right) \cup left \cup right
         /\ join # "first" => Matched(left, right) \subseteq Joined(join, left, right)
         /\ join \in {"first", "right", "full"} => right \subseteq Joined(join, left, right)
         /\ join \in {"left", "full", "outer apply"} => left \subseteq Joined(join, left, right)
  BY DEF Joined, Joins

\* A row of one side that lacks i meets one of the other side that does.
LEMMA JoinedLacks ==
  ASSUME NEW join \in Joins, NEW left, NEW right, NEW i,
         NEW l \in left, NEW r \in right, i \notin l, i \notin r
  PROVE  \E row \in Joined(join, left, right) : i \notin row
<1>1. l \cup r \in Matched(left, right) /\ i \notin l \cup r
  BY MatchedFacts
<1> QED
  BY <1>1, JoinedParts DEF Joins

\* An outer join returns the rows of its left, or right, side alone.
LEMMA JoinedDrops ==
  ASSUME NEW join \in Joins, NEW left, NEW right, NEW i, NEW row, i \notin row,
         \/ join \in {"left", "full"} /\ row \in left
         \/ join \in {"right", "full"} /\ row \in right
  PROVE  \E w \in Joined(join, left, right) : i \notin w
  BY JoinedParts

\* Rows over two ranges, one after the other.
LEMMA JoinedRange ==
  ASSUME NEW join \in Joins \cup {"first"}, NEW left, NEW right,
         NEW a \in Nat, NEW b \in Nat, NEW c \in Nat, a <= b, b <= c,
         \A l \in left : l \subseteq a + 1 .. b,
         \A r \in right : r \subseteq b + 1 .. c
  PROVE  \A row \in Joined(join, left, right) : row \subseteq a + 1 .. c
<1>1. a + 1 .. b \subseteq a + 1 .. c /\ b + 1 .. c \subseteq a + 1 .. c
  OBVIOUS
<1>2. \A row \in Matched(left, right) : row \subseteq a + 1 .. c
  BY <1>1, MatchedFacts
<1> QED
  BY <1>1, <1>2, JoinedParts

\* A marked source is missing from a row of the whole clause.
LEMMA ClauseLacks ==
  ASSUME FromInv, RealInv, ~widened, Complete,
         NEW i \in 1..Len(sources), sources[i]
  PROVE  \E row \in Matched(items, top.present) : i \notin row
<1>0. /\ Len(groups) = 1 /\ Len(sources) \in Nat /\ groups[1].base \in Nat
      /\ top = groups[1] /\ Ends(1) = Len(sources) /\ top.present # {}
  BY TopFacts DEF FromInv, Complete, Ends
<1>1. CASE i <= groups[1].base
  <2>1. PICK before \in items : i \notin before
    BY <1>0, <1>1 DEF RealInv, ItemMarksOK
  <2>2. PICK here \in top.present : TRUE
    BY <1>0
  <2>3. i \notin here
    BY <1>0, <1>1 DEF RealInv, RowsOK
  <2>4. before \cup here \in Matched(items, top.present)
    BY <2>1, <2>2, MatchedFacts
  <2> QED
    BY <2>1, <2>3, <2>4
<1>2. CASE ~(i <= groups[1].base)
  <2>1. i \in groups[1].base + 1 .. Ends(1)
    BY <1>0, <1>2
  <2>2. PICK here \in top.present : i \notin here
    BY <1>0, <2>1 DEF RealInv, MarksOK, FlagsOK, Awaits
  <2>3. PICK before \in items : TRUE
    BY DEF RealInv, RowsOK
  <2>4. i \notin before
    BY <1>0, <1>2 DEF RealInv, RowsOK
  <2>5. before \cup here \in Matched(items, top.present)
    BY <2>2, <2>3, MatchedFacts
  <2> QED
    BY <2>2, <2>4, <2>5
<1> QED
  BY <1>1, <1>2

-----------------------------------------------------------------------------
(* The steps of the walk. *)

LEMMA FromInitReal == FromInit => RealInv
<1> SUFFICES ASSUME FromInit PROVE RealInv
  OBVIOUS
<1>1. /\ Len(groups) = 1 /\ groups[1].base = 0 /\ groups[1].present = {}
      /\ ~groups[1].inherit /\ sources = <<>> /\ items = {{}}
  BY DEF FromInit, Opened
<1>2. Ends(1) = 0
  BY <1>1 DEF Ends
<1> QED
  BY <1>1, <1>2 DEF RealInv, RowsOK, FlagsOK, MarksOK, ItemMarksOK

LEMMA AddSourceReal ==
  ASSUME FromInv, RealInv, NEW join \in Joins \cup {"first"}, AddSource(join),
         NEW n, n = Len(groups), NEW m, m = Len(sources)
  PROVE  RealInv'
<1> DEFINE pushed == {{m + 1}}
<1>added. SourceAdded(join, n, m)
  BY AddSourceEffect
<1>0. /\ n \in Nat \ {0} /\ m \in Nat
      /\ \A k \in 1..n : groups[k].base \in Nat
      /\ top = groups[n]
  BY <1>added DEF SourceAdded
<1>1. /\ Len(sources') = m + 1
      /\ \A i \in 1..m : sources'[i] => sources[i] \/ join \in {"right", "full"}
      /\ sources'[m + 1] = JoinFlag(join, top.inherit)
  BY <1>added DEF SourceAdded
<1>2. /\ Len(groups') = n
      /\ \A k \in 1..n : /\ groups'[k].base = groups[k].base
                         /\ groups'[k].join = groups[k].join
                         /\ groups'[k].inherit = groups[k].inherit
                         /\ k # n => groups'[k].present = groups[k].present
      /\ groups'[n].present = Joined(join, top.present, pushed)
  BY <1>added DEF SourceAdded
<1>3. \A k \in 1..n : Ends(k)' = IF k = n THEN m + 1 ELSE Ends(k)
  BY <1>added DEF SourceAdded
<1>4. /\ \A k \in 1..n : groups[k].base <= Ends(k) /\ Ends(k) \in Nat /\ Ends(k) <= m
      /\ Ends(n) = m
  BY <1>added DEF SourceAdded
<1>5. (join = "first") = (top.present = {}) /\ items' = items
      /\ widened' = (widened \/ Overreach(join))
  BY DEF AddSource, Walk, NextJoin
<1>6. \A row \in top.present : row \subseteq top.base + 1 .. m
  BY <1>0, <1>4 DEF RealInv, RowsOK
<1>11. /\ \A r \in pushed : r \subseteq m + 1 .. m + 1
       /\ {m + 1} \in pushed
  BY <1>0
<1> HIDE DEF pushed
<1>7. RowsOK'
  <2>1. \A row \in groups'[n].present : row \subseteq top.base + 1 .. m + 1
    <3>1. /\ top.base \in Nat /\ m \in Nat /\ m + 1 \in Nat
          /\ top.base <= m /\ m <= m + 1
      BY <1>0, <1>4
    <3>2. \A row \in Joined(join, top.present, pushed) :
            row \subseteq top.base + 1 .. m + 1
      BY ONLY <1>6, <1>11, <3>1, JoinedRange, join \in Joins \cup {"first"}
    <3> QED
      BY <1>2, <3>2
  <2>2. \A k \in 1..n : \A row \in groups'[k].present :
          row \subseteq groups'[k].base + 1 .. Ends(k)'
    BY <1>0, <1>2, <1>3, <2>1 DEF RealInv, RowsOK
  <2> QED
    BY <1>0, <1>2, <1>5, <2>2 DEF RealInv, RowsOK
<1>8. FlagsOK'
  BY <1>0, <1>2 DEF RealInv, FlagsOK
<1>9. ASSUME ~widened' PROVE MarksOK'
  <2>0. ~widened /\ MarksOK /\ ~Overreach(join)
    BY <1>5, <1>9 DEF RealInv
  <2> SUFFICES ASSUME NEW k \in 1..n, NEW i \in groups[k].base + 1 .. Ends(k)',
                      sources'[i], ~groups[k].inherit
               PROVE  Awaits(k)' \/ \E row \in groups'[k].present : i \notin row
    BY <1>2 DEF MarksOK
  <2>1. CASE k # n
    <3>1. i \in groups[k].base + 1 .. Ends(k) /\ i \in 1..m
      BY <1>0, <1>3, <1>4, <2>1
    <3>2. join \notin {"right", "full"}
      BY <1>0, <2>0, <2>1 DEF Overreach
    <3>3. Awaits(k) \/ \E row \in groups[k].present : i \notin row
      BY <1>1, <2>0, <3>1, <3>2 DEF MarksOK
    <3>4. Awaits(k) => Awaits(k)'
      BY <1>0, <1>2 DEF Awaits
    <3> QED
      BY <1>2, <2>1, <3>3, <3>4
  <2>2. CASE k = n /\ i # m + 1
    <3>1. i \in groups[n].base + 1 .. Ends(n) /\ i \in 1..m
      BY <1>0, <1>3, <1>4, <2>2
    <3>2. top.present # {} /\ join \in Joins
      BY <1>0, <1>5, <3>1 DEF FromInv, FirstOK
    <3>3. i \notin {m + 1} /\ {m + 1} \in pushed
      BY <1>11, <2>2
    <3>4. CASE join \in {"right", "full"}
      <4>1. \E w \in Joined(join, top.present, pushed) : i \notin w
        BY <3>2, <3>3, <3>4, JoinedDrops
      <4> QED
        BY <1>2, <2>2, <4>1
    <3>5. CASE join \notin {"right", "full"}
      <4>1. PICK row \in top.present : i \notin row
        BY <1>0, <1>1, <2>0, <2>2, <3>1, <3>5 DEF MarksOK, Awaits
      <4> QED
        BY <1>2, <2>2, <3>2, <3>3, <4>1, JoinedLacks
    <3> QED
      BY <3>4, <3>5
  <2>3. CASE k = n /\ i = m + 1
    <3>1. join \in {"left", "full"}
      BY <1>0, <1>1, <2>3 DEF JoinFlag
    <3>2. PICK row \in top.present : TRUE
      BY <1>5, <3>1
    <3>3. i \notin row
      BY <1>0, <1>6, <2>3, <3>2
    <3>4. \E w \in Joined(join, top.present, pushed) : i \notin w
      BY <3>1, <3>2, <3>3, JoinedDrops DEF Joins
    <3> QED
      BY <1>2, <2>3, <3>4
  <2> QED
    BY <2>1, <2>2, <2>3
<1>10. ASSUME ~widened' PROVE ItemMarksOK'
  <2> SUFFICES ASSUME NEW i \in 1..groups[1].base, sources'[i]
               PROVE  \E row \in items : i \notin row
    BY <1>0, <1>2, <1>5 DEF ItemMarksOK
  <2>1. i \in 1..m /\ groups[1].base > 0
    BY <1>0, <1>4
  <2>2. join \notin {"right", "full"}
    <3>1. ~Overreach(join)
      BY <1>5, <1>10
    <3>2. n = 1 => top.base > 0
      BY <1>0, <2>1
    <3> QED
      BY <1>0, <3>1, <3>2 DEF Overreach
  <2> QED
    BY <1>1, <1>5, <1>10, <2>1, <2>2 DEF RealInv, ItemMarksOK
<1> QED
  BY <1>7, <1>8, <1>9, <1>10 DEF RealInv

LEMMA OpenGroupReal ==
  ASSUME FromInv, RealInv, NEW join \in Joins \cup {"first"}, OpenGroup(join),
         NEW n, n = Len(groups), NEW m, m = Len(sources)
  PROVE  RealInv'
<1>0. /\ n \in Nat \ {0} /\ m \in Nat
      /\ \A k \in 1..n : groups[k].base \in Nat
      /\ top = groups[n]
  BY OpenGroupEffect
<1>1. /\ Len(sources') = m
      /\ \A i \in 1..m : sources'[i] => sources[i] \/ join \in {"right", "full"}
  BY OpenGroupEffect
<1>2. /\ Len(groups') = n + 1
      /\ \A k \in 1..n : groups'[k] = groups[k]
      /\ groups'[n + 1].base = m /\ groups'[n + 1].join = join
      /\ groups'[n + 1].present = {}
      /\ groups'[n + 1].inherit = JoinFlag(join, top.inherit)
  BY OpenGroupEffect
<1>3. /\ \A k \in 1..n : Ends(k)' = Ends(k)
      /\ Ends(n + 1)' = m
  BY OpenGroupEffect
<1>4. \A k \in 1..n : groups[k].base <= Ends(k) /\ Ends(k) \in Nat /\ Ends(k) <= m
  BY OpenGroupEffect
<1>5. items' = items /\ widened' = (widened \/ Overreach(join))
  BY DEF OpenGroup, Walk
<1>6. 1..n + 1 = 1..n \cup {n + 1} /\ n + 1 \notin 1..n
  BY <1>0
<1>7. RowsOK'
  <2>1. \A k \in 1..n + 1 : \A row \in groups'[k].present :
          row \subseteq groups'[k].base + 1 .. Ends(k)'
    BY <1>0, <1>2, <1>3, <1>6 DEF RealInv, RowsOK
  <2> QED
    BY <1>0, <1>2, <1>5, <2>1 DEF RealInv, RowsOK
<1>8. FlagsOK'
  <2>1. ~groups'[1].inherit
    BY <1>0, <1>2 DEF RealInv, FlagsOK
  <2>2. ASSUME NEW k \in 2..n + 1
        PROVE  groups'[k].inherit = JoinFlag(groups'[k].join, groups'[k - 1].inherit)
    <3>1. CASE k = n + 1
      <4>1. k - 1 = n /\ n \in 1..n
        BY <1>0, <3>1
      <4> QED
        BY <1>0, <1>2, <3>1, <4>1
    <3>2. CASE k # n + 1
      <4>1. k \in 2..n /\ k \in 1..n /\ k - 1 \in 1..n
        BY <1>0, <3>2
      <4> QED
        BY <1>2, <4>1 DEF RealInv, FlagsOK
    <3> QED
      BY <3>1, <3>2
  <2> QED
    BY <1>2, <2>1, <2>2 DEF FlagsOK
<1>9. ASSUME ~widened' PROVE MarksOK'
  <2>0. ~widened /\ MarksOK /\ ~Overreach(join)
    BY <1>5, <1>9 DEF RealInv
  <2> SUFFICES ASSUME NEW k \in 1..n + 1, NEW i \in groups'[k].base + 1 .. Ends(k)',
                      sources'[i], ~groups'[k].inherit
               PROVE  Awaits(k)' \/ \E row \in groups'[k].present : i \notin row
    BY <1>2 DEF MarksOK
  <2>1. k \in 1..n
    BY <1>0, <1>2, <1>3, <1>6
  <2>2. i \in groups[k].base + 1 .. Ends(k) /\ i \in 1..m
    BY <1>0, <1>2, <1>3, <1>4, <2>1
  <2>3. CASE join \in {"right", "full"}
    <3>1. n = 1 /\ k = 1
      BY <1>0, <2>0, <2>1, <2>3 DEF Overreach
    <3> QED
      BY <1>2, <2>3, <3>1 DEF Awaits
  <2>4. CASE join \notin {"right", "full"}
    <3>1. Awaits(k) \/ \E row \in groups[k].present : i \notin row
      BY <1>1, <1>2, <2>0, <2>1, <2>2, <2>4 DEF MarksOK
    <3>2. Awaits(k) => Awaits(k)'
      BY <1>0, <1>2, <2>1 DEF Awaits
    <3> QED
      BY <1>2, <2>1, <3>1, <3>2
  <2> QED
    BY <2>3, <2>4
<1>10. ASSUME ~widened' PROVE ItemMarksOK'
  <2>0. ~widened /\ ItemMarksOK /\ ~Overreach(join)
    BY <1>5, <1>10 DEF RealInv
  <2> SUFFICES ASSUME NEW i \in 1..groups[1].base, sources'[i]
               PROVE  \E row \in items : i \notin row
    BY <1>0, <1>2, <1>5 DEF ItemMarksOK
  <2>1. i \in 1..m /\ groups[1].base > 0
    BY <1>0, <1>4
  <2>2. join \notin {"right", "full"}
    BY <1>0, <2>0, <2>1 DEF Overreach
  <2> QED
    BY <1>1, <2>0, <2>1, <2>2 DEF ItemMarksOK
<1> QED
  BY <1>7, <1>8, <1>9, <1>10 DEF RealInv

LEMMA CloseGroupReal ==
  ASSUME FromInv, RealInv, CloseGroup, NEW n, n = Len(groups), NEW m, m = Len(sources)
  PROVE  RealInv'
<1> DEFINE outer == groups[n - 1]
           pairs == Joined(top.join, outer.present, top.present)
<1>closed. GroupClosed(n, m)
  BY CloseGroupEffect
<1>0. /\ n \in Nat \ {0, 1} /\ m \in Nat
      /\ \A k \in 1..n : groups[k].base \in Nat
      /\ top = groups[n] /\ top.present # {}
      /\ n - 1 \in 1..n /\ n - 1 \in Nat
  BY <1>closed DEF GroupClosed
<1>1. /\ (top.join = "first") = (outer.present = {})
      /\ top.join \in Joins \cup {"first"}
  BY <1>closed DEF GroupClosed
<1>2. UNCHANGED <<sources, items, widened>>
  BY DEF CloseGroup
<1>3. /\ Len(groups') = n - 1
      /\ \A k \in 1..n - 1 : /\ groups'[k].base = groups[k].base
                             /\ groups'[k].join = groups[k].join
                             /\ groups'[k].inherit = groups[k].inherit
                             /\ k # n - 1 => groups'[k].present = groups[k].present
      /\ groups'[n - 1].present = pairs
  BY <1>closed DEF GroupClosed
<1> HIDE DEF pairs
<1>4. \A k \in 1..n : Ends(k) \in Nat /\ Ends(k) <= m /\ groups[k].base <= Ends(k)
  BY <1>closed DEF GroupClosed
<1>5. Ends(n) = m /\ Ends(n - 1) = top.base
  BY <1>0 DEF Ends
<1>6. \A k \in 1..n - 1 : Ends(k)' = IF k = n - 1 THEN m ELSE Ends(k)
  BY <1>0, <1>2, <1>3 DEF Ends
<1>7. /\ \A row \in outer.present : row \subseteq outer.base + 1 .. top.base
      /\ \A row \in top.present : row \subseteq top.base + 1 .. m
      /\ outer.base \in Nat /\ top.base \in Nat
      /\ outer.base <= top.base /\ top.base <= m
  <2>1. n \in 1..n
    BY <1>0
  <2> QED
    BY <1>0, <1>4, <1>5, <2>1 DEF RealInv, RowsOK
<1>8. RowsOK'
  <2>1. \A row \in pairs : row \subseteq outer.base + 1 .. m
    <3> DEFINE a == outer.base
               b == top.base
               left == outer.present
               right == top.present
               join == top.join
    <3>1. /\ a \in Nat /\ b \in Nat /\ a <= b /\ b <= m /\ m \in Nat
          /\ \A l \in left : l \subseteq a + 1 .. b
          /\ \A r \in right : r \subseteq b + 1 .. m
          /\ join \in Joins \cup {"first"}
      BY <1>0, <1>1, <1>7
    <3> HIDE DEF a, b, left, right, join
    <3>2. \A row \in Joined(join, left, right) : row \subseteq a + 1 .. m
      BY <3>1, JoinedRange
    <3> QED
      BY <3>2 DEF a, left, right, join, pairs
  <2>2. ASSUME NEW k \in 1..n - 1, NEW row \in groups'[k].present
        PROVE  row \subseteq groups'[k].base + 1 .. Ends(k)'
    <3>1. CASE k = n - 1
      BY <1>3, <1>6, <2>1, <2>2, <3>1
    <3>2. CASE k # n - 1
      <4>1. k \in 1..n /\ row \in groups[k].present
        BY <1>0, <1>3, <2>2, <3>2
      <4>2. row \subseteq groups[k].base + 1 .. Ends(k)
        BY <4>1 DEF RealInv, RowsOK
      <4> QED
        BY <1>3, <1>6, <3>2, <4>2
    <3> QED
      BY <3>1, <3>2
  <2> QED
    BY <1>0, <1>2, <1>3, <2>2 DEF RealInv, RowsOK
<1>9. FlagsOK'
  <2>1. ASSUME NEW k \in 2..n - 1
        PROVE  groups'[k].inherit = JoinFlag(groups'[k].join, groups'[k - 1].inherit)
    <3>1. k \in 2..n /\ k \in 1..n - 1 /\ k - 1 \in 1..n - 1
      BY <1>0
    <3> QED
      BY <1>3, <3>1 DEF RealInv, FlagsOK
  <2>2. ~groups'[1].inherit
    BY <1>0, <1>3 DEF RealInv, FlagsOK
  <2> QED
    BY <1>3, <2>1, <2>2 DEF FlagsOK
<1>10. ASSUME ~widened' PROVE MarksOK'
  <2>0. MarksOK
    BY <1>2, <1>10 DEF RealInv
  <2> SUFFICES ASSUME NEW k \in 1..n - 1, NEW i \in groups[k].base + 1 .. Ends(k)',
                      sources[i], ~groups[k].inherit
               PROVE  Awaits(k)' \/ \E row \in groups'[k].present : i \notin row
    BY <1>2, <1>3 DEF MarksOK
  <2>1. CASE k # n - 1
    <3>1. i \in groups[k].base + 1 .. Ends(k) /\ k \in 1..n
      BY <1>0, <1>6, <2>1
    <3>2. Awaits(k) \/ \E row \in groups[k].present : i \notin row
      BY <2>0, <3>1 DEF MarksOK
    <3>3. Awaits(k) => Awaits(k)'
      BY <1>0, <1>3, <2>1 DEF Awaits
    <3> QED
      BY <1>3, <2>1, <3>2, <3>3
  <2>2. CASE k = n - 1 /\ i <= top.base
    <3>1. i \in groups[n - 1].base + 1 .. Ends(n - 1)
      BY <1>0, <1>5, <1>7, <2>2
    <3>2. outer.present # {} /\ top.join \in Joins
      <4>1. n - 1 \in 1..Len(groups) /\ groups[n - 1].base \in Nat
        BY <1>0
      <4>2. outer.present = {} => outer.base = Ends(n - 1)
        BY <4>1 DEF FromInv, FirstOK
      <4>3. outer.base # Ends(n - 1)
        BY <3>1, <4>1
      <4> QED
        BY <1>1, <4>2, <4>3
    <3>3. PICK right \in top.present : TRUE
      BY <1>0
    <3>4. i \notin right
      BY <1>7, <2>2
    <3>5. Awaits(n - 1) \/ \E row \in outer.present : i \notin row
      BY <1>0, <2>0, <2>2, <3>1 DEF MarksOK
    <3>6. CASE Awaits(n - 1)
      <4>1. top.join \in {"right", "full"}
        BY <1>0, <3>6 DEF Awaits
      <4>2. \E w \in pairs : i \notin w
        BY <3>2, <3>3, <3>4, <4>1, JoinedDrops DEF pairs
      <4> QED
        BY <1>3, <2>2, <4>2
    <3>7. ASSUME NEW row \in outer.present, i \notin row
          PROVE  \E w \in pairs : i \notin w
      BY <3>2, <3>3, <3>4, <3>7, JoinedLacks DEF pairs
    <3> QED
      BY <1>3, <2>2, <3>5, <3>6, <3>7
  <2>3. CASE k = n - 1 /\ ~(i <= top.base)
    <3>1. i \in groups[n].base + 1 .. Ends(n) /\ n \in 1..n
      BY <1>0, <1>5, <1>6, <1>7, <2>3
    <3>2. \A left \in outer.present : i \notin left
      BY <1>7, <2>3
    <3>3. top.inherit = JoinFlag(top.join, outer.inherit)
      BY <1>0 DEF RealInv, FlagsOK
    <3>4. top.inherit \/ \E row \in top.present : i \notin row
      BY <1>0, <2>0, <3>1 DEF MarksOK, Awaits
    <3>5. CASE top.inherit
      <4>1. top.join \in {"left", "full"}
        BY <2>3, <3>3, <3>5 DEF JoinFlag
      <4>2. PICK left \in outer.present : TRUE
        BY <1>1, <4>1
      <4>3. \E w \in pairs : i \notin w
        BY <3>2, <4>1, <4>2, JoinedDrops DEF pairs, Joins
      <4> QED
        BY <1>3, <2>3, <4>3
    <3>6. ASSUME NEW right \in top.present, i \notin right
          PROVE  \E w \in pairs : i \notin w
      <4>1. CASE top.join = "first"
        BY <3>6, <4>1, JoinedParts DEF pairs
      <4>2. CASE top.join # "first"
        <5>1. top.join \in Joins
          BY <1>1, <4>2
        <5>2. PICK left \in outer.present : TRUE
          BY <1>1, <4>2
        <5> QED
          BY <3>2, <3>6, <5>1, <5>2, JoinedLacks DEF pairs
      <4> QED
        BY <4>1, <4>2
    <3> QED
      BY <1>3, <2>3, <3>4, <3>5, <3>6
  <2> QED
    BY <2>1, <2>2, <2>3
<1>11. ASSUME ~widened' PROVE ItemMarksOK'
  BY <1>0, <1>2, <1>3, <1>11 DEF RealInv, ItemMarksOK
<1> QED
  BY <1>8, <1>9, <1>10, <1>11 DEF RealInv

LEMMA NextItemReal ==
  ASSUME FromInv, RealInv, NextItem, NEW m, m = Len(sources)
  PROVE  RealInv'
<1>0. /\ Len(groups) = 1 /\ m \in Nat /\ groups[1].base \in Nat
      /\ top = groups[1] /\ top.present # {} /\ Ends(1) = m
      /\ groups[1].base <= m
  <2>1. /\ Len(groups) = 1 /\ m \in Nat /\ groups[1].base \in Nat
        /\ top = groups[1] /\ top.present # {} /\ Ends(1) = m
    BY TopFacts DEF FromInv, NextItem, Ends
  <2> QED
    BY <2>1 DEF FromInv, BasesOK
<1>1. /\ Len(groups') = 1 /\ groups'[1].base = m /\ groups'[1].present = {}
      /\ ~groups'[1].inherit
      /\ UNCHANGED <<sources, widened>> /\ items' = Matched(items, top.present)
  BY <1>0 DEF NextItem, Opened
<1>2. Ends(1)' = m
  BY <1>1 DEF Ends
<1>3. RowsOK'
  <2>1. ASSUME NEW row \in items' PROVE row \subseteq 1..m
    <3>1. PICK before \in items, here \in top.present : row = before \cup here
      BY <1>1, MatchedFacts
    <3>2. before \subseteq 1..groups[1].base /\ here \subseteq groups[1].base + 1 .. m
      BY <1>0 DEF RealInv, RowsOK
    <3> QED
      BY <1>0, <3>1, <3>2
  <2>2. items' # {}
    <3>1. PICK before \in items, here \in top.present : TRUE
      BY <1>0 DEF RealInv, RowsOK
    <3> QED
      BY <1>1, <3>1, MatchedFacts
  <2> QED
    BY <1>1, <2>1, <2>2 DEF RowsOK
<1>4. FlagsOK'
  BY <1>1 DEF FlagsOK
<1>5. MarksOK'
  BY <1>0, <1>1, <1>2 DEF MarksOK
<1>6. ASSUME ~widened' PROVE ItemMarksOK'
  <2>1. Complete /\ ~widened
    BY <1>0, <1>1, <1>6 DEF Complete
  <2> QED
    BY <1>1, <2>1, ClauseLacks DEF ItemMarksOK
<1> QED
  BY <1>3, <1>4, <1>5, <1>6 DEF RealInv

LEMMA RealInvNext == FromInv /\ RealInv /\ [FromNext]_fromVars => RealInv'
<1> SUFFICES ASSUME FromInv, RealInv, [FromNext]_fromVars PROVE RealInv'
  OBVIOUS
<1>1. ASSUME NEW join \in Joins \cup {"first"}, AddSource(join) PROVE RealInv'
  BY <1>1, AddSourceReal
<1>2. ASSUME NEW join \in Joins \cup {"first"}, OpenGroup(join) PROVE RealInv'
  BY <1>2, OpenGroupReal
<1>3. CASE CloseGroup
  BY <1>3, CloseGroupReal
<1>4. CASE NextItem
  BY <1>4, NextItemReal
<1>5. CASE UNCHANGED fromVars
  <2>1. \A k : Ends(k)' = Ends(k) /\ Awaits(k)' = Awaits(k)
    BY <1>5 DEF fromVars, Ends, Awaits
  <2>2. /\ sources' = sources /\ groups' = groups /\ items' = items
        /\ widened' = widened
    BY <1>5 DEF fromVars
  <2>3. RowsOK' /\ FlagsOK'
    BY <2>1, <2>2 DEF RealInv, RowsOK, FlagsOK
  <2>4. ASSUME ~widened' PROVE MarksOK' /\ ItemMarksOK'
    BY <2>1, <2>2, <2>4 DEF RealInv, MarksOK, ItemMarksOK
  <2> QED
    BY <2>3, <2>4 DEF RealInv
<1> QED
  BY <1>1, <1>2, <1>3, <1>4, <1>5 DEF FromNext

\* A marked source of a clause that can end is missing from some row.
LEMMA RealInvMissing == FromInv /\ RealInv => NullableIsReal
<1> SUFFICES ASSUME FromInv, RealInv, Complete, ~widened,
                    NEW i \in DOMAIN sources, sources[i]
             PROVE  \E row \in RowsOfFrom : i \notin row
  BY DEF NullableIsReal
<1>1. i \in 1..Len(sources)
  BY DEF FromInv, FromTypeOK
<1> QED
  BY <1>1, ClauseLacks DEF RowsOfFrom

-----------------------------------------------------------------------------
(* The expressions. *)

\* The select in hand: its types, and soundness so far.
SelectInv ==
  /\ dialect \in Dialects
  /\ exprs \in Seq(Info)
  /\ \A row \in rows : row \in Seq(Values) /\ Len(row) = Len(exprs)
  /\ lone \in BOOLEAN
  /\ queries \in 0..MaxQueries
  /\ NonNullIsSound

NullInv == FromInv /\ SelectInv

-----------------------------------------------------------------------------
LEMMA OperandFacts ==
  ASSUME SelectInv, NEW i \in Operands
  PROVE  /\ exprs[i] \in Info /\ Maybe(i) \in BOOLEAN /\ exprs[i].name \in Names
         /\ exprs[i].doubtful \in BOOLEAN
         /\ \A row \in rows : row[i] \in Values
         /\ ~Maybe(i) /\ ~exprs[i].doubtful => \A row \in rows : row[i] # "null"
  <1>1. i \in 1..Len(exprs) /\ exprs[i] \in Info
    BY DEF SelectInv, Operands
  <1>2. \A row \in rows : row[i] \in Values
    BY <1>1 DEF SelectInv
  <1>3. ~Maybe(i) /\ ~exprs[i].doubtful => \A row \in rows : row[i] # "null"
    BY DEF SelectInv, NonNullIsSound, Operands, Maybe
  <1> QED
    BY <1>1, <1>2, <1>3 DEF Info, Maybe

\* One more expression.
LEMMA EmitSound ==
  ASSUME SelectInv, NEW operands \in SUBSET Operands, NEW nullable \in BOOLEAN,
         NEW name \in Names, NEW gap \in BOOLEAN, NEW outcomes,
         \A row \in rows : outcomes[row] \subseteq Values,
         ~nullable /\ ~gap /\ (\A i \in operands : ~exprs[i].doubtful) =>
           \A row \in rows : "null" \notin outcomes[row],
         Emit(operands, nullable, name, gap, outcomes)
  PROVE  SelectInv' /\ UNCHANGED fromVars
  <1> DEFINE new == [nullable |-> nullable, name |-> name, bare |-> FALSE,
                     doubtful |-> \/ gap /\ ~nullable
                                  \/ \E i \in operands : exprs[i].doubtful]
  <1>1. /\ new \in Info /\ new.nullable = nullable
        /\ ~new.nullable /\ ~new.doubtful =>
             ~gap /\ \A i \in operands : ~exprs[i].doubtful
    BY DEF Info
  <1>2. exprs' = Append(exprs, new)
    BY DEF Emit
  <1> HIDE DEF new
  <1>3. /\ exprs' \in Seq(Info) /\ Len(exprs') = Len(exprs) + 1 /\ Len(exprs) \in Nat
        /\ \A i \in 1..Len(exprs) : exprs'[i] = exprs[i]
        /\ exprs'[Len(exprs) + 1] = new
    BY <1>1, <1>2, AppendFacts DEF SelectInv
  <1>4. \A row \in rows' : \E old \in rows : \E v \in outcomes[old] :
          row = Append(old, v)
    BY DEF Emit
  <1>5. ASSUME NEW old \in rows, NEW v \in outcomes[old]
        PROVE  /\ Append(old, v) \in Seq(Values) /\ Len(Append(old, v)) = Len(exprs')
               /\ \A i \in 1..Len(exprs) : Append(old, v)[i] = old[i]
               /\ Append(old, v)[Len(exprs) + 1] = v
    <2>1. old \in Seq(Values) /\ Len(old) = Len(exprs) /\ v \in Values
      BY <1>5 DEF SelectInv
    <2> QED
      BY <1>3, <2>1, AppendFacts
  <1>6. NonNullIsSound'
    <2> SUFFICES ASSUME NEW i \in 1..Len(exprs'), ~exprs'[i].nullable,
                        ~exprs'[i].doubtful, NEW row \in rows'
                 PROVE  row[i] # "null"
      BY <1>3 DEF NonNullIsSound
    <2>0. PICK old \in rows : \E v \in outcomes[old] : row = Append(old, v)
      BY <1>4
    <2>1. PICK v \in outcomes[old] : row = Append(old, v)
      BY <2>0
    <2>2. CASE i = Len(exprs) + 1
      BY <1>1, <1>3, <1>5, <2>1, <2>2
    <2>3. CASE i # Len(exprs) + 1
      <3>1. i \in 1..Len(exprs) /\ i \in DOMAIN exprs
        BY <1>3, <2>3 DEF SelectInv
      <3> QED
        BY <1>3, <1>5, <2>1, <3>1 DEF SelectInv, NonNullIsSound
    <2> QED
      BY <2>2, <2>3
  <1>7. UNCHANGED <<fromVars, dialect, lone, queries>>
    BY DEF Emit
  <1>8. \A row \in rows' : row \in Seq(Values) /\ Len(row) = Len(exprs')
    BY <1>4, <1>5
  <1> QED
    BY <1>3, <1>6, <1>7, <1>8 DEF SelectInv

\* A strict operator: NULL only out of NULL.
LEMMA StrictValues ==
  ASSUME NEW operands, NEW row \in rows
  PROVE  /\ StrictIn(operands)[row] \subseteq Values
         /\ "null" \in StrictIn(operands)[row] => \E i \in operands : row[i] = "null"
  BY DEF StrictIn, Values, NonNull

\* A partial one: NULL out of anything.
LEMMA PartlyValues ==
  ASSUME NEW partial \in BOOLEAN, NEW operands, NEW row \in rows
  PROVE  /\ Partly(partial, operands)[row] \subseteq Values
         /\ "null" \in Partly(partial, operands)[row] =>
              partial \/ \E i \in operands : row[i] = "null"
  <1>1. Partly(partial, operands)[row] =
          StrictIn(operands)[row] \cup (IF partial THEN {"null"} ELSE {})
    BY DEF Partly
  <1> QED
    BY <1>1, StrictValues DEF Values

LEMMA AlwaysValues ==
  ASSUME NEW values, NEW row \in rows
  PROVE  Always(values)[row] = values
  BY DEF Always

-----------------------------------------------------------------------------
(* The arms without operands, or whose flag ignores them. *)

LEMMA LiteralSound ==
  ASSUME SelectInv, NEW v \in Values, Literal(v)
  PROVE  SelectInv' /\ UNCHANGED fromVars
  <1>1. \A row \in rows : Always({v})[row] = {v}
    BY AlwaysValues
  <1> DEFINE isNull == v = "null"
  <1>2. /\ isNull \in BOOLEAN /\ "unknown" \in Names /\ {} \in SUBSET Operands
        /\ ~isNull => "null" \notin {v}
    BY DEF Names
  <1>3. Emit({}, isNull, "unknown", FALSE, Always({v}))
    BY DEF Literal
  <1> HIDE DEF isNull
  <1> QED
    BY <1>1, <1>2, <1>3, EmitSound

LEMMA IsNotNullSound ==
  ASSUME SelectInv, NEW i \in Operands, IsNotNull(i)
  PROVE  SelectInv' /\ UNCHANGED fromVars
  <1> DEFINE outcomes == [row \in rows |-> IF row[i] = "null" THEN {"0"} ELSE {"1"}]
  <1>1. \A row \in rows : outcomes[row] \subseteq Values /\ "null" \notin outcomes[row]
    BY DEF Values, NonNull
  <1>2. "unknown" \in Names /\ {} \in SUBSET Operands
    BY DEF Names
  <1>3. Emit({}, FALSE, "unknown", FALSE, outcomes)
    BY DEF IsNotNull
  <1> HIDE DEF outcomes
  <1> QED
    BY <1>1, <1>2, <1>3, EmitSound

LEMMA AlwaysNullableSound ==
  ASSUME SelectInv, NEW name \in Names, AlwaysNullable(name)
  PROVE  SelectInv' /\ UNCHANGED fromVars
  <1>1. \A row \in rows : Always(Values)[row] \subseteq Values
    BY AlwaysValues
  <1>2. {} \in SUBSET Operands
    OBVIOUS
  <1>3. Emit({}, TRUE, name, FALSE, Always(Values))
    BY DEF AlwaysNullable
  <1> QED
    BY <1>1, <1>2, <1>3, EmitSound

LEMMA ScalarSubquerySound ==
  ASSUME SelectInv, NEW aggregate \in BOOLEAN, NEW grouped \in BOOLEAN,
         NEW limited \in BOOLEAN, ScalarSubquery(aggregate, grouped, limited)
  PROVE  SelectInv' /\ UNCHANGED fromVars
  <1> DEFINE values == NonNull \cup
               (IF aggregate /\ ~grouped /\ ~limited THEN {} ELSE {"null"})
  <1>1. /\ values \subseteq Values
        /\ SingleRow(aggregate, grouped, limited) /\ ~limited => "null" \notin values
    BY DEF Values, NonNull, SingleRow
  <1>2. Emit({}, ~SingleRow(aggregate, grouped, limited), "subquery", limited,
             Always(values))
    BY DEF ScalarSubquery
  <1> HIDE DEF values
  <1>3. \A row \in rows : Always(values)[row] = values
    BY AlwaysValues
  <1>4. /\ (~SingleRow(aggregate, grouped, limited)) \in BOOLEAN
        /\ "subquery" \in Names /\ {} \in SUBSET Operands
    BY DEF Names
  <1> QED
    BY <1>1, <1>2, <1>3, <1>4, EmitSound

-----------------------------------------------------------------------------
(* The arms whose NULL comes out of an operand's. *)

\* What every arm over the operands i and j may use.
LEMMA TwoOperandFacts ==
  ASSUME SelectInv, NEW i \in Operands, NEW j \in Operands
  PROVE  /\ {i, j} \in SUBSET Operands
         /\ Maybe(i) \in BOOLEAN /\ Maybe(j) \in BOOLEAN
         /\ AllOperands(i, j) \in BOOLEAN /\ Fallback(i, j) \in BOOLEAN
         /\ exprs[i].name \in Names
         /\ \A row \in rows : row[i] \in Values /\ row[j] \in Values
         /\ (\A k \in {i, j} : ~exprs[k].doubtful) =>
              \A row \in rows : /\ row[i] = "null" => Maybe(i)
                                /\ row[j] = "null" => Maybe(j)
  BY OperandFacts DEF AllOperands, Fallback

LEMMA StrictSound ==
  ASSUME SelectInv, NEW i \in Operands, NEW j \in Operands, NEW partial \in BOOLEAN,
         NEW name \in Names, Strict(i, j, partial, name)
  PROVE  SelectInv' /\ UNCHANGED fromVars
  <1> DEFINE outcomes == Partly(partial, {i, j})
  <1>1. \A row \in rows : /\ outcomes[row] \subseteq Values
                          /\ "null" \in outcomes[row] =>
                               partial \/ row[i] = "null" \/ row[j] = "null"
    BY PartlyValues
  <1>2. Emit({i, j}, AllOperands(i, j), name, partial, outcomes)
    BY DEF Strict
  <1> HIDE DEF outcomes
  <1>3. ~AllOperands(i, j) /\ ~partial /\ (\A k \in {i, j} : ~exprs[k].doubtful) =>
          \A row \in rows : "null" \notin outcomes[row]
    BY <1>1, TwoOperandFacts DEF AllOperands
  <1>4. {i, j} \in SUBSET Operands /\ AllOperands(i, j) \in BOOLEAN
    BY TwoOperandFacts
  <1> QED
    BY <1>1, <1>2, <1>3, <1>4, EmitSound

LEMMA QuotientSound ==
  ASSUME SelectInv, NEW i \in Operands, NEW j \in Operands, Quotient(i, j)
  PROVE  SelectInv' /\ UNCHANGED fromVars
  <1> DEFINE outcomes ==
        [row \in rows |->
          IF "null" \in {row[i], row[j]} THEN {"null"}
          ELSE IF row[j] # "0" THEN NonNull
          ELSE IF dialect = "mysql" THEN {"null"} ELSE {}]
  <1>1. \A row \in rows : /\ outcomes[row] \subseteq Values
                          /\ "null" \in outcomes[row] =>
                               \/ row[i] = "null" \/ row[j] = "null"
                               \/ dialect = "mysql"
    BY DEF Values, NonNull
  <1>2. Emit({i, j}, AllOperands(i, j), exprs[i].name, dialect = "mysql", outcomes)
    BY DEF Quotient
  <1> HIDE DEF outcomes
  <1>3. ~AllOperands(i, j) /\ ~(dialect = "mysql") /\ (\A k \in {i, j} : ~exprs[k].doubtful)
          => \A row \in rows : "null" \notin outcomes[row]
    BY <1>1, TwoOperandFacts DEF AllOperands
  <1>4. (dialect = "mysql") \in BOOLEAN
    OBVIOUS
  <1>5. {i, j} \in SUBSET Operands /\ AllOperands(i, j) \in BOOLEAN /\ exprs[i].name \in Names
    BY TwoOperandFacts
  <1> QED
    BY <1>1, <1>2, <1>3, <1>4, <1>5, EmitSound

LEMMA ConnectiveSound ==
  ASSUME SelectInv, NEW i \in Operands, NEW j \in Operands, NEW absorbing \in NonNull,
         Connective(i, j, absorbing)
  PROVE  SelectInv' /\ UNCHANGED fromVars
  <1> DEFINE outcomes ==
        [row \in rows |->
          IF absorbing \in {row[i], row[j]} THEN {absorbing}
          ELSE IF "null" \in {row[i], row[j]} THEN {"null"}
          ELSE NonNull \ {absorbing}]
  <1>1. \A row \in rows : /\ outcomes[row] \subseteq Values
                          /\ "null" \in outcomes[row] => row[i] = "null" \/ row[j] = "null"
    BY DEF Values, NonNull
  <1>2. Emit({i, j}, AllOperands(i, j), exprs[i].name, FALSE, outcomes)
    BY DEF Connective
  <1> HIDE DEF outcomes
  <1>3. ~AllOperands(i, j) /\ (\A k \in {i, j} : ~exprs[k].doubtful)
          => \A row \in rows : "null" \notin outcomes[row]
    BY <1>1, TwoOperandFacts DEF AllOperands
  <1>4. {i, j} \in SUBSET Operands /\ AllOperands(i, j) \in BOOLEAN /\ exprs[i].name \in Names
    BY TwoOperandFacts
  <1> QED
    BY <1>1, <1>2, <1>3, <1>4, EmitSound

LEMMA FirstOperandSound ==
  ASSUME SelectInv, NEW i \in Operands, NEW j \in Operands, NEW partial \in BOOLEAN,
         NEW name \in Names, FirstOperand(i, j, partial, name)
  PROVE  SelectInv' /\ UNCHANGED fromVars
  <1> DEFINE outcomes == Partly(partial, {i, j})
             gap == Maybe(j) \/ partial
  <1>1. \A row \in rows : /\ outcomes[row] \subseteq Values
                          /\ "null" \in outcomes[row] =>
                               partial \/ row[i] = "null" \/ row[j] = "null"
    BY PartlyValues
  <1>2. Emit({i, j}, Maybe(i), name, gap, outcomes)
    BY DEF FirstOperand
  <1> HIDE DEF outcomes
  <1>3. ~Maybe(i) /\ ~gap /\ (\A k \in {i, j} : ~exprs[k].doubtful) =>
          \A row \in rows : "null" \notin outcomes[row]
    BY <1>1, TwoOperandFacts
  <1>4. {i, j} \in SUBSET Operands /\ Maybe(i) \in BOOLEAN
    BY TwoOperandFacts
  <1>5. gap \in BOOLEAN
    BY TwoOperandFacts
  <1> HIDE DEF gap
  <1> QED
    BY <1>1, <1>2, <1>3, <1>4, <1>5, EmitSound

LEMMA AnyOrAllSound ==
  ASSUME SelectInv, NEW i \in Operands, NEW j \in Operands, AnyOrAll(i, j)
  PROVE  SelectInv' /\ UNCHANGED fromVars
  <1> DEFINE outcomes == StrictIn({i, j})
             gap == Maybe(i) \/ Maybe(j)
  <1>1. \A row \in rows : /\ outcomes[row] \subseteq Values
                          /\ "null" \in outcomes[row] => row[i] = "null" \/ row[j] = "null"
    BY StrictValues
  <1>2. Emit({i, j}, FALSE, "unknown", gap, outcomes)
    BY DEF AnyOrAll
  <1> HIDE DEF outcomes
  <1>3. ~gap /\ (\A k \in {i, j} : ~exprs[k].doubtful) =>
          \A row \in rows : "null" \notin outcomes[row]
    BY <1>1, TwoOperandFacts
  <1>4. gap \in BOOLEAN /\ "unknown" \in Names
    BY TwoOperandFacts DEF Names
  <1>5. {i, j} \in SUBSET Operands
    OBVIOUS
  <1> HIDE DEF gap
  <1> QED
    BY <1>1, <1>2, <1>3, <1>4, <1>5, EmitSound

LEMMA ConvertSound ==
  ASSUME SelectInv, NEW i \in Operands, NEW failing \in {"refused", "tried", "lenient"},
         NEW name \in Names, Convert(i, failing, name)
  PROVE  SelectInv' /\ UNCHANGED fromVars
  <1> DEFINE partial == failing # "refused"
             nullable == Maybe(i) \/ failing = "tried"
             gap == failing = "lenient"
             outcomes == Partly(partial, {i})
  <1>1. partial \in BOOLEAN /\ gap \in BOOLEAN /\ nullable \in BOOLEAN
    BY OperandFacts
  <1>2. Emit({i}, nullable, name, gap, outcomes)
    BY DEF Convert
  <1>3. ~nullable /\ ~gap => ~Maybe(i) /\ ~partial
    OBVIOUS
  <1> HIDE DEF partial, nullable, gap
  <1>4. \A row \in rows : /\ outcomes[row] \subseteq Values
                          /\ "null" \in outcomes[row] => partial \/ row[i] = "null"
    BY <1>1, PartlyValues
  <1> HIDE DEF outcomes
  <1>5. ~nullable /\ ~gap /\ (\A k \in {i} : ~exprs[k].doubtful) =>
          \A row \in rows : "null" \notin outcomes[row]
    BY <1>3, <1>4, OperandFacts
  <1>6. {i} \in SUBSET Operands
    OBVIOUS
  <1> QED
    BY <1>1, <1>2, <1>4, <1>5, <1>6, EmitSound

LEMMA ConcatWsSound ==
  ASSUME SelectInv, NEW i \in Operands, ConcatWs(i)
  PROVE  SelectInv' /\ UNCHANGED fromVars
  <1> DEFINE outcomes == StrictIn({i})
  <1>1. \A row \in rows : /\ outcomes[row] \subseteq Values
                          /\ "null" \in outcomes[row] => row[i] = "null"
    BY StrictValues
  <1>2. Emit({i}, FALSE, "concat_ws", Maybe(i), outcomes)
    BY DEF ConcatWs
  <1> HIDE DEF outcomes
  <1>3. ~Maybe(i) /\ (\A k \in {i} : ~exprs[k].doubtful) =>
          \A row \in rows : "null" \notin outcomes[row]
    BY <1>1, OperandFacts
  <1>4. Maybe(i) \in BOOLEAN /\ {i} \in SUBSET Operands /\ "concat_ws" \in Names
    BY OperandFacts DEF Names
  <1> QED
    BY <1>1, <1>2, <1>3, <1>4, EmitSound

-----------------------------------------------------------------------------
(* The arms that can turn a NULL into a value. *)

LEMMA CoalesceSound ==
  ASSUME SelectInv, NEW i \in Operands, NEW j \in Operands, Coalesce(i, j)
  PROVE  SelectInv' /\ UNCHANGED fromVars
  <1> DEFINE outcomes == [row \in rows |-> {IF row[i] # "null" THEN row[i] ELSE row[j]}]
  <1>1. \A row \in rows : /\ outcomes[row] \subseteq Values
                          /\ "null" \in outcomes[row] => row[i] = "null" /\ row[j] = "null"
    BY TwoOperandFacts
  <1>2. Emit({i, j}, Fallback(i, j), "coalesce", FALSE, outcomes) /\ "coalesce" \in Names
    BY DEF Coalesce, Names
  <1> HIDE DEF outcomes
  <1>3. ~Fallback(i, j) /\ (\A k \in {i, j} : ~exprs[k].doubtful) =>
          \A row \in rows : "null" \notin outcomes[row]
    BY <1>1, TwoOperandFacts DEF Fallback
  <1>4. {i, j} \in SUBSET Operands /\ Fallback(i, j) \in BOOLEAN
    BY TwoOperandFacts
  <1> QED
    BY <1>1, <1>2, <1>3, <1>4, EmitSound

LEMMA GreatestSound ==
  ASSUME SelectInv, NEW i \in Operands, NEW j \in Operands, Greatest(i, j)
  PROVE  SelectInv' /\ UNCHANGED fromVars
  <1>1. CASE dialect = "mysql"
    <2> DEFINE outcomes == StrictIn({i, j})
    <2>1. \A row \in rows : /\ outcomes[row] \subseteq Values
                            /\ "null" \in outcomes[row] => row[i] = "null" \/ row[j] = "null"
      BY StrictValues
    <2>2. Emit({i, j}, AllOperands(i, j), "greatest", FALSE, outcomes) /\ "greatest" \in Names
      BY <1>1 DEF Greatest, Names
    <2> HIDE DEF outcomes
    <2>3. ~AllOperands(i, j) /\ (\A k \in {i, j} : ~exprs[k].doubtful) =>
            \A row \in rows : "null" \notin outcomes[row]
      BY <2>1, TwoOperandFacts DEF AllOperands
    <2>4. {i, j} \in SUBSET Operands /\ AllOperands(i, j) \in BOOLEAN
      BY TwoOperandFacts
    <2> QED
      BY <2>1, <2>2, <2>3, <2>4, EmitSound
  <1>2. CASE dialect # "mysql"
    <2> DEFINE outcomes == [row \in rows |->
                 IF {row[i], row[j]} = {"null"} THEN {"null"} ELSE NonNull]
    <2>1. \A row \in rows : /\ outcomes[row] \subseteq Values
                            /\ "null" \in outcomes[row] => row[i] = "null" /\ row[j] = "null"
      BY DEF Values, NonNull
    <2>2. Emit({i, j}, Fallback(i, j), "greatest", FALSE, outcomes) /\ "greatest" \in Names
      BY <1>2 DEF Greatest, Names
    <2> HIDE DEF outcomes
    <2>3. ~Fallback(i, j) /\ (\A k \in {i, j} : ~exprs[k].doubtful) =>
            \A row \in rows : "null" \notin outcomes[row]
      BY <2>1, TwoOperandFacts DEF Fallback
    <2>4. {i, j} \in SUBSET Operands /\ Fallback(i, j) \in BOOLEAN
      BY TwoOperandFacts
    <2> QED
      BY <2>1, <2>2, <2>3, <2>4, EmitSound
  <1> QED
    BY <1>1, <1>2

\* A guard that fits protects the branch it was written for: i and j are the
\* same expression unless the gap is used.
LEMMA CaseNotNullSound ==
  ASSUME SelectInv, NEW i \in Operands, NEW j \in Operands,
         NEW k \in Operands \cup {NoElse, ElseLiteral}, CaseNotNull(i, j, k)
  PROVE  SelectInv' /\ UNCHANGED fromVars
  <1> DEFINE outcomes ==
        [row \in rows |->
          CASE row[i] # "null" -> {row[j]}
            [] row[i] = "null" /\ k = NoElse      -> {"null"}
            [] row[i] = "null" /\ k = ElseLiteral -> NonNull
            [] OTHER                              -> {row[k]}]
      operands == {i, j, k} \cap Operands
      nullable == \/ Maybe(j) /\ ~Guards(i, j)
                  \/ k = NoElse
                  \/ k \in Operands /\ Maybe(k)
      gap == Guards(i, j) /\ i # j
  <1>0. NoElse # ElseLiteral /\ (k \in Operands \/ k = NoElse \/ k = ElseLiteral)
    BY NullBounds DEF NoElse, ElseLiteral
  <1>1. ASSUME NEW row \in rows
        PROVE  /\ outcomes[row] \subseteq Values
               /\ "null" \in outcomes[row] =>
                    \/ row[i] # "null" /\ row[j] = "null"
                    \/ k = NoElse
                    \/ k \in Operands /\ row[k] = "null"
    <2>1. CASE row[i] # "null"
      <3>1. outcomes[row] = {row[j]}
        BY <2>1
      <3> HIDE DEF outcomes
      <3> QED
        BY <2>1, <3>1, TwoOperandFacts
    <2>2. CASE row[i] = "null" /\ k = NoElse
      <3>1. outcomes[row] = {"null"}
        BY <1>0, <2>2
      <3> HIDE DEF outcomes
      <3> QED
        BY <2>2, <3>1 DEF Values
    <2>3. CASE row[i] = "null" /\ k = ElseLiteral
      <3>1. outcomes[row] = NonNull
        BY <1>0, <2>3
      <3> HIDE DEF outcomes
      <3> QED
        BY <3>1 DEF Values, NonNull
    <2>4. CASE row[i] = "null" /\ k # NoElse /\ k # ElseLiteral
      <3>1. outcomes[row] = {row[k]} /\ k \in Operands
        BY <1>0, <2>4
      <3> HIDE DEF outcomes
      <3> QED
        BY <3>1, OperandFacts
    <2> QED
      BY <2>1, <2>2, <2>3, <2>4
  <1>2. Emit(operands, nullable, "case", gap, outcomes) /\ "case" \in Names
    BY DEF CaseNotNull, Names
  <1>3. operands \in SUBSET Operands /\ nullable \in BOOLEAN /\ gap \in BOOLEAN
    BY OperandFacts DEF Guards
  <1> HIDE DEF outcomes
  <1>4. ASSUME ~nullable, ~gap, \A m \in operands : ~exprs[m].doubtful,
               NEW row \in rows
        PROVE  "null" \notin outcomes[row]
    <2>1. ~exprs[i].doubtful /\ ~exprs[j].doubtful /\ (k \in Operands => ~exprs[k].doubtful)
      BY <1>4
    <2>2. ~(row[i] # "null" /\ row[j] = "null")
      BY <1>4, <2>1, OperandFacts
    <2>3. k # NoElse /\ (k \in Operands => row[k] # "null")
      BY <1>4, <2>1, OperandFacts
    <2> QED
      BY <1>1, <2>2, <2>3
  <1> HIDE DEF operands, nullable, gap
  <1> QED
    BY <1>1, <1>2, <1>3, <1>4, EmitSound

-----------------------------------------------------------------------------
(* Window functions. *)

\* The values of a total or an extreme over a window.
LEMMA WindowValues ==
  ASSUME NEW i, NEW excluded \in BOOLEAN, NEW row,
         NEW values,
         values = NonNull \cup (IF excluded \/ row[i] = "null" THEN {"null"} ELSE {})
  PROVE  values \subseteq Values /\ ("null" \in values => excluded \/ row[i] = "null")
  BY DEF Values, NonNull

LEMMA WindowTotalSound ==
  ASSUME SelectInv, NEW i \in Operands, NEW excluded \in BOOLEAN, WindowTotal(i, excluded)
  PROVE  SelectInv' /\ UNCHANGED fromVars
  <1> DEFINE outcomes ==
        [row \in rows |->
          NonNull \cup (IF excluded \/ row[i] = "null" THEN {"null"} ELSE {})]
      gap == Maybe(i) \/ excluded
  <1>1. \A row \in rows : /\ outcomes[row] \subseteq Values
                          /\ "null" \in outcomes[row] => excluded \/ row[i] = "null"
    BY WindowValues
  <1>2. Emit({i}, FALSE, "sum", gap, outcomes) /\ "sum" \in Names
    BY DEF WindowTotal, Names
  <1> HIDE DEF outcomes
  <1>3. ~gap /\ (\A k \in {i} : ~exprs[k].doubtful) =>
          \A row \in rows : "null" \notin outcomes[row]
    BY <1>1, OperandFacts
  <1>4. gap \in BOOLEAN /\ {i} \in SUBSET Operands
    BY OperandFacts
  <1> HIDE DEF gap
  <1> QED
    BY <1>1, <1>2, <1>3, <1>4, EmitSound

LEMMA WindowExtremeSound ==
  ASSUME SelectInv, NEW i \in Operands, NEW excluded \in BOOLEAN,
         WindowExtreme(i, excluded)
  PROVE  SelectInv' /\ UNCHANGED fromVars
  <1> DEFINE outcomes ==
        [row \in rows |->
          NonNull \cup (IF excluded \/ row[i] = "null" THEN {"null"} ELSE {})]
  <1>1. \A row \in rows : /\ outcomes[row] \subseteq Values
                          /\ "null" \in outcomes[row] => excluded \/ row[i] = "null"
    BY WindowValues
  <1>2. Emit({i}, Maybe(i), "min", excluded, outcomes) /\ "min" \in Names
    BY DEF WindowExtreme, Names
  <1> HIDE DEF outcomes
  <1>3. ~Maybe(i) /\ ~excluded /\ (\A k \in {i} : ~exprs[k].doubtful) =>
          \A row \in rows : "null" \notin outcomes[row]
    BY <1>1, OperandFacts
  <1>4. Maybe(i) \in BOOLEAN /\ {i} \in SUBSET Operands
    BY OperandFacts
  <1> QED
    BY <1>1, <1>2, <1>3, <1>4, EmitSound

LEMMA LagOrDefaultSound ==
  ASSUME SelectInv, NEW i \in Operands, NEW j \in Operands, LagOrDefault(i, j)
  PROVE  SelectInv' /\ UNCHANGED fromVars
  <1> DEFINE outcomes == [row \in rows |-> {row[j]} \cup {other[i] : other \in rows}]
  <1>1. \A row \in rows : /\ outcomes[row] \subseteq Values
                          /\ "null" \in outcomes[row] =>
                               row[j] = "null" \/ \E other \in rows : other[i] = "null"
    BY TwoOperandFacts
  <1>2. Emit({i, j}, AllOperands(i, j), "lag", FALSE, outcomes) /\ "lag" \in Names
    BY DEF LagOrDefault, Names
  <1> HIDE DEF outcomes
  <1>3. ~AllOperands(i, j) /\ (\A k \in {i, j} : ~exprs[k].doubtful) =>
          \A row \in rows : "null" \notin outcomes[row]
    BY <1>1, TwoOperandFacts DEF AllOperands
  <1>4. AllOperands(i, j) \in BOOLEAN /\ {i, j} \in SUBSET Operands
    BY TwoOperandFacts
  <1> QED
    BY <1>1, <1>2, <1>3, <1>4, EmitSound

-----------------------------------------------------------------------------
(* Queries over queries. *)

LEMMA ColumnFacts ==
  ASSUME NEW n \in 1..2, NEW nullable \in BOOLEAN, NEW doubtful \in BOOLEAN
  PROVE  /\ Column(n, nullable, doubtful) \in Info
         /\ Column(n, nullable, doubtful).nullable = nullable
         /\ Column(n, nullable, doubtful).doubtful = doubtful
  BY DEF Column, Info, ColumnNames, Names

\* Two columns replace the expressions.
LEMMA TwoColumnsSound ==
  ASSUME SelectInv, NEW c1 \in Info, NEW c2 \in Info,
         exprs' = <<c1, c2>> \/ exprs' = [n \in 1..2 |-> IF n = 1 THEN c1 ELSE c2],
         \A row \in rows' :
           /\ row \in Seq(Values) /\ Len(row) = 2
           /\ ~c1.nullable /\ ~c1.doubtful => row[1] # "null"
           /\ ~c2.nullable /\ ~c2.doubtful => row[2] # "null",
         dialect' = dialect, lone' \in BOOLEAN, queries' \in 0..MaxQueries
  PROVE  SelectInv'
  <1>1. exprs' \in Seq(Info) /\ Len(exprs') = 2 /\ exprs'[1] = c1 /\ exprs'[2] = c2
    OBVIOUS
  <1>2. NonNullIsSound'
    <2> SUFFICES ASSUME NEW n \in DOMAIN exprs', ~exprs'[n].nullable,
                        ~exprs'[n].doubtful, NEW row \in rows'
                 PROVE  row[n] # "null"
      BY DEF NonNullIsSound
    <2>1. n = 1 \/ n = 2
      BY <1>1
    <2> QED
      BY <1>1, <2>1
  <1> QED
    BY <1>1, <1>2 DEF SelectInv

LEMMA AnotherFacts ==
  ASSUME SelectInv, Another
  PROVE  /\ dialect' = dialect /\ queries' \in 0..MaxQueries
         /\ UNCHANGED fromVars
  BY NullBounds DEF SelectInv, Another

LEMMA RequerySound ==
  ASSUME SelectInv, NEW i \in Operands, NEW j \in Operands, NEW outer \in BOOLEAN,
         Requery(i, j, outer)
  PROVE  SelectInv' /\ UNCHANGED fromVars
  <1> DEFINE c1 == Column(1, Maybe(i) \/ outer, exprs[i].doubtful)
             c2 == Column(2, Maybe(j) \/ outer, exprs[j].doubtful)
  <1>1. /\ c1 \in Info /\ c1.nullable = (Maybe(i) \/ outer) /\ c1.doubtful = exprs[i].doubtful
        /\ c2 \in Info /\ c2.nullable = (Maybe(j) \/ outer) /\ c2.doubtful = exprs[j].doubtful
    BY ColumnFacts, OperandFacts
  <1>2. exprs' = <<c1, c2>> /\ lone' \in BOOLEAN /\ Another
    BY DEF Requery
  <1>3. \A row \in rows' : \/ \E old \in rows : row = <<old[i], old[j]>>
                           \/ outer /\ row = <<"null", "null">>
    BY DEF Requery
  <1> HIDE DEF c1, c2
  <1>4. ASSUME NEW row \in rows'
        PROVE  /\ row \in Seq(Values) /\ Len(row) = 2
               /\ ~c1.nullable /\ ~c1.doubtful => row[1] # "null"
               /\ ~c2.nullable /\ ~c2.doubtful => row[2] # "null"
    <2>1. CASE \E old \in rows : row = <<old[i], old[j]>>
      <3>1. PICK old \in rows : row = <<old[i], old[j]>>
        BY <2>1
      <3>2. old[i] \in Values /\ old[j] \in Values
        BY OperandFacts
      <3> QED
        BY <1>1, <3>1, <3>2, OperandFacts
    <2>2. CASE outer /\ row = <<"null", "null">>
      <3>1. c1.nullable /\ c2.nullable
        BY <1>1, <2>2
      <3>2. "null" \in Values
        BY DEF Values
      <3> QED
        BY <2>2, <3>1, <3>2
    <2> QED
      BY <1>3, <2>1, <2>2
  <1> QED
    BY <1>1, <1>2, <1>4, TwoColumnsSound, AnotherFacts

\* With two columns, what is known of either.
LEMMA BothColumns ==
  ASSUME SelectInv, TwoColumns
  PROVE  /\ Operands = 1..2
         /\ \A n \in 1..2 : Maybe(n) \in BOOLEAN /\ exprs[n].doubtful \in BOOLEAN
         /\ \A row \in rows : row \in Seq(Values) /\ Len(row) = 2
         /\ \A n \in 1..2 : \A row \in rows : row[n] \in Values
         /\ \A n \in 1..2 : ~Maybe(n) /\ ~exprs[n].doubtful =>
                              \A row \in rows : row[n] # "null"
  <1>1. Operands = 1..2
    BY DEF SelectInv, TwoColumns, Operands
  <1>2. \A row \in rows : row \in Seq(Values) /\ Len(row) = 2
    BY DEF SelectInv, TwoColumns
  <1> QED
    BY <1>1, <1>2, OperandFacts

LEMMA UnionWithSound ==
  ASSUME SelectInv, NEW nulls \in SUBSET (1..2), UnionWith(nulls)
  PROVE  SelectInv' /\ UNCHANGED fromVars
  <1> DEFINE c(n) == Column(n, Widened(Maybe(n), n \in nulls), exprs[n].doubtful)
  <1>0. TwoColumns /\ Another /\ lone' \in BOOLEAN
    BY DEF UnionWith
  <1>1. \A n \in 1..2 : /\ c(n) \in Info /\ c(n).nullable = (Maybe(n) \/ n \in nulls)
                        /\ c(n).doubtful = exprs[n].doubtful
                        /\ n \in nulls => c(n).nullable
    <2> TAKE n \in 1..2
    <2>1. /\ Widened(Maybe(n), n \in nulls) \in BOOLEAN
          /\ Widened(Maybe(n), n \in nulls) = (Maybe(n) \/ n \in nulls)
      BY <1>0, BothColumns DEF Widened
    <2>2. /\ c(n) \in Info /\ c(n).nullable = Widened(Maybe(n), n \in nulls)
          /\ c(n).doubtful = exprs[n].doubtful
      BY <1>0, <2>1, ColumnFacts, BothColumns
    <2> HIDE DEF c
    <2> QED
      BY <2>1, <2>2
  <1>2. exprs' = [n \in 1..2 |-> IF n = 1 THEN c(1) ELSE c(2)]
    BY DEF UnionWith
  <1>3. \A row \in rows' : \/ row \in rows
                           \/ /\ row \in Values \X Values
                              /\ \A n \in 1..2 : row[n] = "null" => n \in nulls
    BY DEF UnionWith
  <1> HIDE DEF c
  <1>4. ASSUME NEW row \in rows'
        PROVE  /\ row \in Seq(Values) /\ Len(row) = 2
               /\ ~c(1).nullable /\ ~c(1).doubtful => row[1] # "null"
               /\ ~c(2).nullable /\ ~c(2).doubtful => row[2] # "null"
    <2>1. CASE row \in rows
      BY <1>0, <1>1, <2>1, BothColumns
    <2>2. CASE row \in Values \X Values /\ \A n \in 1..2 : row[n] = "null" => n \in nulls
      <3>1. row \in Seq(Values) /\ Len(row) = 2
        BY <2>2
      <3>2. row[1] = "null" => c(1).nullable
        BY <1>1, <2>2
      <3>3. row[2] = "null" => c(2).nullable
        BY <1>1, <2>2
      <3> QED
        BY <3>1, <3>2, <3>3
    <2> QED
      BY <1>3, <2>1, <2>2
  <1>5. c(1) \in Info /\ c(2) \in Info
    BY <1>1
  <1> QED
    BY <1>0, <1>2, <1>4, <1>5, TwoColumnsSound, AnotherFacts

\* The subtotals of a grouped SELECT: the columns it may blank are doubtful.
LEMMA SubtotalsSound ==
  ASSUME SelectInv, NEW grouped \in SUBSET (1..2), Subtotals(grouped)
  PROVE  SelectInv' /\ UNCHANGED fromVars
  <1> DEFINE c(n) == [exprs[n] EXCEPT !.doubtful = @ \/ (n \in grouped /\ ~Maybe(n))]
  <1>0. /\ TwoColumns /\ UNCHANGED <<fromVars, dialect, lone, queries>>
        /\ lone \in BOOLEAN /\ queries \in 0..MaxQueries
    BY DEF Subtotals, TwoColumns, SelectInv
  <1>1. \A n \in 1..2 : /\ c(n) \in Info /\ c(n).nullable = Maybe(n)
                        /\ ~c(n).nullable /\ ~c(n).doubtful =>
                             ~Maybe(n) /\ ~exprs[n].doubtful /\ n \notin grouped
    <2> TAKE n \in 1..2
    <2>1. exprs[n] \in Info /\ Maybe(n) = exprs[n].nullable
      BY <1>0, BothColumns, OperandFacts DEF Maybe
    <2> QED
      BY <2>1 DEF Info
  <1>2. exprs' = [n \in 1..2 |-> IF n = 1 THEN c(1) ELSE c(2)]
    BY DEF Subtotals
  <1>3. \A row \in rows' : \E old \in rows : \E left \in SUBSET grouped :
          row = [n \in 1..2 |-> IF n \in left THEN "null" ELSE old[n]]
    BY DEF Subtotals
  <1> HIDE DEF c
  <1>4. ASSUME NEW row \in rows'
        PROVE  /\ row \in Seq(Values) /\ Len(row) = 2
               /\ ~c(1).nullable /\ ~c(1).doubtful => row[1] # "null"
               /\ ~c(2).nullable /\ ~c(2).doubtful => row[2] # "null"
    <2>1. PICK old \in rows : \E left \in SUBSET grouped :
            row = [n \in 1..2 |-> IF n \in left THEN "null" ELSE old[n]]
      BY <1>3
    <2>2. PICK left \in SUBSET grouped :
            row = [n \in 1..2 |-> IF n \in left THEN "null" ELSE old[n]]
      BY <2>1
    <2>3. \A n \in 1..2 : old[n] \in Values
      BY <1>0, BothColumns
    <2>4. \A n \in 1..2 : row[n] \in Values
      BY <2>2, <2>3 DEF Values
    <2>5. row \in Seq(Values) /\ Len(row) = 2
      BY <2>2, <2>4
    <2>6. \A n \in 1..2 : ~c(n).nullable /\ ~c(n).doubtful => row[n] # "null"
      BY <1>0, <1>1, <2>2, BothColumns
    <2> QED
      BY <2>5, <2>6
  <1>5. c(1) \in Info /\ c(2) \in Info
    BY <1>1
  <1> QED
    BY <1>0, <1>2, <1>4, <1>5, TwoColumnsSound

\* A recursive CTE.  A column typed NOT NULL takes its values, in the term,
\* from a column that is typed NOT NULL by the anchor and, unless the gap is
\* used, stays so: two rounds add no NULL, and any further round is another
\* two of the same.
LEMMA RecursiveCteSound ==
  ASSUME SelectInv, NEW term \in [1..2 -> 0..2], RecursiveCte(term)
  PROVE  SelectInv' /\ UNCHANGED fromVars
  <1> DEFINE once == [n \in 1..2 |-> Widened(Maybe(n), term[n] = 0 \/ Maybe(term[n]))]
             settled == \A n \in 1..2 : term[n] # 0 /\ once[term[n]] => once[n]
             gap == ~settled \/ \E k \in 1..2 : exprs[k].doubtful
             c(n) == Column(n, once[n], gap)
             second == {Iterated(term, row) : row \in rows}
             third == {Iterated(term, row) : row \in second}
  <1>0. TwoColumns /\ Another /\ lone' \in BOOLEAN
    BY DEF RecursiveCte
  <1>1. \A n \in 1..2 : /\ once[n] = (Maybe(n) \/ term[n] = 0 \/ Maybe(term[n]))
                        /\ ~once[n] => ~Maybe(n) /\ term[n] # 0
    BY DEF Widened
  <1>2. gap \in BOOLEAN
    BY <1>0, BothColumns
  <1>3. \A n \in 1..2 : c(n) \in Info /\ c(n).nullable = once[n] /\ c(n).doubtful = gap
    <2> TAKE n \in 1..2
    <2>1. once[n] \in BOOLEAN
      BY <1>0, <1>1, BothColumns
    <2> HIDE DEF once, gap
    <2> QED
      BY <1>2, <2>1, ColumnFacts
  <1>4. exprs' = [n \in 1..2 |-> IF n = 1 THEN c(1) ELSE c(2)]
    BY DEF RecursiveCte
  <1>5. rows' = rows \cup second \cup third
    BY DEF RecursiveCte
  <1>6. ASSUME NEW row \in Seq(Values), Len(row) = 2
        PROVE  /\ Iterated(term, row) \in Seq(Values) /\ Len(Iterated(term, row)) = 2
               /\ \A n \in 1..2 : Iterated(term, row)[n] =
                                    IF term[n] = 0 THEN "null" ELSE row[term[n]]
    <2>1. \A n \in 1..2 : (IF term[n] = 0 THEN "null" ELSE row[term[n]]) \in Values
      <3> TAKE n \in 1..2
      <3>1. CASE term[n] = 0
        BY <3>1 DEF Values
      <3>2. CASE term[n] # 0
        <4>1. term[n] \in 1..Len(row)
          BY <1>6, <3>2
        <4> QED
          BY <3>2, <4>1
      <3> QED
        BY <3>1, <3>2
    <2>2. Iterated(term, row) = [n \in 1..2 |-> IF term[n] = 0 THEN "null" ELSE row[term[n]]]
      BY DEF Iterated
    <2> DEFINE f(n) == IF term[n] = 0 THEN "null" ELSE row[term[n]]
    <2>3. /\ \A n \in 1..2 : f(n) \in Values
          /\ Iterated(term, row) = [n \in 1..2 |-> f(n)]
      BY <2>1, <2>2
    <2> HIDE DEF f
    <2>4. /\ Iterated(term, row) \in Seq(Values) /\ Len(Iterated(term, row)) = 2
          /\ \A n \in 1..2 : Iterated(term, row)[n] = f(n)
      BY <2>3
    <2> QED
      BY <2>4 DEF f
  <1>7. \A row \in rows \cup second : row \in Seq(Values) /\ Len(row) = 2
    BY <1>0, <1>6, BothColumns
  <1>8. \A row \in rows' : row \in Seq(Values) /\ Len(row) = 2
    BY <1>5, <1>6, <1>7
  \* A column typed NOT NULL feeds on one that is.
  <1>9. ASSUME ~gap, NEW n \in 1..2, ~once[n]
        PROVE  /\ term[n] \in 1..2 /\ ~once[term[n]]
               /\ \A row \in rows : row[n] # "null"
    <2>1. ~Maybe(n) /\ term[n] # 0
      BY <1>1, <1>9
    <2>2. term[n] \in 1..2
      BY <2>1
    <2>3. ~once[term[n]]
      BY <1>9, <2>1
    <2>4. ~exprs[n].doubtful
      BY <1>9
    <2> QED
      BY <1>0, <2>1, <2>2, <2>3, <2>4, BothColumns
  <1> HIDE DEF once, gap, c
  <1>10. ASSUME ~gap, NEW n \in 1..2, ~once[n]
         PROVE  \A row \in rows' : row[n] # "null"
    <2>1. \A row \in second : \A k \in 1..2 : ~once[k] => row[k] # "null"
      <3> SUFFICES ASSUME NEW old \in rows, NEW k \in 1..2, ~once[k]
                   PROVE  Iterated(term, old)[k] # "null"
        OBVIOUS
      <3>1. term[k] \in 1..2 /\ ~once[term[k]]
        BY <1>9, <1>10
      <3>2. old[term[k]] # "null"
        BY <1>9, <1>10, <3>1
      <3> QED
        BY <1>6, <1>7, <3>1, <3>2
    <2>2. \A row \in third : row[n] # "null"
      <3> SUFFICES ASSUME NEW old \in second
                   PROVE  Iterated(term, old)[n] # "null"
        OBVIOUS
      <3>1. term[n] \in 1..2 /\ ~once[term[n]]
        BY <1>9, <1>10
      <3>2. old[term[n]] # "null"
        BY <2>1, <3>1
      <3> QED
        BY <1>6, <1>7, <3>1, <3>2
    <2>3. \A row \in rows : row[n] # "null"
      BY <1>9, <1>10
    <2> QED
      BY <1>5, <1>10, <2>1, <2>2, <2>3
  <1>11. c(1) \in Info /\ c(2) \in Info
    BY <1>3
  <1>12. /\ ~c(1).nullable /\ ~c(1).doubtful => \A row \in rows' : row[1] # "null"
         /\ ~c(2).nullable /\ ~c(2).doubtful => \A row \in rows' : row[2] # "null"
    BY <1>3, <1>10
  <1> HIDE DEF second, third
  <1> QED
    BY <1>0, <1>4, <1>8, <1>11, <1>12, TwoColumnsSound, AnotherFacts

\* The first columns: soundness comes from the walk of the FROM clause.
LEMMA ProjectSound ==
  ASSUME NullInv, Project
  PROVE  NullInv'
  <1>1. FromInv'
    <2>1. FromInit'
      BY DEF Project, FromInit
    <2>2. FromInit' => FromInv'
      BY FromInitInv, PTL
    <2> QED
      BY <2>1, <2>2
  <1>2. PICK s1, s2 \in DOMAIN sources, b1, b2 \in BOOLEAN :
          /\ exprs' = <<Column(1, ScopeNullable(s1, b1), s1 \in doubted),
                        Column(2, ScopeNullable(s2, b2), s2 \in doubted)>>
          /\ rows' = UNION {ColumnValues(s1, b1, row) \X ColumnValues(s2, b2, row) :
                            row \in RowsOfFrom}
          /\ lone' = (Len(sources) = 1)
    BY DEF Project
  <1>3. Complete /\ NonNullIsPresent
    BY FromInvPresent DEF Project, NullInv
  <1>4. ASSUME NEW s \in DOMAIN sources, NEW b \in BOOLEAN, NEW row \in RowsOfFrom,
               NEW v \in ColumnValues(s, b, row)
        PROVE  /\ v \in Values
               /\ ~ScopeNullable(s, b) /\ s \notin doubted => v # "null"
    <2>1. v \in Values
      BY DEF ColumnValues, Values, NonNull
    <2>2. ASSUME ~ScopeNullable(s, b), s \notin doubted
          PROVE  v # "null"
      <3>1. s \in row /\ ~b
        BY <1>3, <2>2 DEF NonNullIsPresent, ScopeNullable
      <3> QED
        BY <3>1 DEF ColumnValues, NonNull
    <2> QED
      BY <2>1, <2>2
  <1>5. \A s \in DOMAIN sources, b \in BOOLEAN :
          ScopeNullable(s, b) \in BOOLEAN /\ (s \in doubted) \in BOOLEAN
    BY DEF ScopeNullable, NullInv, FromInv, FromTypeOK
  <1> DEFINE c1 == Column(1, ScopeNullable(s1, b1), s1 \in doubted)
             c2 == Column(2, ScopeNullable(s2, b2), s2 \in doubted)
  <1>6. /\ c1 \in Info /\ c1.nullable = ScopeNullable(s1, b1)
        /\ c1.doubtful = (s1 \in doubted)
        /\ c2 \in Info /\ c2.nullable = ScopeNullable(s2, b2)
        /\ c2.doubtful = (s2 \in doubted)
    <2> DEFINE n1 == ScopeNullable(s1, b1)
               n2 == ScopeNullable(s2, b2)
               d1 == s1 \in doubted
               d2 == s2 \in doubted
    <2>1. n1 \in BOOLEAN /\ n2 \in BOOLEAN /\ d1 \in BOOLEAN /\ d2 \in BOOLEAN
      BY <1>5
    <2>2. c1 = Column(1, n1, d1) /\ c2 = Column(2, n2, d2)
      OBVIOUS
    <2> HIDE DEF n1, n2, d1, d2, c1, c2
    <2>3. /\ c1 \in Info /\ c1.nullable = n1 /\ c1.doubtful = d1
          /\ c2 \in Info /\ c2.nullable = n2 /\ c2.doubtful = d2
      BY <2>1, <2>2, ColumnFacts
    <2> QED
      BY <2>3 DEF n1, n2, d1, d2
  <1>7. exprs' = <<c1, c2>>
    BY <1>2
  <1> HIDE DEF c1, c2
  <1>8. ASSUME NEW row \in rows'
        PROVE  /\ row \in Seq(Values) /\ Len(row) = 2
               /\ ~c1.nullable /\ ~c1.doubtful => row[1] # "null"
               /\ ~c2.nullable /\ ~c2.doubtful => row[2] # "null"
    <2>1. PICK from \in RowsOfFrom :
            row \in ColumnValues(s1, b1, from) \X ColumnValues(s2, b2, from)
      BY <1>2
    <2>2. PICK v1 \in ColumnValues(s1, b1, from), v2 \in ColumnValues(s2, b2, from) :
            row = <<v1, v2>>
      BY <2>1
    <2>3. v1 \in Values /\ v2 \in Values
      BY <1>4, <2>2
    <2>4. row \in Seq(Values) /\ Len(row) = 2
      BY <2>2, <2>3
    <2>5. /\ ~c1.nullable /\ ~c1.doubtful => row[1] # "null"
          /\ ~c2.nullable /\ ~c2.doubtful => row[2] # "null"
      BY <1>4, <1>6, <2>2
    <2> QED
      BY <2>4, <2>5
  <1>9. dialect' = dialect /\ lone' \in BOOLEAN /\ queries' \in 0..MaxQueries
    BY <1>2 DEF Project, NullInv, SelectInv
  <1>10. SelectInv
    BY DEF NullInv
  <1>11. SelectInv'
    BY <1>6, <1>7, <1>8, <1>9, <1>10, TwoColumnsSound
  <1> QED
    BY <1>1, <1>11 DEF NullInv

-----------------------------------------------------------------------------
LEMMA NullInitInv == NullInit => NullInv
  <1> SUFFICES ASSUME NullInit PROVE NullInv
    OBVIOUS
  <1>1. FromInv
    BY FromInitInv DEF NullInit
  <1>2. SelectInv
    BY NullBounds DEF NullInit, SelectInv, NonNullIsSound
  <1> QED
    BY <1>1, <1>2 DEF NullInv

LEMMA OneOperandSound ==
  ASSUME SelectInv, NEW i \in Operands, OneOperand(i)
  PROVE  SelectInv' /\ UNCHANGED fromVars
  <1>0. exprs[i].name \in Names /\ "unknown" \in Names /\ "nullif" \in Names
    BY OperandFacts DEF Names
  <1>1. CASE IsNotNull(i)
    BY <1>1, IsNotNullSound
  <1>2. ASSUME NEW failing \in {"refused", "tried", "lenient"},
               NEW name \in {exprs[i].name, "unknown"}, Convert(i, failing, name)
        PROVE  SelectInv' /\ UNCHANGED fromVars
    <2>1. name \in Names
      BY <1>0
    <2> QED
      BY <1>2, <2>1, ConvertSound
  <1>3. ASSUME NEW name \in {exprs[i].name, "nullif"}, AlwaysNullable(name)
        PROVE  SelectInv' /\ UNCHANGED fromVars
    <2>1. name \in Names
      BY <1>0
    <2> QED
      BY <1>3, <2>1, AlwaysNullableSound
  <1>4. CASE ConcatWs(i)
    BY <1>4, ConcatWsSound
  <1>5. ASSUME NEW excluded \in BOOLEAN, WindowTotal(i, excluded)
        PROVE  SelectInv' /\ UNCHANGED fromVars
    BY <1>5, WindowTotalSound
  <1>6. ASSUME NEW excluded \in BOOLEAN, WindowExtreme(i, excluded)
        PROVE  SelectInv' /\ UNCHANGED fromVars
    BY <1>6, WindowExtremeSound
  <1> QED
    BY <1>1, <1>2, <1>3, <1>4, <1>5, <1>6 DEF OneOperand

LEMMA TwoOperandsSound ==
  ASSUME SelectInv, NEW i \in Operands, NEW j \in Operands, TwoOperands(i, j)
  PROVE  SelectInv' /\ UNCHANGED fromVars
  <1>0. /\ exprs[i].name \in Names /\ "age" \in Names
        /\ "unknown" \in Names /\ "replace" \in Names
    BY OperandFacts DEF Names
  <1>1. ASSUME NEW partial \in BOOLEAN, NEW name \in {exprs[i].name, "age", "unknown"},
               Strict(i, j, partial, name)
        PROVE  SelectInv' /\ UNCHANGED fromVars
    <2>1. name \in Names
      BY <1>0
    <2> QED
      BY <1>1, <2>1, StrictSound
  <1>2. CASE Quotient(i, j)
    BY <1>2, QuotientSound
  <1>3. ASSUME NEW absorbing \in NonNull, Connective(i, j, absorbing)
        PROVE  SelectInv' /\ UNCHANGED fromVars
    BY <1>3, ConnectiveSound
  <1>4. ASSUME NEW partial \in BOOLEAN, NEW name \in {"replace", "unknown"},
               FirstOperand(i, j, partial, name)
        PROVE  SelectInv' /\ UNCHANGED fromVars
    <2>1. name \in Names
      BY <1>0
    <2> QED
      BY <1>4, <2>1, FirstOperandSound
  <1>5. CASE Coalesce(i, j)
    BY <1>5, CoalesceSound
  <1>6. CASE Greatest(i, j)
    BY <1>6, GreatestSound
  <1>7. CASE LagOrDefault(i, j)
    BY <1>7, LagOrDefaultSound
  <1>8. ASSUME NEW k \in Operands \cup {NoElse, ElseLiteral}, CaseNotNull(i, j, k)
        PROVE  SelectInv' /\ UNCHANGED fromVars
    BY <1>8, CaseNotNullSound
  <1>9. ASSUME NEW outer \in BOOLEAN, Requery(i, j, outer)
        PROVE  SelectInv' /\ UNCHANGED fromVars
    BY <1>9, RequerySound
  <1> QED
    BY <1>1, <1>2, <1>3, <1>4, <1>5, <1>6, <1>7, <1>8, <1>9 DEF TwoOperands

LEMMA FromUnchanged ==
  ASSUME FromInv, UNCHANGED fromVars
  PROVE  FromInv'
  BY FromInvNext

LEMMA NullInvNext == NullInv /\ [NullNext]_nullVars => NullInv'
  <1> SUFFICES ASSUME NullInv, [NullNext]_nullVars PROVE NullInv'
    OBVIOUS
  <1>0. FromInv /\ SelectInv
    BY DEF NullInv
  <1>1. CASE FromStep
    <2>1. FromInv'
      BY <1>0, <1>1, FromInvNext DEF FromStep
    <2>2. UNCHANGED <<dialect, exprs, rows, lone, queries>>
      BY <1>1 DEF FromStep, selectVars
    <2>3. SelectInv'
      BY <1>0, <2>2 DEF SelectInv, NonNullIsSound
    <2> QED
      BY <2>1, <2>3 DEF NullInv
  <1>2. CASE Project
    BY <1>2, ProjectSound
  <1>3. ASSUME \/ \E i, j \in Operands : AnyOrAll(i, j)
               \/ \E v \in Values : Literal(v)
               \/ \E aggregate, grouped, limited \in BOOLEAN :
                    ScalarSubquery(aggregate, grouped, limited)
               \/ \E i \in Operands : OneOperand(i)
               \/ \E i, j \in Operands : TwoOperands(i, j)
               \/ \E nulls \in SUBSET (1..2) : UnionWith(nulls)
               \/ \E term \in [1..2 -> 0..2] : RecursiveCte(term)
               \/ \E grouped \in SUBSET (1..2) : Subtotals(grouped)
        PROVE  NullInv'
    <2>1. SelectInv' /\ UNCHANGED fromVars
      BY <1>0, <1>3, AnyOrAllSound, LiteralSound, ScalarSubquerySound,
         OneOperandSound, TwoOperandsSound, UnionWithSound, RecursiveCteSound,
         SubtotalsSound
    <2>2. FromInv'
      BY <1>0, <2>1, FromUnchanged
    <2> QED
      BY <2>1, <2>2 DEF NullInv
  <1>4. CASE UNCHANGED nullVars
    <2>1. UNCHANGED <<fromVars, dialect, exprs, rows, lone, queries>>
      BY <1>4 DEF nullVars, selectVars
    <2>2. FromInv'
      BY <1>0, <2>1, FromUnchanged
    <2>3. SelectInv'
      BY <1>0, <2>1 DEF SelectInv, NonNullIsSound
    <2> QED
      BY <2>2, <2>3 DEF NullInv
  <1> QED
    BY <1>1, <1>2, <1>3, <1>4 DEF NullNext, SelectStep

THEOREM SpecNullInv == NullSpec => []NullInv
  <1> QED
    BY NullInitInv, NullInvNext, PTL DEF NullSpec

\* The type invariant: the walk's flags, the inferred columns, and rows as
\* wide as the columns.  (scope.rs, expressions.rs, mod.rs of the analyzer.)
THEOREM SpecNullTypeOK == NullSpec => []NullTypeOK
  <1>1. NullInv => NullTypeOK
    BY DEF NullInv, FromInv, SelectInv, NullTypeOK
  <1> QED
    BY <1>1, SpecNullInv, PTL

\* A source read as NOT NULL is in every row of a complete FROM clause, for
\* any number of sources and any nesting.  (build_scope_from_from.)
THEOREM SpecNonNullIsPresent == NullSpec => []NonNullIsPresent
  <1>1. NullInv => NonNullIsPresent
    BY FromInvPresent DEF NullInv
  <1> QED
    BY <1>1, SpecNullInv, PTL

\* No column or expression typed as never NULL meets a NULL, but for the named
\* gaps, however long the chain of expressions and queries.  (infer_expr_type,
\* infer_function_type, analyze_query.)
THEOREM SpecNonNullIsSound == NullSpec => []NonNullIsSound
  <1>1. NullInv => NonNullIsSound
    BY DEF NullInv, SelectInv
  <1> QED
    BY <1>1, SpecNullInv, PTL

\* A source marked nullable is missing from some row, as long as no RIGHT or
\* FULL join reached beyond its own group: the walk does not weaken columns to
\* be on the safe side.  (scope.rs: the flags of build_scope_from_from.)
THEOREM SpecNullableIsReal == NullSpec => []NullableIsReal
  <1>1. NullInit => RealInv
    BY FromInitReal DEF NullInit
  <1>2. NullInv /\ RealInv /\ [NullNext]_nullVars => RealInv'
    <2> SUFFICES ASSUME NullInv, RealInv, [NullNext]_nullVars PROVE RealInv'
      OBVIOUS
    <2>0. FromInv /\ SelectInv
      BY DEF NullInv
    <2>1. CASE FromStep
      BY <2>0, <2>1, RealInvNext DEF FromStep
    <2>2. CASE Project
      <3>1. FromInit'
        BY <2>2 DEF Project, FromInit
      <3>2. FromInit' => RealInv'
        BY FromInitReal, PTL
      <3> QED
        BY <3>1, <3>2
    <2>3. ASSUME \/ \E i, j \in Operands : AnyOrAll(i, j)
                 \/ \E v \in Values : Literal(v)
                 \/ \E aggregate, grouped, limited \in BOOLEAN :
                      ScalarSubquery(aggregate, grouped, limited)
                 \/ \E i \in Operands : OneOperand(i)
                 \/ \E i, j \in Operands : TwoOperands(i, j)
                 \/ \E nulls \in SUBSET (1..2) : UnionWith(nulls)
                 \/ \E term \in [1..2 -> 0..2] : RecursiveCte(term)
                 \/ \E grouped \in SUBSET (1..2) : Subtotals(grouped)
          PROVE  RealInv'
      <3>1. UNCHANGED fromVars
        BY <2>0, <2>3, AnyOrAllSound, LiteralSound, ScalarSubquerySound,
           OneOperandSound, TwoOperandsSound, UnionWithSound, RecursiveCteSound,
           SubtotalsSound
      <3> QED
        BY <2>0, <3>1, RealInvNext
    <2>4. CASE UNCHANGED nullVars
      BY <2>0, <2>4, RealInvNext DEF nullVars
    <2> QED
      BY <2>1, <2>2, <2>3, <2>4 DEF NullNext, SelectStep
  <1>3. NullInv /\ RealInv => NullableIsReal
    BY RealInvMissing DEF NullInv
  <1> QED
    BY <1>1, <1>2, <1>3, SpecNullInv, PTL DEF NullSpec

=============================================================================
