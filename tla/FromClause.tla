------------------------------ MODULE FromClause ------------------------------
(***************************************************************************)
(* How the analyzer walks a FROM clause and decides, source by source,     *)
(* whether an outer join can null-extend it: `nullable_from_join'.         *)
(* (crates/scythe-core/src/analyzer/scope.rs.)                             *)
(*                                                                         *)
(* The code never looks back at the shape of the joins: it pushes sources  *)
(* in textual order, carries one inherited flag into a parenthesised       *)
(* group, and lets RIGHT and FULL joins mark whatever was pushed so far.   *)
(* Next to that the module keeps what SQL says: for every join finished so *)
(* far, the sets of its sources that can supply a row together (the others *)
(* being null-extended).                                                   *)
(***************************************************************************)
EXTENDS Naturals, Sequences

CONSTANTS
  MaxSources,   \* bound: sources of one FROM clause
  MaxDepth      \* bound: nested parentheses, the top level included

ASSUME FromBounds == MaxSources \in Nat /\ MaxDepth \in Nat

VARIABLES
  sources,   \* nullable_from_join of the sources pushed so far
  groups,    \* the join groups being read, outermost first
  items,     \* reference: the rows of the comma-separated items read so far
  doubted,   \* history: sources a known gap of the walk leaves unprotected
  widened    \* history: a RIGHT or FULL join marked sources beyond its own

fromVars == <<sources, groups, items, doubted, widened>>

-----------------------------------------------------------------------------
Joins == {"inner", "left", "right", "full", "outer apply"}

\* A group being read: the flag it was entered with, the join that connects
\* it to what precedes it in its parent, where its sources begin, whether a
\* gap above leaves it unprotected, and the rows its joins so far produce
\* (none yet: {}).
Group == [inherit : BOOLEAN, join : Joins \cup {"first"},
          base : 0..MaxSources, doubtful : BOOLEAN,
          present : SUBSET SUBSET (1..MaxSources)]

Opened(inherit, join, base, doubtful) ==
  [inherit |-> inherit, join |-> join, base |-> base, doubtful |-> doubtful,
   present |-> {}]

FromInit ==
  /\ sources = <<>>
  /\ groups = <<Opened(FALSE, "first", 0, FALSE)>>
  /\ items = {{}}
  /\ doubted = {}
  /\ widened = FALSE

top == groups[Len(groups)]

-----------------------------------------------------------------------------
(* The code's rules. *)

\* A mutation of JoinFlag: the right side of a FULL JOIN keeps its flag.
JoinFlagNoFull(join, inherit) ==
  join = "left" \/ (join \in {"first", "inner", "outer apply"} /\ inherit)

\* A mutation of JoinFlag: the right side of a RIGHT JOIN is marked as well.
JoinFlagEveryOuter(join, inherit) ==
  join \in {"left", "right", "full"} \/ inherit

\* The flag the next source, or group, is pushed with.
JoinFlag(join, inherit) ==
  \/ join \in {"left", "full"}
  \/ join # "right" /\ inherit

\* RIGHT and FULL mark every source of the scope.
Marked(join) ==
  [i \in DOMAIN sources |-> sources[i] \/ join \in {"right", "full"}]

-----------------------------------------------------------------------------
(* What SQL says of the rows of a join. *)

Matched(left, right) == {l \cup r : l \in left, r \in right}

\* The rows `left JOIN right' can produce when its condition may match, or
\* fail to match, any pair.
Joined(join, left, right) ==
  CASE join = "first"                    -> right
    [] join = "inner"                    -> Matched(left, right)
    [] join \in {"left", "outer apply"}  -> Matched(left, right) \cup left
    [] join = "right"                    -> Matched(left, right) \cup right
    [] join = "full"                     -> Matched(left, right) \cup left \cup right

\* The gaps of the walk: a RIGHT JOIN in a group that inherited the flag
\* drops it, and OUTER APPLY null-extends like LEFT but is typed like CROSS.
Gap(join) ==
  \/ top.doubtful
  \/ join = "right" /\ top.inherit
  \/ join = "outer apply" /\ ~top.inherit

\* Sources outside the group, or of earlier items, that a RIGHT or FULL join
\* marks although it cannot null-extend them.
Overreach(join) ==
  join \in {"right", "full"} /\ (Len(groups) > 1 \/ top.base > 0)

-----------------------------------------------------------------------------
(* The walk: build_scope_from_from, add_table_factor_to_scope. *)

\* The join written next: none before the first source of a group.
NextJoin(join) == (join = "first") = (top.present = {})

Walk(join) ==
  /\ Len(sources) < MaxSources
  /\ NextJoin(join)
  /\ widened' = (widened \/ Overreach(join))
  /\ UNCHANGED items

\* A table, derived table or table function.
AddSource(join) ==
  LET n == Len(sources) + 1
  IN /\ Walk(join)
     /\ sources' = Append(Marked(join), JoinFlag(join, top.inherit))
     /\ groups' = [groups EXCEPT ![Len(groups)].present =
                     Joined(join, @, {{n}})]
     /\ doubted' = doubted \cup (IF Gap(join) THEN {n} ELSE {})

\* A parenthesised join: its marks come first, then its own sources.
OpenGroup(join) ==
  /\ Walk(join)
  /\ Len(groups) < MaxDepth
  /\ sources' = Marked(join)
  /\ groups' = Append(groups, Opened(JoinFlag(join, top.inherit), join,
                                     Len(sources), Gap(join)))
  /\ UNCHANGED doubted

CloseGroup ==
  LET outer == Len(groups) - 1
  IN /\ Len(groups) > 1
     /\ top.present # {}
     /\ groups' = [i \in 1..outer |->
                     IF i = outer
                     THEN [groups[i] EXCEPT !.present =
                             Joined(top.join, @, top.present)]
                     ELSE groups[i]]
     /\ UNCHANGED <<sources, items, doubted, widened>>

\* The next comma-separated item of FROM.
NextItem ==
  /\ Len(groups) = 1
  /\ top.present # {}
  /\ Len(sources) < MaxSources
  /\ items' = Matched(items, top.present)
  /\ groups' = <<Opened(FALSE, "first", Len(sources), FALSE)>>
  /\ UNCHANGED <<sources, doubted, widened>>

FromNext ==
  \/ \E join \in Joins \cup {"first"} : AddSource(join) \/ OpenGroup(join)
  \/ CloseGroup
  \/ NextItem

FromSpec == FromInit /\ [][FromNext]_fromVars

-----------------------------------------------------------------------------
\* The clause can end here.
Complete == Len(groups) = 1 /\ top.present # {}

\* Which sources a row of the whole clause can have.
RowsOfFrom == Matched(items, top.present)

\* Type invariant of the walk.
FromTypeOK ==
  /\ sources \in Seq(BOOLEAN)
  /\ Len(sources) <= MaxSources
  /\ groups \in Seq(Group)
  /\ Len(groups) >= 1
  /\ items \in SUBSET SUBSET (1..MaxSources)
  /\ doubted \in SUBSET (1..MaxSources)
  /\ widened \in BOOLEAN

\* A source whose columns keep their NOT NULL is part of every row the clause
\* can return: the analyzer never overlooks an outer join, however the joins
\* nest, but for the two gaps named in Gap.  (The soundness the conformance
\* runner calls A2, decided join by join in scope.rs:41-75 and 216-240.)
NonNullIsPresent ==
  Complete =>
    \A i \in DOMAIN sources \ doubted :
      ~sources[i] => \A row \in RowsOfFrom : i \in row

\* A source marked nullable really is missing from some row, as long as no
\* RIGHT or FULL join reached beyond its own group: the walk does not turn
\* every column of a clause into an option to be on the safe side.  (A3,
\* anti-vacuity, of the conformance runner.)
NullableIsReal ==
  Complete /\ ~widened =>
    \A i \in DOMAIN sources :
      sources[i] => \E row \in RowsOfFrom : i \notin row

\* The guide's sentence on LEFT JOIN, "always nullable ... This also applies
\* inside nested joins (parenthesized FROM clauses)", with no gap excepted:
\* no column read as NOT NULL belongs to a source a row may lack.
EveryOuterJoinCounts ==
  Complete =>
    \A i \in DOMAIN sources :
      ~sources[i] => \A row \in RowsOfFrom : i \in row
=============================================================================
