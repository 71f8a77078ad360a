----------------------------- MODULE Placeholders -----------------------------
(***************************************************************************)
(* How the analyzer numbers the parameters of one statement.               *)
(*                                                                         *)
(* `$N' carries its number.  A bare `?' has none: it gets the next one the *)
(* first time the analyzer's walk reaches it, while the driver binds the   *)
(* values to the `?'s in the order of the text.  The walk visits clauses   *)
(* in an order of its own, and inside a clause it does not reach every     *)
(* expression.  (crates/scythe-core/src/analyzer/params.rs, statements.rs.)*)
(***************************************************************************)
EXTENDS Naturals, Sequences, FiniteSets

CONSTANT MaxSites   \* bound: places of one statement that hold placeholders

ASSUME SitesBound == MaxSites \in Nat

VARIABLES
  kind,     \* the statement
  style,    \* "?" or "$"
  text,     \* the sites of the statement, in the order of its text, with the item
            \* each is in
  visited,  \* the place in VisitOrder of the clause the walk is in; None while
            \* the statement is written
  entered,  \* the sites the walk has come to, and on which pass
  pending,  \* what it still reaches of the last one
  params    \* parameters found: their position and the placeholder it came from

vars == <<kind, style, text, visited, entered, pending, params>>

-----------------------------------------------------------------------------
(* The clauses of each statement, as written ... *)

TextOrder ==
  [select |-> <<"with", "projection", "from", "on", "where", "groupBy", "having",
                "unionArm", "orderBy", "limit", "offset">>,
   \* MySQL's LIMIT offset, count
   commaLimit |-> <<"with", "projection", "from", "on", "where", "groupBy", "having",
                    "unionArm", "orderBy", "offset", "limit">>,
   insert |-> <<"values", "doUpdateSet", "doUpdateWhere",
                "onDuplicateKey", "returning">>,
   withInsert |-> <<"with", "values", "returning">>,
   update |-> <<"set", "from", "where", "returning">>,
   delete |-> <<"using", "where", "returning">>]

\* A mutation of VisitOrder: WHERE is visited before the projection.
VisitOrderWhereFirst ==
  [select |-> <<"with", "from", "where", "having", "projection", "unionArm",
                "limit", "offset">>,
   commaLimit |-> <<"with", "from", "where", "having", "projection", "unionArm",
                    "limit", "offset">>,
   insert |-> <<"values", "doUpdateSet", "doUpdateWhere", "returning">>,
   withInsert |-> <<"with">>,
   update |-> <<"from", "set", "where", "returning">>,
   delete |-> <<"using", "where", "returning">>]

\* ... and as analyze_query, analyze_select, analyze_insert, analyze_update
\* and analyze_delete visit them.  Join conditions, GROUP BY, ORDER BY, ON
\* DUPLICATE KEY UPDATE and an INSERT under WITH are not visited at all.
VisitOrder ==
  [select |-> <<"with", "from", "projection", "where", "having", "unionArm",
                "limit", "offset">>,
   commaLimit |-> <<"with", "from", "projection", "where", "having", "unionArm",
                    "limit", "offset">>,
   insert |-> <<"values", "doUpdateSet", "doUpdateWhere", "returning">>,
   withInsert |-> <<"with">>,
   update |-> <<"from", "set", "where", "returning">>,
   delete |-> <<"using", "where", "returning">>]

Kinds == DOMAIN TextOrder

Rank(clause, order) == CHOOSE i \in DOMAIN order : order[i] = clause

-----------------------------------------------------------------------------
(* The sites of a clause.
     bare     one placeholder the walk reaches, once or more
     inverted two placeholders of one expression the walk reaches second
              first: `coalesce(x, ?) = ?', whose right side is bound before
              its left is typed, or a nested query whose clauses are visited
              against the text
     late     one that only the second pass over a select item reaches: the
              operand of CASE, the left of LIKE or of IN (subquery)
     derived  in a query that is analysed more than once, each time with an
              empty memo: a derived table of a scalar subquery, or of the
              anchor of a recursive CTE
     unread   under an expression the walk does not enter: an item of IN that
              is no placeholder, a later argument of a compared call, the
              operand of IS TRUE, outside the projection what is late inside,
              a subquery assigned in SET or VALUES, LIMIT ? + 1             *)

Expressions == {"projection", "where", "having", "doUpdateWhere", "returning"}

Queries == {"with", "from", "using", "unionArm", "values"}

Shapes(clause) ==
  {"bare"}
    \cup (IF clause \in Expressions \cup Queries
          THEN {"inverted", "derived", "unread"} ELSE {})
    \cup (IF clause = "projection" THEN {"late"} ELSE {})
    \cup (IF clause \in {"set", "doUpdateSet", "limit", "offset"} THEN {"unread"} ELSE {})

\* A select item is passed over twice, for its bindings and for its type; so
\* is a CTE, for the anchor of a recursive one and for the whole.
Passes(clause) == IF clause \in {"projection", "with"} THEN {1, 2} ELSE {1}

\* The occurrences of placeholders, numbered as the text has them: the last
\* one of site i.
LastOf(i) == i + Cardinality({j \in 1..i : text[j].shape = "inverted"})

Occurrences == 1..LastOf(Len(text))

At(k, memo) == [occurrence |-> k, memo |-> memo]

\* A mutation of Reached: of a comparison only the right side is bound.
ReachedRightOnly(i, pass) ==
  LET here == At(LastOf(i), TRUE)
      forgotten == At(LastOf(i), FALSE)
  IN CASE text[i].shape \in {"bare", "inverted"} -> <<here, here>>
       [] text[i].shape = "late"    -> IF pass = 1 THEN <<>> ELSE <<here>>
       [] text[i].shape = "derived" -> <<forgotten>>
       [] text[i].shape = "unread"  -> <<>>

\* The placeholders the walk reaches at site i on a pass, in its order.  The
\* first pass binds both sides of a comparison before it types them.
Reached(i, pass) ==
  LET here == At(LastOf(i), TRUE)
      before == At(LastOf(i) - 1, TRUE)
      forgotten == At(LastOf(i), FALSE)
  IN CASE text[i].shape = "bare"     -> <<here, here>>
       [] text[i].shape = "inverted" -> IF pass = 1 THEN <<here, before, here>>
                                                    ELSE <<before, here>>
       [] text[i].shape = "late"     -> IF pass = 1 THEN <<>> ELSE <<here>>
       [] text[i].shape = "derived"  -> IF Passes(text[i].clause) = {1}
                                        THEN <<forgotten, forgotten>> ELSE <<forgotten>>
       [] text[i].shape = "unread"   -> <<>>

-----------------------------------------------------------------------------
None == 0

Init ==
  /\ kind \in Kinds
  /\ style \in {"?", "$"}
  /\ text = <<>>
  /\ visited = None
  /\ entered = {}
  /\ pending = <<>>
  /\ params = {}

\* The statement is written clause by clause; a site joins the last one in a
\* select item, or a CTE, or begins another.
Write(clause, shape, joined) ==
  LET last == text[Len(text)]
  IN /\ visited = None
     /\ Len(text) < MaxSites
     /\ text # <<>> => Rank(last.clause, TextOrder[kind]) <= Rank(clause, TextOrder[kind])
     /\ joined => text # <<>> /\ last.clause = clause /\ Passes(clause) = {1, 2}
     /\ text' = Append(text, [clause |-> clause, shape |-> shape,
                              item |-> IF joined THEN last.item ELSE Len(text) + 1])
     /\ UNCHANGED <<kind, style, visited, entered, pending, params>>

Start ==
  /\ visited = None
  /\ text # <<>>
  /\ visited' = 1
  /\ UNCHANGED <<kind, style, text, entered, pending, params>>

Walking == visited # None /\ visited <= Len(VisitOrder[kind]) /\ pending = <<>>

\* A visit is a site and a pass.
Visits == {v \in (DOMAIN text) \X {1, 2} : v[2] \in Passes(text[v[1]].clause)}

\* The visits of the clause the walk is in that it has not paid.
Due == {v \in Visits : text[v[1]].clause = VisitOrder[kind][visited]} \ entered

\* Item by item; within an item pass by pass; within a pass as the text has it.
Before(v, w) ==
  LET a == text[v[1]].item
      b == text[w[1]].item
  IN \/ a < b
     \/ a = b /\ v[2] < w[2]
     \/ a = b /\ v[2] = w[2] /\ v[1] < w[1]

\* The walk comes to the next site of its clause.
Enter(i, pass) ==
  /\ Walking
  /\ <<i, pass>> \in Due /\ \A v \in Due : ~Before(v, <<i, pass>>)
  /\ entered' = entered \cup {<<i, pass>>}
  /\ pending' = Reached(i, pass)
  /\ UNCHANGED <<kind, style, text, visited, params>>

\* It goes on to the next clause.
Visit ==
  /\ Walking
  /\ Due = {}
  /\ visited' = visited + 1
  /\ UNCHANGED <<kind, style, text, entered, pending, params>>

\* A mutation of Known: nothing is remembered of a `?'.
KnownNothing(place) == FALSE

\* resolved_placeholders: this `?' has its number.
Known(place) == place.memo /\ \E p \in params : p[2] = place.occurrence

\* resolve_placeholder_position, then register_param, which keeps the first
\* entry of a position.  positional_param_counter is the number of `?' so far.
Resolve ==
  LET place == Head(pending)
      position == IF style = "$" THEN place.occurrence ELSE Cardinality(params) + 1
  IN /\ pending # <<>>
     /\ pending' = Tail(pending)
     /\ params' = IF style = "?" /\ Known(place) THEN params
                  ELSE params \cup {<<position, place.occurrence>>}
     /\ UNCHANGED <<kind, style, text, visited, entered>>

Next ==
  \/ \E i \in DOMAIN TextOrder[kind] :
       \E shape \in Shapes(TextOrder[kind][i]), joined \in BOOLEAN :
         Write(TextOrder[kind][i], shape, joined)
  \/ Start
  \/ \E i \in DOMAIN text, pass \in {1, 2} : Enter(i, pass)
  \/ Visit
  \/ Resolve

Spec == Init /\ [][Next]_vars

-----------------------------------------------------------------------------
Analyzed == visited > Len(VisitOrder[kind]) /\ pending = <<>>

\* Sites that are never reached.
Unread ==
  {i \in DOMAIN text :
     \/ text[i].shape = "unread"
     \/ \A c \in DOMAIN VisitOrder[kind] : VisitOrder[kind][c] # text[i].clause}

Uses(shape) == \E i \in DOMAIN text : text[i].shape = shape

Has(clause) == \E i \in DOMAIN text : text[i].clause = clause

\* The clauses that are visited against the order of the text.
AgainstTheText ==
  \/ Has("from") /\ (Has("projection") \/ Has("set"))
  \/ kind = "commaLimit" /\ Has("offset") /\ Has("limit")

\* A placeholder that is only reached on the second pass over an item that
\* holds a later one, numbered on the first: `CASE ? WHEN 1 THEN ?'.
Overtaken ==
  \E i, j \in DOMAIN text :
    /\ i < j /\ text[i].item = text[j].item
    /\ text[i].shape = "late" /\ text[j].shape # "late"

InTextOrder == {<<k, k>> : k \in Occurrences}

\* Type invariant of the walk.
TypeOK ==
  /\ kind \in Kinds
  /\ style \in {"?", "$"}
  /\ \A i \in DOMAIN text : text[i].shape \in Shapes(text[i].clause)
  /\ Len(text) <= MaxSites
  /\ visited \in Nat
  /\ entered \subseteq Visits
  /\ \A i \in DOMAIN pending : pending[i].occurrence \in Occurrences
  /\ \A p \in params : p[1] \in 1..(4 * MaxSites) /\ p[2] \in Occurrences

\* Every `?' is one parameter, numbered as the driver will bind it, in any
\* statement that reaches all of them, each expression's in its order, none
\* twice in a derived table, none on the second pass over an item that holds
\* a later one of the first, and does not combine the clauses that are visited
\* against the text.  (The counting and order fixes of #170:
\* resolve_placeholder_position and analyze_select.)
BoundInTextOrder ==
  /\ Analyzed
  /\ style = "?"
  /\ Unread = {}
  /\ ~Uses("inverted")
  /\ ~Uses("derived")
  /\ ~Overtaken
  /\ ~AgainstTheText
  => params = InTextOrder

\* No `$N' the walk reaches is lost or renumbered, in any order of visits.
DollarsKeepTheirNumber ==
  Analyzed /\ style = "$" =>
    params = {<<k, k>> : k \in {o \in Occurrences :
                \E i \in DOMAIN text \ Unread : o \in LastOf(i - 1) + 1 .. LastOf(i)}}

\* What the comment on the order of analyze_select is after: no `?' is bound
\* before an earlier one.
NoInversion ==
  Analyzed /\ style = "?" =>
    \A p, q \in params : p[2] < q[2] => p[1] < q[1]
=============================================================================
