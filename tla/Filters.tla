------------------------------- MODULE Filters ------------------------------
(* The filter vocabulary of core/query and its evaluators: the Go predicate   *)
(* that decides the membership of a live query (core/livequery/match), the   *)
(* SQL of the same query's snapshot and refill (adapters/postgres), the      *)
(* clauses of a search (adapters/search), the index that picks the views a   *)
(* change may concern, and the keyset order of a window.                     *)
EXTENDS FilterTerms, FiniteSets

CONSTANTS
    Views,          \* the ids (shape keys) views have
    FilterSetups    \* [views, wheres, rows, sorts, collation]: the views, the filters subscribed, the rows that
                    \* change, the orders asked for, the database's order of strings

VARIABLES
    fset,           \* the setup of this behaviour
    shown,          \* per view its filter, or NoView
    byColVal,       \* the index: column, normalised value, view
    want,           \* per view the number of columns it constrains, 0: none
    residual,       \* views with nothing to index
    row             \* the row of the change at hand

filterVars == <<fset, shown, byColVal, want, residual, row>>

-----------------------------------------------------------------------------
(* A filter a query accepts: a known operator, and values where it needs     *)
(* them.                                                                     *)
Ops == {"eq", "ne", "gt", "gte", "lt", "lte", "in", "notin", "like", "ilike", "isnull", "isnotnull"}

Ranges == {"gt", "gte", "lt", "lte"}

RECURSIVE validate(_)
validate(c) ==
    IF IsGroup(c) THEN \A i \in DOMAIN c.or : validate(c.or[i])
    ELSE /\ c.col # ""
         /\ c.op \in Ops
         /\ c.op \notin {"isnull", "isnotnull"} => Len(c.vals) > 0

-----------------------------------------------------------------------------
(* The Go predicate.  Numbers compare across their types, a time with a time *)
(* and with the text of one, strings by bytes; a pair that cannot be ordered *)
(* is in none of the relations.  A row's values come from JSON: its times    *)
(* are texts.                                                                *)
IsNumber(x) == x.kind \in {"int", "float"}
IsString(x) == x.kind \in {"str", "text"}
TimeWith(a, b) == a.kind = "time" /\ b.kind \in {"time", "text"}
TextBytes(x) == IF x.kind = "text" THEN <<x.v[2]>> ELSE Bytes(x.v)

equal(a, b) ==
    IF (IsNumber(a) /\ IsNumber(b)) \/ TimeWith(a, b) THEN a.v[1] = b.v[1] ELSE a = b

compare(a, b) ==
    IF (IsNumber(a) /\ IsNumber(b)) \/ TimeWith(a, b) THEN Order(<<a.v[1]>>, <<b.v[1]>>)
    ELSE IF IsString(a) /\ IsString(b) THEN Order(TextBytes(a), TextBytes(b)) ELSE "none"

inSlice(x, set) == \E i \in DOMAIN set : equal(x, set[i])

(* LIKE by two pointers: past a %, a mismatch goes back to it and gives it    *)
(* one more character.                                                       *)
Backtrack(st) == [si |-> st.mark + 1, pi |-> st.star + 1, star |-> st.star, mark |-> st.mark + 1]

RECURSIVE Scan(_, _, _)
Scan(s, pat, st) ==
    LET at == IF st.pi <= Len(pat) THEN pat[st.pi] ELSE -1
    IN IF st.si > Len(s) THEN [ok |-> TRUE, pi |-> st.pi]
       ELSE IF at \in {Underscore, s[st.si]} THEN Scan(s, pat, [st EXCEPT !.si = @ + 1, !.pi = @ + 1])
       ELSE IF at = Percent THEN Scan(s, pat, [st EXCEPT !.star = st.pi, !.mark = st.si, !.pi = @ + 1])
       ELSE IF st.star # 0 THEN Scan(s, pat, Backtrack(st))
       ELSE [ok |-> FALSE, pi |-> st.pi]

likeAnchored(s, pat) ==
    LET end == Scan(s, pat, [si |-> 1, pi |-> 1, star |-> 0, mark |-> 1])
    IN end.ok /\ \A i \in end.pi..Len(pat) : pat[i] = Percent

likeMatch(x, pattern, ci) ==
    /\ x.kind = "str"
    /\ pattern.kind = "str"
    /\ IF ci THEN likeAnchored(ToLower(x.v), ToLower(pattern.v)) ELSE likeAnchored(x.v, pattern.v)

(* (Mutant: a missing value differs from every value.)                       *)
evalMissingDiffers(c) == c.op \in {"isnull", "ne", "notin"}

evalMissing(c) == c.op = "isnull"

evalLeaf(c, x) ==
    CASE Missing(x) -> evalMissing(c)
      [] c.op = "isnull" -> FALSE
      [] c.op = "isnotnull" -> ~Missing(x)
      [] c.op = "eq" -> equal(x, c.vals[1])
      [] c.op = "ne" -> ~equal(x, c.vals[1])
      [] c.op = "gt" -> compare(x, c.vals[1]) = "more"
      [] c.op = "gte" -> compare(x, c.vals[1]) \in {"more", "same"}
      [] c.op = "lt" -> compare(x, c.vals[1]) = "less"
      [] c.op = "lte" -> compare(x, c.vals[1]) \in {"less", "same"}
      [] c.op = "in" -> inSlice(x, c.vals)
      [] c.op = "notin" -> ~inSlice(x, c.vals)
      [] c.op = "like" -> likeMatch(x, c.vals[1], FALSE)
      [] c.op = "ilike" -> likeMatch(x, c.vals[1], TRUE)

RECURSIVE evalCond(_, _)
evalCond(c, r) ==
    IF IsGroup(c) THEN \E i \in DOMAIN c.or : evalCond(c.or[i], r) ELSE evalLeaf(c, r[c.col])

Eval(w, r) == \A i \in DOMAIN w : evalCond(w[i], r)

-----------------------------------------------------------------------------
(* The SQL of the same filter: fragments, and what Postgres makes of them.   *)
RECURSIVE condSQL(_)
condSQL(c) ==
    LET leaf(form) == [sql |-> form, col |-> c.col, op |-> c.op, vals |-> c.vals, parts |-> <<>>]
    IN IF IsGroup(c) THEN [leaf("or") EXCEPT !.parts = [i \in DOMAIN c.or |-> condSQL(c.or[i])]]
       ELSE CASE c.op = "in" -> leaf("any")
              [] c.op = "notin" -> leaf("notany")
              [] c.op \in {"isnull", "isnotnull"} -> leaf("null")
              [] OTHER -> leaf("cmp")

(* LIKE as SQL defines it: % stands for any run of characters, _ for one.    *)
RECURSIVE Like(_, _)
Like(s, p) ==
    IF p = <<>> THEN s = <<>>
    ELSE IF Head(p) = Percent THEN \E k \in 0..Len(s) : Like(SubSeq(s, k + 1, Len(s)), Tail(p))
    ELSE s # <<>> /\ Head(p) \in {Underscore, Head(s)} /\ Like(Tail(s), Tail(p))

(* Two values of a column: numbers, instants, or strings in the collation.   *)
SQLOrder(x, y) ==
    CASE x.kind # "str" -> Order(<<x.v[1]>>, <<y.v[1]>>)
      [] x.kind = "str" /\ fset.collation = "C" -> Order(Bytes(x.v), Bytes(y.v))
      [] x.kind = "str" /\ fset.collation # "C" -> Order(Collated(x.v), Collated(y.v))

Relates(op, x, y) ==
    CASE op = "eq" -> SQLOrder(x, y) = "same"
      [] op = "ne" -> SQLOrder(x, y) # "same"
      [] op = "gt" -> SQLOrder(x, y) = "more"
      [] op = "gte" -> SQLOrder(x, y) \in {"more", "same"}
      [] op = "lt" -> SQLOrder(x, y) = "less"
      [] op = "lte" -> SQLOrder(x, y) \in {"less", "same"}
      [] op = "like" -> Like(x.v, y.v)
      [] op = "ilike" -> Like(ToLower(x.v), ToLower(y.v))

Truth(b) == IF b THEN "true" ELSE "false"

(* Three-valued: a comparison with a missing value is unknown, and so is its *)
(* negation.                                                                 *)
RECURSIVE SQLTruth(_, _)
SQLTruth(f, r) ==
    IF f.sql = "or"
    THEN LET ts == {SQLTruth(f.parts[i], r) : i \in DOMAIN f.parts}
         IN IF "true" \in ts THEN "true" ELSE IF "unknown" \in ts THEN "unknown" ELSE "false"
    ELSE LET x == r[f.col] IN
         CASE f.sql = "null" -> Truth(Missing(x) <=> f.op = "isnull")
           [] f.sql # "null" /\ Missing(x) -> "unknown"
           [] f.sql = "any" /\ ~Missing(x) -> Truth(\E i \in DOMAIN f.vals : Relates("eq", x, f.vals[i]))
           [] f.sql = "notany" /\ ~Missing(x) -> Truth(\A i \in DOMAIN f.vals : Relates("ne", x, f.vals[i]))
           [] f.sql = "cmp" /\ ~Missing(x) -> Truth(Relates(f.op, x, f.vals[1]))

Selected(w, r) == \A i \in DOMAIN w : SQLTruth(condSQL(w[i]), r) = "true"

-----------------------------------------------------------------------------
(* The clauses of a search, and what the engine makes of them: a document    *)
(* has a field unless its value is missing.                                  *)
sqlLikeToWildcard(p) ==
    LET tok(c) == CASE c = Percent -> <<Star>> [] c = Underscore -> <<Question>>
                    [] c \in {Star, Question} -> <<Backslash, c>> [] OTHER -> <<c>>
        out[i \in 0..Len(p)] == IF i = 0 THEN <<>> ELSE out[i - 1] \o tok(p[i])
    IN out[Len(p)]

RECURSIVE esFilterClause(_)
esFilterClause(c) ==
    LET leaf(form) == [es |-> form, col |-> c.col, op |-> c.op, vals |-> c.vals, parts |-> <<>>]
        mustNot(form) == [leaf("mustnot") EXCEPT !.parts = <<leaf(form)>>]
    IN IF IsGroup(c) THEN [leaf("should") EXCEPT !.parts = [i \in DOMAIN c.or |-> esFilterClause(c.or[i])]]
       ELSE CASE c.op \in {"eq", "in"} -> leaf("terms")
              [] c.op \in {"ne", "notin"} -> mustNot("terms")
              [] c.op \in {"gt", "gte", "lt", "lte"} -> leaf("range")
              [] c.op = "isnull" -> mustNot("exists")
              [] c.op = "isnotnull" -> leaf("exists")
              [] c.op \in {"like", "ilike"} ->
                    [leaf("wildcard") EXCEPT !.vals = <<StrOf(sqlLikeToWildcard(c.vals[1].v))>>]

RECURSIVE Wildcard(_, _)
Wildcard(s, p) ==
    IF p = <<>> THEN s = <<>>
    ELSE IF Head(p) = Star THEN \E k \in 0..Len(s) : Wildcard(SubSeq(s, k + 1, Len(s)), Tail(p))
    ELSE IF Head(p) = Backslash THEN s # <<>> /\ Head(s) = p[2] /\ Wildcard(Tail(s), Tail(Tail(p)))
    ELSE s # <<>> /\ Head(p) \in {Question, Head(s)} /\ Wildcard(Tail(s), Tail(p))

RECURSIVE ESMatches(_, _)
ESMatches(q, r) ==
    CASE q.es = "should" -> \E i \in DOMAIN q.parts : ESMatches(q.parts[i], r)
      [] q.es = "mustnot" -> ~ESMatches(q.parts[1], r)
      [] q.es = "exists" -> ~Missing(r[q.col])
      [] q.es = "terms" -> ~Missing(r[q.col]) /\ \E i \in DOMAIN q.vals : r[q.col].v = q.vals[i].v
      [] q.es = "range" -> ~Missing(r[q.col]) /\ Relates(q.op, r[q.col], q.vals[1])
      [] q.es = "wildcard" ->
            /\ ~Missing(r[q.col])
            /\ IF q.op = "like" THEN Wildcard(r[q.col].v, q.vals[1].v)
                               ELSE Wildcard(ToLower(r[q.col].v), ToLower(q.vals[1].v))

Found(w, r) == \A i \in DOMAIN w : ESMatches(esFilterClause(w[i]), r)

-----------------------------------------------------------------------------
(* The order of a window: by the sort keys, then by id; and the predicate of *)
(* the rows after a cursor, a disjunction of chains of equalities.           *)
SortKeyOf(r, sort) == [i \in 1..Len(sort) + 1 |-> IF i <= Len(sort) THEN r[sort[i].col] ELSE r.id]

Descending(sort, i) == i <= Len(sort) /\ sort[i].desc

CompareCursors(a, b, sort) ==
    LET order(i) == CASE compare(a[i], b[i]) = "less" -> IF Descending(sort, i) THEN "more" ELSE "less"
                      [] compare(a[i], b[i]) = "more" -> IF Descending(sort, i) THEN "less" ELSE "more"
                      [] OTHER -> "same"
        differ == {i \in DOMAIN a : order(i) # "same"}
    IN IF differ = {} THEN "same" ELSE order(CHOOSE i \in differ : \A j \in differ : i <= j)

keysetSQL(sort, after, r) ==
    LET key == SortKeyOf(r, sort)
    IN \E i \in DOMAIN key :
          /\ \A j \in 1..i : ~Missing(key[j]) /\ ~Missing(after[j])
          /\ \A j \in 1..i - 1 : Relates("eq", key[j], after[j])
          /\ Relates(IF Descending(sort, i) THEN "lt" ELSE "gt", key[i], after[i])

-----------------------------------------------------------------------------
(* The index of the views' top-level equalities.                             *)
normVal(x) == IF IsNumber(x) THEN FloatOf(x.v[1]) ELSE x

equalityColumns(w) ==
    UNION {{<<w[i].col, normVal(w[i].vals[k])>> : k \in DOMAIN w[i].vals} :
           i \in {j \in DOMAIN w : ~IsGroup(w[j]) /\ w[j].op \in {"eq", "in"}}}

Columns(pairs) == {p[1] : p \in pairs}

NoView == <<Or(<<>>)>>

FilterInit ==
    /\ fset \in FilterSetups
    /\ shown = [v \in Views |-> NoView]
    /\ byColVal = {}
    /\ want = [v \in Views |-> 0]
    /\ residual = {}
    /\ row \in fset.rows

Add(v, w) ==
    LET cols == equalityColumns(w) IN
    /\ shown[v] = NoView
    /\ \A i \in DOMAIN w : validate(w[i])
    /\ shown' = [shown EXCEPT ![v] = w]
    /\ IF cols = {}
       THEN residual' = residual \cup {v} /\ UNCHANGED <<want, byColVal>>
       ELSE /\ want' = [want EXCEPT ![v] = Cardinality(Columns(cols))]
            /\ byColVal' = byColVal \cup {<<p[1], p[2], v>> : p \in cols}
            /\ UNCHANGED residual
    /\ UNCHANGED <<fset, row>>

Remove(v) ==
    /\ shown[v] # NoView
    /\ shown' = [shown EXCEPT ![v] = NoView]
    /\ residual' = residual \ {v}
    /\ want' = [want EXCEPT ![v] = 0]
    /\ byColVal' = {t \in byColVal : t[3] # v}
    /\ UNCHANGED <<fset, row>>

Candidates(r) ==
    LET hits(v) == {t \in byColVal : t[3] = v /\ t[2] = normVal(r[t[1]])}
    IN residual \cup {v \in Views : hits(v) # {} /\ Cardinality(Columns(hits(v))) >= want[v]}

(* The next change.                                                          *)
Changed(r) ==
    /\ row # r
    /\ row' = r
    /\ UNCHANGED <<fset, shown, byColVal, want, residual>>

FilterNext ==
    \/ \E v \in fset.views : (\E w \in fset.wheres : Add(v, w)) \/ Remove(v)
    \/ \E r \in fset.rows : Changed(r)

FilterSpec == FilterInit /\ [][FilterNext]_filterVars

-----------------------------------------------------------------------------
Subscribed == {v \in Views : shown[v] # NoView}

FilterTypeOK ==
    /\ fset \in FilterSetups
    /\ row \in fset.rows
    /\ \A v \in Subscribed : shown[v] \in fset.wheres
    /\ residual \subseteq Views
    /\ \A v \in Views : want[v] \in 0..2
    /\ \A t \in byColVal : t[3] \in Views

(* Where the two part: the condition is on a time.Time, which equals no      *)
(* text; on texts of times that are in another order than the instants; or a *)
(* range of strings in a database that does not order them by bytes.         *)
Apart(c, x) ==
    /\ ~Missing(x)
    /\ \E i \in DOMAIN c.vals :
          /\ c.vals[i].kind \in {"time", "text"} \/ c.op \in Ranges
          /\ compare(x, c.vals[i]) # SQLOrder(x, c.vals[i])

RECURSIVE SomeLeaf(_, _, _)
SomeLeaf(Is(_, _), c, r) ==
    IF IsGroup(c) THEN \E i \in DOMAIN c.or : SomeLeaf(Is, c.or[i], r) ELSE Is(c, r[c.col])

(* The membership the engine decides for a change is the membership the     *)
(* database decides for the snapshot and the refills of the same view,       *)
(* missing values included ("Go-eval = Postgres WHERE",                      *)
(* match/predicate.go:4-5), unless a condition is on times or is a range of  *)
(* strings that Go (compare.go:35-58) orders otherwise (Apart).              *)
MembershipAgrees ==
    \A v \in Subscribed :
        \/ \E i \in DOMAIN shown[v] : SomeLeaf(Apart, shown[v][i], row)
        \/ Eval(shown[v], row) <=> Selected(shown[v], row)

(* The index leaves out no view the change could enter: it may only include  *)
(* too many; and a view that went leaves nothing behind (predicateIndex: "it *)
(* never excludes a subscription that could match").                         *)
CandidatesSound ==
    /\ \A v \in Subscribed : Eval(shown[v], row) => v \in Candidates(row)
    /\ Candidates(row) \subseteq Subscribed
    /\ {t[3] : t \in byColVal} \subseteq Subscribed

(* An exclusion also finds documents without the field; a range of strings   *)
(* is looked up in the analysed text, a time in the field the engine guessed.*)
FoundElse(c, x) ==
    \/ c.op \in {"ne", "notin"} /\ Missing(x)
    \/ c.op \in Ranges /\ x.kind = "str"
    \/ x.kind = "text"

(* A search with a filter finds the documents of the rows the database       *)
(* selects, but for FoundElse (esFilterClause, esMustNot, esRange;           *)
(* sqlLikeToWildcard).                                                       *)
SearchAgrees ==
    \A v \in Subscribed :
        \/ \E i \in DOMAIN shown[v] : SomeLeaf(FoundElse, shown[v][i], row)
        \/ Found(shown[v], row) <=> Selected(shown[v], row)

(* The refill's predicate selects exactly the rows that follow the cursor in *)
(* the window's own order, for any mix of directions, as long as no sort key *)
(* is missing and Go and SQL order the keys alike (keysetSQL and             *)
(* CompareCursors).                                                          *)
KeysetExact ==
    \A sort \in fset.sorts : \A r \in fset.rows :
        LET a == SortKeyOf(row, sort)  b == SortKeyOf(r, sort) IN
        (\A i \in DOMAIN a : /\ ~Missing(a[i]) /\ ~Missing(b[i])
                             /\ compare(a[i], b[i]) = SQLOrder(a[i], b[i]))
        => (keysetSQL(sort, a, r) <=> CompareCursors(b, a, sort) = "more")
=============================================================================
