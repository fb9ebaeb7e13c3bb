------------------------------- MODULE Queries -------------------------------
(***************************************************************************)
(* How the repositories query a table: filters (src/src/orm/filters),      *)
(* sorters (src/src/orm/sorters) and pages (get_list of                    *)
(* src/src/repositories/base.py).  A table is a set of rows, a row a       *)
(* record of columns; texts and times are integers, which is how far the   *)
(* queries tell them apart, and None is SQL's NULL.                        *)
(***************************************************************************)
EXTENDS Integers, Sequences, SequencesExt

CONSTANT None

\* The columns in the order in which the sort models declare them.
UrlColumns == <<"id", "target_url", "short_code", "deleted_at">>
UrlStatsColumns == <<"id", "url_id", "access_time">>

\* What a field of a filter model asks of its column: SQLAlchemy turns == None into
\* IS NULL; a comparison with NULL holds for no row; is_null and is_not_null look at
\* the field's presence, not at its value. For "contains" the value stands for the
\* texts that contain it.
Asks(op, column, value) ==
    \/ op = "eq" /\ column = value
    \/ op \in {"in", "contains"} /\ column \in value
    \/ op = "notin" /\ column \notin value
    \/ op = "gt" /\ column # None /\ column > value
    \/ op = "lt" /\ column # None /\ column < value
    \/ op = "between" /\ column # None /\ value[1] <= column /\ column <= value[2]
    \/ op = "is_null" /\ column = None
    \/ op = "is_not_null" /\ column # None

\* A filter maps each field that is set, a pair <<column, op>>, to its value.
Matching(table, filter) ==
    {row \in table : \A f \in DOMAIN filter : Asks(f[2], row[f[1]], filter[f])}

\* sort_convertor: a list of <<column, direction>> becomes the fields of a sort model;
\* of two entries for a column the later stays, and columns the model lacks are lost.
SortConvertor(columns, sortBy) ==
    LET named == {sortBy[i][1] : i \in DOMAIN sortBy} \cap Range(columns)
        final(c) == CHOOSE i \in DOMAIN sortBy :
                       sortBy[i][1] = c /\ \A j \in DOMAIN sortBy : sortBy[j][1] = c => j <= i
    IN [c \in named |-> sortBy[final(c)][2]]

\* MUTANT: the fields of the sort model are not looked at.
GenerateParams_Nothing(columns, sorters) == << >>

\* generate_params: the fields that are set, in the order of their declaration.
GenerateParams(columns, sorters) ==
    LET set == {i \in DOMAIN columns :
                   columns[i] \in DOMAIN sorters /\ sorters[columns[i]] # None}
        upTo(i) == {j \in set : j <= i}
        nth(n) == columns[CHOOSE i \in set : Cardinality(upTo(i)) = n]
    IN [n \in 1 .. Cardinality(set) |-> <<nth(n), sorters[nth(n)]>>]

\* PostgreSQL sorts NULL as if it were larger than everything else.
Larger(a, b) == b # None /\ (a = None \/ a > b)

\* A direction puts value a before value b.
Ahead(dir, a, b) == \/ dir = "ASC" /\ Larger(b, a)
                    \/ dir = "DESC" /\ Larger(a, b)

\* ORDER BY params puts row r before row q.
Before(params, r, q) ==
    \E i \in DOMAIN params :
        /\ \A j \in 1 .. i - 1 : r[params[j][1]] = q[params[j][1]]
        /\ Ahead(params[i][2], r[params[i][1]], q[params[i][1]])

\* The results that ORDER BY allows: rows that tie come in any order.
Ordered(rows, params) ==
    {s \in SetToSeqs(rows) : \A i, j \in DOMAIN s : i < j => ~Before(params, s[j], s[i])}

\* MUTANT: pages are counted from zero.
Page_FromZero(rows, page, perPage) ==
    LET end == (page + 1) * perPage
    IN SubSeq(rows, page * perPage + 1, IF end < Len(rows) THEN end ELSE Len(rows))

\* LIMIT and OFFSET of get_list.
Page(rows, page, perPage) ==
    LET end == page * perPage
    IN SubSeq(rows, (page - 1) * perPage + 1, IF end < Len(rows) THEN end ELSE Len(rows))
=============================================================================
