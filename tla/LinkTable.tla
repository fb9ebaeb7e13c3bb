------------------------------ MODULE LinkTable ------------------------------
(***************************************************************************)
(* The services over the two tables (src/src/services/database) as their   *)
(* callers see them: clients read entities in one unit of work, change     *)
(* them and write them back in another, one at a time (update) or as a     *)
(* batch (update_many); mark_as_deleted and mark_as_active do the same     *)
(* between two statements; others list the tables page by page.  Every     *)
(* write is one statement, WHERE id = ..., that sets every column.         *)
(*                                                                         *)
(* UnitOfWork has the transactions and their failures, LinkCache the       *)
(* handlers with the cache; here each unit of work takes effect when its   *)
(* last statement does.                                                    *)
(***************************************************************************)
EXTENDS Queries, FiniteSets

CONSTANTS
    Clients,        \* callers that hold entities
    Targets,        \* target urls
    Times,          \* values of access_time
    Scenarios,      \* what is called together, and the bounds of that
    Filters,        \* filters of listings of urls
    Sorts,          \* sort_by strings of listings of urls, as lists
    PerPage,        \* rows per page: 10 by default
    MaxHeld         \* bound: entities held by all clients together

Operations == {"create", "delete", "write", "click", "list", "write stats", "list stats"}

\* A scenario bounds the short codes, the links and the clicks ever created.
ASSUME ScenariosAssumption ==
    Scenarios \subseteq [may : SUBSET Operations, codes : SUBSET Nat, links : Nat, clicks : Nat]
ASSUME BoundsAssumption == PerPage \in Nat \ {0} /\ MaxHeld \in Nat
ASSUME ValuesAssumption == Targets \subseteq Int /\ Times \subseteq Int
\* A sort list gives each of its columns a direction.
Directions == {"ASC", "DESC"}
ASSUME SortsAssumption == Sorts \subseteq Seq(STRING \X Directions) /\ None \notin Directions

VARIABLES
    scenario,       \* what is called in this behaviour
    db,             \* the rows of "urls" and of "url_stats"
    held,           \* each client's entities, in the order it read them
    listing,        \* the reader of pages
    \* history
    bornAs,         \* the short codes of the links by id, as they were created
    clicksMade,     \* how many clicks were created
    wanted,         \* what each link's columns were last asked to be
    overwritten     \* links written by someone who had not read the latest row

historyVars == <<bornAs, clicksMade, wanted, overwritten>>
vars == <<scenario, db, held, listing, historyVars>>

Tables == {"urls", "url_stats"}
Columns(table) == IF table = "urls" THEN UrlColumns ELSE UrlStatsColumns
Ids(table) == {row.id : row \in table}
\* The columns that callers change.
Editable == {"target_url", "deleted_at"}

\* No listing is under way.
Closed == [page |-> 0, table |-> "urls", sortBy |-> << >>, filter |-> << >>, rows |-> << >>,
           there |-> {}, seen |-> {}, complete |-> FALSE]

Init == /\ scenario \in Scenarios
        /\ db = [t \in Tables |-> {}]
        /\ held = [c \in Clients |-> << >>]
        /\ listing = Closed
        /\ bornAs = << >>
        /\ clicksMade = 0
        /\ wanted = << >>
        /\ overwritten = {}

-----------------------------------------------------------------------------
(***************************************************************************)
(* Rows come and go.                                                       *)
(***************************************************************************)

\* UrlService.create: the code is one that no row has.
Create(code, target) ==
    /\ "create" \in scenario.may
    /\ Len(bornAs) < scenario.links
    /\ \A row \in db["urls"] : row.short_code # code
    /\ db' = [db EXCEPT !["urls"] = @ \cup {[id |-> Len(bornAs) + 1, target_url |-> target,
                                              short_code |-> code, deleted_at |-> None]}]
    /\ bornAs' = Append(bornAs, code)
    /\ wanted' = Append(wanted, [target_url |-> target, deleted_at |-> None])
    /\ UNCHANGED <<scenario, held, listing, clicksMade, overwritten>>

\* UrlStatsService.create_many, with one model: the foreign key wants the link.
CreateClick(id, time) ==
    /\ "click" \in scenario.may
    /\ clicksMade < scenario.clicks
    /\ id \in Ids(db["urls"])
    /\ clicksMade' = clicksMade + 1
    /\ db' = [db EXCEPT !["url_stats"] =
                 @ \cup {[id |-> clicksMade + 1, url_id |-> id, access_time |-> time]}]
    /\ UNCHANGED <<scenario, held, listing, bornAs, wanted, overwritten>>

\* Entities of rows that change or go are out of date from then on.
Outdated(t, gone) == [c \in Clients |-> [i \in DOMAIN held[c] |->
    IF held[c][i].table = t /\ held[c][i].row.id \in gone
    THEN [held[c][i] EXCEPT !.fresh = FALSE] ELSE held[c][i]]]

\* A listing that is under way loses its rows.
ListingWithout(t) == IF t = "urls" THEN [listing EXCEPT !.complete = FALSE] ELSE listing

\* UrlService.delete finds the row by its code and deletes it by its id; the foreign
\* key takes its clicks along.
Delete(code) ==
    /\ "delete" \in scenario.may
    /\ \E row \in Matching(db["urls"], (<<"short_code", "eq">> :> code)) :
          /\ db' = [t \in Tables |-> IF t = "urls" THEN db[t] \ {row}
                                     ELSE {click \in db[t] : click.url_id # row.id}]
          /\ held' = Outdated("urls", {row.id})
    /\ listing' = ListingWithout("urls")
    /\ UNCHANGED <<scenario, historyVars>>

\* UrlStatsService.delete with an entity that client c holds.
DeleteClick(c) ==
    /\ "write stats" \in scenario.may
    /\ Len(held[c]) = 1
    /\ held[c][1].table = "url_stats"
    /\ db' = [db EXCEPT !["url_stats"] = {row \in @ : row.id # held[c][1].row.id}]
    /\ held' = [Outdated("url_stats", {held[c][1].row.id}) EXCEPT ![c] = << >>]
    /\ UNCHANGED <<scenario, listing, historyVars>>

-----------------------------------------------------------------------------
(***************************************************************************)
(* Entities: read in one unit of work, written in another.                 *)
(***************************************************************************)

\* How many entities are held by all clients together.
HeldNow == Cardinality({s \in Clients \X (1 .. MaxHeld) : s[2] <= Len(held[s[1]])})

\* What a client holds is for one call of one service: entities of one table.
Hold(c, t, row, edited) ==
    /\ HeldNow < MaxHeld
    /\ \A i \in DOMAIN held[c] : held[c][i].table = t
    /\ held' = [held EXCEPT ![c] = Append(@, [table |-> t, row |-> row, edited |-> edited,
                                              fresh |-> TRUE])]
    /\ UNCHANGED <<scenario, db, listing, historyVars>>

\* get_one or get_all, and a new target for the entity.
ReadToRetarget(c, target) ==
    /\ "write" \in scenario.may
    /\ \E row \in db["urls"] : Hold(c, "urls", [row EXCEPT !.target_url = target], {"target_url"})

\* mark_as_deleted and mark_as_active up to their UPDATE.
ReadToMark(c, code, now) ==
    LET op == IF now = None THEN "is_not_null" ELSE "is_null"
        filter == (<<"short_code", "eq">> :> code) @@ (<<"deleted_at", op>> :> TRUE)
    IN /\ "write" \in scenario.may
       /\ held[c] = << >>
       /\ \E row \in Matching(db["urls"], filter) :
             Hold(c, "urls", [row EXCEPT !.deleted_at = now], {"deleted_at"})

\* UrlStatsService.get_one and get_all.
ReadClick(c) == /\ "write stats" \in scenario.may
                /\ \E row \in db["url_stats"] : Hold(c, "url_stats", row, {})

\* The statement is allowed by the primary keys, the unique index of short_code and
\* the foreign key.
Consistent(tables) ==
    /\ \A t \in Tables : \A r, q \in tables[t] : r.id = q.id => r = q
    /\ \A r, q \in tables["urls"] : r.short_code = q.short_code => r = q
    /\ \A click \in tables["url_stats"] : click.url_id \in Ids(tables["urls"])

\* What the entities of a write ask a link's columns to be: the last that sets one counts.
Asked(id, entities) == [col \in Editable |->
    LET setting == {i \in DOMAIN entities : col \in entities[i].edited /\ entities[i].row.id = id}
    IN IF setting = {} THEN wanted[id][col] ELSE entities[CHOOSE i \in setting :
                                                     \A j \in setting : j <= i].row[col]]

\* The write of client c's entities has left row in table t.
Wrote(c, t, row) ==
    /\ held' = [Outdated(t, {row.id}) EXCEPT ![c] = << >>]
    /\ IF t = "urls"
       THEN /\ wanted' = [wanted EXCEPT ![row.id] = Asked(row.id, held[c])]
            /\ overwritten' = IF Len(held[c]) = 1 /\ held[c][1].fresh
                              THEN overwritten ELSE overwritten \cup {row.id}
       ELSE UNCHANGED <<wanted, overwritten>>
    /\ UNCHANGED <<scenario, bornAs, clicksMade>>

\* MUTANT: an entity that is read without deleted_at is written as active.
Update_Activates(c) ==
    /\ Len(held[c]) = 1
    /\ LET e == held[c][1]
           row == IF e.table = "urls" /\ "deleted_at" \notin e.edited
                  THEN [e.row EXCEPT !.deleted_at = None] ELSE e.row
       IN /\ row.id \in Ids(db[e.table])
          /\ db' = [db EXCEPT ![e.table] = {r \in @ : r.id # row.id} \cup {row}]
          /\ Wrote(c, e.table, row)
          /\ listing' = ListingWithout(e.table)

\* MUTANT: a row that is gone is inserted again.
Update_Upserts(c) ==
    /\ Len(held[c]) = 1
    /\ LET e == held[c][1]
       IN /\ db' = [db EXCEPT ![e.table] = {r \in @ : r.id # e.row.id} \cup {e.row}]
          /\ Consistent(db')
          /\ Wrote(c, e.table, e.row)
          /\ listing' = ListingWithout(e.table)

\* update: all columns of the row with the entity's id.
Update(c) ==
    /\ Len(held[c]) = 1
    /\ LET e == held[c][1]
       IN /\ e.row.id \in Ids(db[e.table])
          /\ db' = [db EXCEPT ![e.table] = {r \in @ : r.id # e.row.id} \cup {e.row}]
          /\ Wrote(c, e.table, e.row)
          /\ listing' = ListingWithout(e.table)

\* The rows that update_many's WHERE id IN (...) finds.
Found(c) == {r \in db[held[c][1].table] : \E i \in DOMAIN held[c] : held[c][i].row.id = r.id}

\* MUTANT: the id is left out of the merged values.
UpdateMany_KeepsIds(c) ==
    /\ Len(held[c]) > 1
    /\ LET e == held[c][Len(held[c])]
       IN /\ Found(c) # {}
          /\ db' = [db EXCEPT ![e.table] = (@ \ Found(c)) \cup
                                              {[e.row EXCEPT !.id = r.id] : r \in Found(c)}]
          /\ Consistent(db')
          /\ Wrote(c, e.table, e.row)
          /\ listing' = ListingWithout(e.table)

\* update_many merges its models into one dict, where the last one's columns stay, id
\* and short_code among them: PostgreSQL allows that for one row at most, and that row
\* becomes the last model's, whichever it was.
UpdateMany(c) ==
    /\ Len(held[c]) > 1
    /\ LET e == held[c][Len(held[c])]
       IN /\ Cardinality(Found(c)) = 1
          /\ db' = [db EXCEPT ![e.table] = (@ \ Found(c)) \cup {e.row}]
          /\ Consistent(db')
          /\ Wrote(c, e.table, e.row)
          /\ listing' = ListingWithout(e.table)

\* The write finds no row, or breaks a constraint: it is rolled back. Or the client
\* does not write.
Forget(c) == /\ held[c] # << >>
             /\ held' = [held EXCEPT ![c] = << >>]
             /\ UNCHANGED <<scenario, db, listing, historyVars>>

-----------------------------------------------------------------------------
(***************************************************************************)
(* Listings.                                                               *)
(***************************************************************************)

\* get_list, page n of table t.
GetList(t, filter, sortBy, n) ==
    LET rows == Matching(db[t], filter)
        params == GenerateParams(Columns(t), SortConvertor(Columns(t), sortBy))
    IN {Page(s, n, PerPage) : s \in Ordered(rows, params)}

\* A caller pages through the urls, until a page comes back empty.
ListFirst(filter, sortBy) ==
    /\ "list" \in scenario.may
    /\ listing = Closed
    /\ \E rows \in GetList("urls", filter, sortBy, 1) :
          listing' = [page |-> 1, table |-> "urls", sortBy |-> sortBy, filter |-> filter,
                      rows |-> rows, there |-> Ids(Matching(db["urls"], filter)), seen |-> Ids(Range(rows)),
                      complete |-> TRUE]
    /\ UNCHANGED <<scenario, db, held, historyVars>>

ListNext ==
    /\ "list" \in scenario.may
    /\ listing.table = "urls"
    /\ listing.rows # << >>
    /\ \E rows \in GetList("urls", listing.filter, listing.sortBy, listing.page + 1) :
          listing' = [listing EXCEPT !.page = @ + 1, !.rows = rows,
                                     !.seen = @ \cup Ids(Range(rows))]
    /\ UNCHANGED <<scenario, db, held, historyVars>>

ListClose == /\ listing # Closed
             /\ listing' = Closed
             /\ UNCHANGED <<scenario, db, held, historyVars>>

\* UrlStatsService.get_list as the stats endpoint calls it: the first page, by time.
StatsSort == << <<"access_time", "ASC">> >>

ListStats(code) ==
    /\ "list stats" \in scenario.may
    /\ listing = Closed
    /\ \E url \in Matching(db["urls"], (<<"short_code", "eq">> :> code)) :
          LET filter == (<<"url_id", "eq">> :> url.id)
          IN \E rows \in GetList("url_stats", filter, StatsSort, 1) :
                listing' = [Closed EXCEPT !.page = 1, !.table = "url_stats", !.sortBy = StatsSort, !.filter = filter,
                                          !.rows = rows]
    /\ UNCHANGED <<scenario, db, held, historyVars>>

-----------------------------------------------------------------------------
Next == \/ \E code \in scenario.codes, target \in Targets : Create(code, target)
        \/ \E id \in 1 .. scenario.links, time \in Times : CreateClick(id, time)
        \/ \E code \in scenario.codes : Delete(code) \/ ListStats(code)
        \/ \E c \in Clients : \/ DeleteClick(c)
                              \/ \E target \in Targets : ReadToRetarget(c, target)
                              \/ \E code \in scenario.codes, now \in {None, 1} : ReadToMark(c, code, now)
                              \/ ReadClick(c)
                              \/ Update(c)
                              \/ UpdateMany(c)
                              \/ Forget(c)
        \/ \E filter \in Filters, sortBy \in Sorts : ListFirst(filter, sortBy)
        \/ ListNext
        \/ ListClose

Spec == Init /\ [][Next]_vars
-----------------------------------------------------------------------------
UrlRow == [id : Nat, target_url : Targets, short_code : Nat, deleted_at : {None, 1}]
ClickRow == [id : Nat, url_id : Nat, access_time : Times]
Entity == {e \in [table : Tables, row : UrlRow \cup ClickRow,
                  edited : SUBSET Editable, fresh : BOOLEAN] :
               IF e.table = "urls" THEN e.row \in UrlRow ELSE e.row \in ClickRow}

\* Every table holds rows of its own columns, and every client entities.
TypeOK == /\ scenario \in Scenarios
          /\ db \in [Tables -> SUBSET (UrlRow \cup ClickRow)]
          /\ db["urls"] \subseteq UrlRow /\ db["url_stats"] \subseteq ClickRow
          /\ held \in [Clients -> Seq(Entity)]
          /\ DOMAIN listing = DOMAIN Closed
          /\ listing.page \in Nat /\ listing.table \in Tables
          /\ listing.complete \in BOOLEAN
          /\ bornAs \in Seq(Nat)
          /\ clicksMade \in Nat
          /\ wanted \in Seq([Editable -> Targets \cup {None, 1}])
          /\ overwritten \subseteq Nat

\* An id keeps the short code it was created with, and the tables keep their keys:
\* writing id and short_code back with everything else never gives a link another
\* code, however old the entity and whatever update_many merges.
IdKeepsCode == /\ Consistent(db)
               /\ \A row \in db["urls"] : row.short_code = bornAs[row.id]

\* What a caller has set on a link stays until another sets it, unless an entity was
\* written that was read before the link's last change, or a batch was.
EditsLostOnlyByOldEntities ==
    \A row \in db["urls"] : row.id \notin overwritten =>
        \A col \in Editable : row[col] = wanted[row.id][col]

\* A row that was there once and is no more.
WasDeleted(t, id) == /\ id \notin Ids(db[t])
                     /\ id <= IF t = "urls" THEN Len(bornAs) ELSE clicksMade

\* An old entity of a row that was deleted never brings it back beside the others: such
\* a row returns only when update_many gives its values, as those of the last model, to
\* the one row that it still finds. That row goes, which for a link means that it had no
\* clicks to lose, and every other row stays as it is.
DeletedReturnsForAnother ==
    [][\A t \in Tables : \A row \in db'[t] : WasDeleted(t, row.id) =>
          \E c \in Clients :
             /\ Len(held[c]) > 1 /\ held[c][1].table = t
             /\ held[c][Len(held[c])].row = row
             /\ \E old \in Found(c) :
                   /\ db'[t] = (db[t] \ {old}) \cup {row}
                   /\ t = "urls" => \A click \in db["url_stats"] : click.url_id # old.id]_vars

\* The list asks for columns of the model, each once, in the order of declaration.
InDeclaredOrder(columns, sortBy) ==
    /\ \A i \in DOMAIN sortBy : sortBy[i][1] \in Range(columns)
    /\ \A i, j \in DOMAIN sortBy : \E m, n \in DOMAIN columns :
          /\ sortBy[i][1] = columns[m] /\ sortBy[j][1] = columns[n]
          /\ i < j => m < n

\* A page shows, at each of its places, a row that belongs there in the order that
\* was asked for, when the columns come in the order of their declaration: so many
\* rows at most come before it, and as many at least not after it. It is as long as
\* the rows allow.
PageAsAsked(rows, columns) ==
    LET before(r) == {q \in rows : Before(listing'.sortBy, q, r)}
        upTo(r) == {q \in rows : ~Before(listing'.sortBy, r, q)}
        start == (listing'.page - 1) * PerPage
        page == listing'.rows
    IN /\ Range(page) \subseteq rows
       /\ Len(page) = Cardinality(Range(page))
       /\ Len(page) = PerPage \/ Cardinality(rows) <= start + Len(page)
       /\ InDeclaredOrder(columns, listing'.sortBy) =>
             \A i \in DOMAIN page : /\ Cardinality(before(page[i])) < start + i
                                    /\ start + i <= Cardinality(upTo(page[i]))

\* Listings are filtered, sorted and cut as asked; that of the stats shows a link's
\* oldest clicks.
ListingsAsAsked ==
    [][listing'.page > 0 /\ listing'.page # listing.page =>
          PageAsAsked(Matching(db[listing'.table], listing'.filter), Columns(listing'.table))]_listing

\* Whoever pages through the links in an order that tells any two apart has, at the
\* end, seen all links that were there at the start, also when links are created
\* meanwhile; only a deleted or updated link can hide another one.
PagesMissOnlyAfterDeletes ==
    /\ listing.page > 0 /\ listing.complete /\ listing.rows = << >>
    /\ \E i \in DOMAIN listing.sortBy : listing.sortBy[i][1] \in {"id", "short_code"}
    => listing.there \subseteq listing.seen
=============================================================================
