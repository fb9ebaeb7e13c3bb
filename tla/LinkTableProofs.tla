--------------------------- MODULE LinkTableProofs ---------------------------
(***************************************************************************)
(* Machine-checked proofs about LinkTable, for any clients, targets, short *)
(* codes, scenarios, filters and sort lists, and pages of any length.      *)
(***************************************************************************)
EXTENDS LinkTable, FiniteSetTheorems, SequenceTheorems, TLAPS

-----------------------------------------------------------------------------
(***************************************************************************)
(* The least and the largest of some positions.                            *)
(***************************************************************************)

\* The least of some numbers.
LEMMA FirstOf ==
    ASSUME NEW S \in SUBSET Nat, S # {}
    PROVE  \E m \in S : \A j \in S : m <= j
<1>1. PICK R : IsWellFoundedOn(R, Nat) /\ \A j, m \in Nat : j < m => <<j, m>> \in R
  <2>1. \A j, m \in Nat : j < m => <<j, m>> \in OpToRel(<, Nat)
    BY DEF OpToRel
  <2>2. IsWellFoundedOn(OpToRel(<, Nat), Nat)
    BY NatLessThanWellFounded
  <2> WITNESS OpToRel(<, Nat)
  <2> QED BY <2>1, <2>2
<1>2. PICK m \in S : \A j \in S : ~(<<j, m>> \in R)
  <2>1. IsWellFoundedOn(R, Nat) /\ S \subseteq Nat
    BY <1>1
  <2> QED BY <2>1, WFMin, Zenon
<1>3. \A j \in S : ~(j < m)
  BY <1>1, <1>2
<1> QED BY <1>3

LEMMA LastOf ==
    ASSUME NEW n \in Nat, NEW S \in SUBSET (1 .. n), S # {}
    PROVE  \E m \in S : \A j \in S : j <= m
<1> DEFINE Back == {k \in Nat : n - k \in S}
<1>1. PICK s \in S : TRUE
  OBVIOUS
<1>2. n - s \in Nat /\ n - (n - s) = s
  OBVIOUS
<1>3. n - s \in Back
  BY <1>2
<1>4. PICK k \in Back : \A j \in Back : k <= j
  <2> Back \in SUBSET Nat /\ Back # {}
    BY <1>3
  <2> HIDE DEF Back
  <2> QED BY FirstOf
<1>5. \A j \in S : n - j \in Back
  OBVIOUS
<1>6. \A j \in S : k <= n - j
  BY <1>4, <1>5
<1> QED BY <1>4, <1>6

-----------------------------------------------------------------------------
(***************************************************************************)
(* What the clients hold.                                                  *)
(***************************************************************************)

Entities == {e \in Entity : \E c \in Clients : \E i \in 1 .. Len(held[c]) : held[c][i] = e}

OneTableEach == \A c \in Clients : \A i, j \in 1 .. Len(held[c]) :
                    held[c][i].table = held[c][j].table

\* An entity as it was before a write that outdated the rows gone of t, or a fresh copy.
After(e, d, t, gone) ==
    /\ d.table = e.table /\ d.row = e.row /\ d.edited = e.edited
    /\ e.fresh => d.fresh /\ ~(d.table = t /\ d.row.id \in gone)

LEMMA HeldTypes ==
    ASSUME held \in [Clients -> Seq(Entity)], NEW c \in Clients
    PROVE  /\ held[c] \in Seq(Entity) /\ Len(held[c]) \in Nat
           /\ DOMAIN held[c] = 1 .. Len(held[c])
           /\ \A i \in 1 .. Len(held[c]) : held[c][i] \in Entity /\ held[c][i] \in Entities
<1>1. held[c] \in Seq(Entity)
  OBVIOUS
<1>2. Len(held[c]) \in Nat /\ DOMAIN held[c] = 1 .. Len(held[c])
  BY <1>1
<1>3. \A i \in 1 .. Len(held[c]) : held[c][i] \in Entity
  BY <1>1
<1> QED BY <1>1, <1>2, <1>3 DEF Entities

LEMMA EntityParts ==
    ASSUME NEW e \in Entity
    PROVE  /\ e.table \in Tables /\ e.edited \in SUBSET Editable /\ e.fresh \in BOOLEAN
           /\ e.table = "urls" => e.row \in UrlRow
           /\ e.table # "urls" => e.table = "url_stats" /\ e.row \in ClickRow
           /\ e.row.id \in Nat
<1>1. /\ e.table \in Tables /\ e.edited \in SUBSET Editable /\ e.fresh \in BOOLEAN
      /\ IF e.table = "urls" THEN e.row \in UrlRow ELSE e.row \in ClickRow
  BY DEF Entity
<1>2. \A r \in UrlRow \cup ClickRow : r.id \in Nat
  BY DEF UrlRow, ClickRow
<1> QED BY <1>1, <1>2 DEF Tables

\* Outdating changes nothing but fresh, and that only to FALSE.
LEMMA OutdatedTypes ==
    ASSUME held \in [Clients -> Seq(Entity)], NEW t, NEW gone
    PROVE  /\ Outdated(t, gone) \in [Clients -> Seq(Entity)]
           /\ \A c \in Clients :
                 /\ Len(Outdated(t, gone)[c]) = Len(held[c])
                 /\ \A i \in 1 .. Len(held[c]) :
                       After(Outdated(t, gone)[c][i], held[c][i], t, gone)
<1> SUFFICES ASSUME NEW c \in Clients
             PROVE  /\ Outdated(t, gone)[c] \in Seq(Entity)
                    /\ Len(Outdated(t, gone)[c]) = Len(held[c])
                    /\ \A i \in 1 .. Len(held[c]) :
                          After(Outdated(t, gone)[c][i], held[c][i], t, gone)
  BY DEF Outdated
<1>1. PICK n \in Nat : n = Len(held[c]) /\ DOMAIN held[c] = 1 .. n
  BY HeldTypes
<1> DEFINE new(i) == IF held[c][i].table = t /\ held[c][i].row.id \in gone
                     THEN [held[c][i] EXCEPT !.fresh = FALSE] ELSE held[c][i]
           out == Outdated(t, gone)[c]
<1>2. out = [i \in 1 .. n |-> new(i)]
  BY <1>1 DEF Outdated
<1>3. ASSUME NEW i \in 1 .. n
      PROVE  new(i) \in Entity /\ After(new(i), held[c][i], t, gone)
  <2>1. PICK e \in Entity : e = held[c][i]
    BY <1>1, HeldTypes
  <2>2. CASE e.table = t /\ e.row.id \in gone
    <3>1. [e EXCEPT !.fresh = FALSE] \in Entity
      BY DEF Entity
    <3>2. After([e EXCEPT !.fresh = FALSE], e, t, gone)
      BY DEF After, Entity
    <3> QED BY <2>1, <2>2, <3>1, <3>2
  <2>3. CASE ~(e.table = t /\ e.row.id \in gone)
    BY <2>1, <2>3 DEF After
  <2> QED BY <2>2, <2>3
<1>4. out \in [1 .. n -> Entity]
  <2> HIDE DEF new, out
  <2> QED BY <1>2, <1>3
<1>5. out \in Seq(Entity) /\ Len(out) = n
  <2> HIDE DEF out
  <2> QED BY <1>4
<1>6. \A i \in 1 .. n : out[i] = new(i)
  <2> HIDE DEF new, out
  <2> QED BY <1>2
<1> QED BY <1>1, <1>3, <1>5, <1>6

\* A client that is done holds nothing; the others keep what they have.
LEMMA KeptEntities ==
    ASSUME held \in [Clients -> Seq(Entity)], OneTableEach,
           \/ held' = held
           \/ \E c \in Clients : held' = [held EXCEPT ![c] = << >>]
    PROVE  /\ held' \in [Clients -> Seq(Entity)]
           /\ OneTableEach'
           /\ Entities' \subseteq Entities
<1>1. CASE held' = held
  BY <1>1 DEF OneTableEach, Entities
<1>2. ASSUME NEW c \in Clients, held' = [held EXCEPT ![c] = << >>]
      PROVE  /\ held' \in [Clients -> Seq(Entity)]
             /\ OneTableEach'
             /\ Entities' \subseteq Entities
  <2>1. << >> \in Seq(Entity) /\ Len(<< >>) = 0
    OBVIOUS
  <2>2. held' \in [Clients -> Seq(Entity)]
    BY <1>2, <2>1
  <2>3. held'[c] = << >> /\ \A b \in Clients : b # c => held'[b] = held[b]
    BY <1>2
  <2>4. \A b \in Clients : \A i \in 1 .. Len(held'[b]) : b # c /\ held'[b] = held[b]
    BY <2>1, <2>3
  <2> QED BY <2>2, <2>4 DEF OneTableEach, Entities
<1> QED BY <1>1, <1>2

\* After a write or a delete of the rows gone of table t.
LEMMA WrittenEntities ==
    ASSUME held \in [Clients -> Seq(Entity)], OneTableEach, NEW t, NEW gone,
           \/ held' = Outdated(t, gone)
           \/ \E c \in Clients : held' = [Outdated(t, gone) EXCEPT ![c] = << >>]
    PROVE  /\ held' \in [Clients -> Seq(Entity)]
           /\ OneTableEach'
           /\ \A e \in Entities' : \E d \in Entities : After(e, d, t, gone)
<1>1. PICK out \in [Clients -> Seq(Entity)] : out = Outdated(t, gone)
  BY OutdatedTypes
<1>2. \A c \in Clients :
         /\ Len(out[c]) = Len(held[c])
         /\ \A i \in 1 .. Len(held[c]) : After(out[c][i], held[c][i], t, gone)
  BY <1>1, OutdatedTypes
<1>3. << >> \in Seq(Entity) /\ Len(<< >>) = 0
  OBVIOUS
<1>4. held' \in [Clients -> Seq(Entity)]
  BY <1>1, <1>3
<1>5. \A b \in Clients : \A i \in 1 .. Len(held'[b]) : held'[b] = out[b]
  <2>1. CASE held' = out
    BY <2>1
  <2>2. ASSUME NEW c \in Clients, held' = [out EXCEPT ![c] = << >>]
        PROVE  \A b \in Clients : \A i \in 1 .. Len(held'[b]) : held'[b] = out[b]
    <3>1. held'[c] = << >> /\ \A b \in Clients : b # c => held'[b] = out[b]
      BY <2>2
    <3> QED BY <1>3, <3>1
  <2> QED BY <1>1, <2>1, <2>2
<1>6. \A b \in Clients : \A i \in 1 .. Len(held'[b]) :
         i \in 1 .. Len(held[b]) /\ After(held'[b][i], held[b][i], t, gone)
  <2> SUFFICES ASSUME NEW b \in Clients, NEW i \in 1 .. Len(held'[b])
               PROVE  i \in 1 .. Len(held[b]) /\ After(held'[b][i], held[b][i], t, gone)
    OBVIOUS
  <2>1. held'[b] = out[b]
    BY <1>5
  <2> QED BY <1>2, <2>1
<1>7. OneTableEach'
  BY <1>6 DEF OneTableEach, After
<1>8. \A e \in Entities' : \E d \in Entities : After(e, d, t, gone)
  <2> SUFFICES ASSUME NEW e \in Entities' PROVE \E d \in Entities : After(e, d, t, gone)
    OBVIOUS
  <2>1. PICK b \in Clients : \E i \in 1 .. Len(held'[b]) : held'[b][i] = e
    BY DEF Entities
  <2>A. PICK i \in 1 .. Len(held'[b]) : held'[b][i] = e
    BY <2>1
  <2>2. i \in 1 .. Len(held[b]) /\ After(e, held[b][i], t, gone)
    BY <1>6, <2>A
  <2> QED BY <2>2, HeldTypes
<1> QED BY <1>4, <1>7, <1>8

LEMMA AppendTypes ==
    ASSUME NEW S, NEW s \in Seq(S), NEW x \in S
    PROVE  /\ Append(s, x) \in Seq(S)
           /\ Len(Append(s, x)) = Len(s) + 1
           /\ Append(s, x)[Len(s) + 1] = x
           /\ \A i \in 1 .. Len(s) : Append(s, x)[i] = s[i]
OBVIOUS

\* A client reads one more row of the table it has read before.
LEMMA ReadEntities ==
    ASSUME held \in [Clients -> Seq(Entity)], OneTableEach,
           NEW c \in Clients, NEW e \in Entity,
           held' = [held EXCEPT ![c] = Append(held[c], e)],
           \A i \in DOMAIN held[c] : held[c][i].table = e.table
    PROVE  /\ held' \in [Clients -> Seq(Entity)]
           /\ OneTableEach'
           /\ \A d \in Entities' : d \in Entities \/ d = e
<1>1. PICK old \in Seq(Entity), n \in Nat :
         old = held[c] /\ n = Len(old) /\ DOMAIN old = 1 .. n
  BY HeldTypes
<1>3. held' = [held EXCEPT ![c] = Append(old, e)] /\ \A i \in 1 .. n : old[i].table = e.table
  BY <1>1
<1>4. PICK new \in Seq(Entity) : new = Append(old, e)
  BY AppendTypes
<1>5. Len(new) = n + 1 /\ new[n + 1] = e /\ \A i \in 1 .. n : new[i] = old[i]
  BY <1>1, <1>4, AppendTypes
<1>6. held'[c] = new /\ \A b \in Clients : b # c => held'[b] = held[b]
  BY <1>3, <1>4
<1>7. held' \in [Clients -> Seq(Entity)]
  BY <1>3, <1>4
<1>8. \A i \in 1 .. Len(new) : i \in 1 .. n \/ i = n + 1
  BY <1>5
<1>9. \A i \in 1 .. Len(new) : new[i].table = e.table
  BY <1>3, <1>5, <1>8
<1>10. OneTableEach'
  <2> SUFFICES ASSUME NEW b \in Clients
               PROVE  \A i, j \in 1 .. Len(held'[b]) : held'[b][i].table = held'[b][j].table
    BY DEF OneTableEach
  <2>1. CASE b = c
    BY <1>6, <1>9, <2>1
  <2>2. CASE b # c
    BY <1>6, <2>2 DEF OneTableEach
  <2> QED BY <2>1, <2>2
<1>11. ASSUME NEW d \in Entities', d # e
       PROVE  d \in Entities
  <2>1. PICK b \in Clients : \E i \in 1 .. Len(held'[b]) : held'[b][i] = d
    BY DEF Entities
  <2>A. PICK i \in 1 .. Len(held'[b]) : held'[b][i] = d
    BY <2>1
  <2>2. CASE b = c
    <3>1. i \in 1 .. n /\ held[c][i] = d
      BY <1>1, <1>5, <1>6, <1>8, <1>11, <2>A, <2>2
    <3> QED BY <1>1, <3>1, HeldTypes
  <2>3. CASE b # c
    <3>1. i \in 1 .. Len(held[b]) /\ held[b][i] = d
      BY <1>6, <2>A, <2>3
    <3> QED BY <3>1, HeldTypes
  <2> QED BY <2>2, <2>3
<1> QED BY <1>7, <1>10, <1>11

-----------------------------------------------------------------------------
(***************************************************************************)
(* Type correctness, and that a client's entities are of one table.        *)
(***************************************************************************)

TablesFinite == \A t \in Tables : IsFiniteSet(db[t])

TypeInv == TypeOK /\ OneTableEach /\ TablesFinite

Values == Targets \cup {None, 1}

Rows(t) == IF t = "urls" THEN UrlRow ELSE ClickRow

DbOK == /\ db \in [Tables -> SUBSET (UrlRow \cup ClickRow)]
        /\ db["urls"] \subseteq UrlRow /\ db["url_stats"] \subseteq ClickRow

\* Everything but the entities, whose type the lemmas above preserve.
RestOK == /\ scenario \in Scenarios
          /\ DOMAIN listing = DOMAIN Closed
          /\ listing.page \in Nat /\ listing.table \in Tables
          /\ listing.complete \in BOOLEAN
          /\ bornAs \in Seq(Nat)
          /\ clicksMade \in Nat
          /\ wanted \in Seq([Editable -> Values])
          /\ overwritten \subseteq Nat

LEMMA TypeParts == TypeOK <=> DbOK /\ RestOK /\ held \in [Clients -> Seq(Entity)]
BY DEF TypeOK, DbOK, RestOK, Values

LEMMA DbExcept ==
    ASSUME DbOK, NEW t \in Tables, NEW S \in SUBSET Rows(t), db' = [db EXCEPT ![t] = S]
    PROVE  DbOK' /\ db'[t] = S /\ \A u \in Tables : u # t => db'[u] = db[u]
<1>1. "urls" \in Tables /\ "url_stats" \in Tables /\ \A u \in Tables : u = "urls" \/ u = "url_stats"
  BY DEF Tables
<1>2. S \subseteq UrlRow \cup ClickRow
  BY DEF Rows
<1>3. db' \in [Tables -> SUBSET (UrlRow \cup ClickRow)]
  BY <1>2 DEF DbOK
<1>4. db'[t] = S /\ \A u \in Tables : u # t => db'[u] = db[u]
  BY DEF DbOK
<1>5. db'["urls"] \subseteq UrlRow /\ db'["url_stats"] \subseteq ClickRow
  BY <1>1, <1>4 DEF DbOK, Rows
<1> QED BY <1>3, <1>4, <1>5 DEF DbOK

LEMMA RowTypes == DbOK => \A t \in Tables : db[t] \subseteq Rows(t) /\ \A r \in db[t] : r.id \in Nat
BY DEF DbOK, Tables, Rows, UrlRow, ClickRow

\* What a batch asks a link to be has values for the columns.
LEMMA AskedTypes ==
    ASSUME TypeInv, NEW c \in Clients, Len(held[c]) >= 1, held[c][1].table = "urls",
           NEW id \in DOMAIN wanted
    PROVE  Asked(id, held[c]) \in [Editable -> Values]
<1>1. PICK es \in Seq(Entity), n \in Nat : es = held[c] /\ n = Len(es) /\ DOMAIN es = 1 .. n
  BY HeldTypes DEF TypeInv, TypeOK
<1>2. \A i \in 1 .. n : es[i] \in Entity /\ es[i].table = "urls"
  <2>1. 1 \in 1 .. n
    BY <1>1
  <2> QED BY <1>1, <2>1 DEF TypeInv, OneTableEach
<1>3. \A i \in 1 .. n : es[i].row \in UrlRow
  BY <1>2, EntityParts
<1>4. \A r \in UrlRow, col \in Editable : r[col] \in Values
  BY DEF UrlRow, Editable, Values
<1>5. wanted[id] \in [Editable -> Values]
  BY DEF TypeInv, TypeOK, Values
<1> DEFINE setting(col) == {i \in DOMAIN es : col \in es[i].edited /\ es[i].row.id = id}
           last(col) == CHOOSE i \in setting(col) : \A j \in setting(col) : j <= i
           what(col) == IF setting(col) = {} THEN wanted[id][col] ELSE es[last(col)].row[col]
<1>6. Asked(id, es) = [col \in Editable |-> what(col)]
  BY DEF Asked
<1>7. ASSUME NEW col \in Editable
      PROVE  what(col) \in Values
  <2>1. PICK positions \in SUBSET (1 .. n) : positions = setting(col)
    BY <1>1
  <2>2. CASE positions = {}
    BY <1>5, <2>1, <2>2
  <2>3. CASE positions # {}
    <3>1. PICK i \in positions : \A j \in positions : j <= i
      BY <2>3, LastOf
    <3>2. last(col) \in 1 .. n
      BY <2>1, <3>1
    <3>3. es[last(col)].row[col] \in Values
      <4> HIDE DEF last
      <4> QED BY <1>3, <1>4, <3>2
    <3> QED BY <2>1, <2>3, <3>3
  <2> QED BY <2>2, <2>3
<1> HIDE DEF what
<1> QED BY <1>1, <1>6, <1>7

LEMMA TypeInit == Init => TypeInv
<1> SUFFICES ASSUME Init PROVE TypeInv
  OBVIOUS
<1>1. DbOK /\ TablesFinite
  BY FS_EmptySet DEF Init, DbOK, TablesFinite, Tables
<1>2. RestOK
  <2>1. << >> \in Seq(Nat) /\ << >> \in Seq([Editable -> Values])
    OBVIOUS
  <2> QED BY <2>1 DEF Init, RestOK, Closed, Tables
<1>3. held \in [Clients -> Seq(Entity)] /\ OneTableEach
  <2>1. << >> \in Seq(Entity) /\ Len(<< >>) = 0
    OBVIOUS
  <2> QED BY <2>1 DEF Init, OneTableEach
<1> QED BY <1>1, <1>2, <1>3, TypeParts DEF TypeInv

\* The bookkeeping of a write.
LEMMA WroteTypes ==
    ASSUME TypeInv, NEW c \in Clients, Len(held[c]) >= 1,
           NEW t \in Tables, t = held[c][1].table, NEW row \in Rows(t), Wrote(c, t, row)
    PROVE  /\ held' \in [Clients -> Seq(Entity)] /\ OneTableEach'
           /\ wanted' \in Seq([Editable -> Values]) /\ overwritten' \subseteq Nat
           /\ \A e \in Entities' : \E d \in Entities : After(e, d, t, {row.id})
<1>1. /\ held' \in [Clients -> Seq(Entity)] /\ OneTableEach'
      /\ \A e \in Entities' : \E d \in Entities : After(e, d, t, {row.id})
  <2>1. held' = [Outdated(t, {row.id}) EXCEPT ![c] = << >>]
    BY DEF Wrote
  <2>2. held \in [Clients -> Seq(Entity)] /\ OneTableEach
    BY DEF TypeInv, TypeOK
  <2> QED BY <2>1, <2>2, WrittenEntities
<1>2. wanted \in Seq([Editable -> Values]) /\ overwritten \subseteq Nat
  BY TypeParts DEF TypeInv, RestOK
<1>3. CASE t # "urls"
  BY <1>1, <1>2, <1>3 DEF Wrote
<1>4. CASE t = "urls"
  <2>1. wanted' \in Seq([Editable -> Values])
    <3>1. wanted' = [wanted EXCEPT ![row.id] = Asked(row.id, held[c])]
      BY <1>4 DEF Wrote
    <3>2. CASE row.id \in DOMAIN wanted
      <4>1. Asked(row.id, held[c]) \in [Editable -> Values]
        BY <1>4, <3>2, AskedTypes
      <4> QED BY <1>2, <3>1, <3>2, <4>1
    <3>3. CASE row.id \notin DOMAIN wanted
      <4>1. wanted' = wanted
        BY <1>2, <3>1, <3>3
      <4> QED BY <1>2, <4>1
    <3> QED BY <3>2, <3>3
  <2>2. overwritten' \subseteq Nat
    <3>1. row.id \in Nat
      BY <1>4 DEF Rows, UrlRow
    <3>2. overwritten' \subseteq overwritten \cup {row.id}
      BY <1>4 DEF Wrote
    <3> QED BY <1>2, <3>1, <3>2
  <2> QED BY <1>1, <2>1, <2>2
<1> QED BY <1>3, <1>4

\* The entity that a write takes its row from.
LEMMA WrittenRow ==
    ASSUME TypeInv, NEW c \in Clients, NEW n \in 1 .. Len(held[c])
    PROVE  /\ held[c][n] \in Entity /\ held[c][n] \in Entities
           /\ held[c][1] \in Entity /\ held[c][n].table = held[c][1].table
           /\ held[c][n].table \in Tables /\ held[c][n].row \in Rows(held[c][n].table)
           /\ Len(held[c]) \in Nat /\ 1 \in 1 .. Len(held[c])
<1>1. held \in [Clients -> Seq(Entity)]
  BY DEF TypeInv, TypeOK
<1>2. Len(held[c]) \in Nat /\ 1 \in 1 .. Len(held[c])
  BY <1>1, HeldTypes
<1>3. /\ held[c][n] \in Entity /\ held[c][n] \in Entities /\ held[c][1] \in Entity
  BY <1>1, <1>2, HeldTypes
<1>4. held[c][n].table = held[c][1].table
  BY <1>2 DEF TypeInv, OneTableEach
<1>5. held[c][n].table \in Tables /\ held[c][n].row \in Rows(held[c][n].table)
  BY <1>3, EntityParts DEF Rows
<1> QED BY <1>2, <1>3, <1>4, <1>5

LEMMA ListingTypes ==
    ASSUME RestOK
    PROVE  \A t \in Tables : /\ DOMAIN ListingWithout(t) = DOMAIN Closed
                             /\ ListingWithout(t).page \in Nat
                             /\ ListingWithout(t).table \in Tables
                             /\ ListingWithout(t).complete \in BOOLEAN
BY DEF RestOK, ListingWithout, Closed

LEMMA CreateTypes ==
    ASSUME TypeInv, NEW code \in scenario.codes, NEW target \in Targets, Create(code, target)
    PROVE  TypeInv'
<1>1. DbOK /\ RestOK /\ held \in [Clients -> Seq(Entity)] /\ OneTableEach
  BY TypeParts DEF TypeInv
<1>2. code \in Nat /\ Len(bornAs) \in Nat
  BY <1>1, ScenariosAssumption DEF RestOK
<1> DEFINE row == [id |-> Len(bornAs) + 1, target_url |-> target, short_code |-> code,
                   deleted_at |-> None]
<1>3. row \in UrlRow
  BY <1>2 DEF UrlRow
<1>4. DbOK' /\ TablesFinite'
  <2>1. db' = [db EXCEPT !["urls"] = db["urls"] \cup {row}]
    BY DEF Create
  <2>2. db["urls"] \cup {row} \in SUBSET Rows("urls") /\ "urls" \in Tables
    BY <1>1, <1>3 DEF DbOK, Rows, Tables
  <2> HIDE DEF row
  <2>3. /\ DbOK' /\ db'["urls"] = db["urls"] \cup {row}
        /\ \A u \in Tables : u # "urls" => db'[u] = db[u]
    BY <1>1, <2>1, <2>2, DbExcept
  <2>4. TablesFinite'
    <3>1. \A u \in Tables : IsFiniteSet(db[u])
      BY DEF TypeInv, TablesFinite
    <3>2. IsFiniteSet(db'["urls"])
      BY <2>2, <2>3, <3>1, FS_AddElement
    <3> QED BY <2>3, <3>1, <3>2 DEF TablesFinite
  <2> QED BY <2>3, <2>4
<1>5. RestOK'
  <2>1. bornAs' = Append(bornAs, code) /\ bornAs' \in Seq(Nat)
    BY <1>1, <1>2, AppendTypes DEF Create, RestOK
  <2> DEFINE w == [target_url |-> target, deleted_at |-> None]
  <2>2. w \in [Editable -> Values]
    BY DEF Editable, Values
  <2>3. wanted' = Append(wanted, w)
    BY DEF Create
  <2>4. wanted' \in Seq([Editable -> Values])
    <3> HIDE DEF w
    <3>1. wanted \in Seq([Editable -> Values])
      BY <1>1 DEF RestOK
    <3> QED BY <2>2, <2>3, <3>1, AppendTypes
  <2> HIDE DEF w
  <2> QED BY <1>1, <2>1, <2>4 DEF Create, RestOK
<1>6. held' \in [Clients -> Seq(Entity)] /\ OneTableEach'
  BY <1>1 DEF Create, OneTableEach
<1> QED
  <2>1. TypeOK'
    BY <1>4, <1>5, <1>6 DEF TypeOK, DbOK, RestOK, Values
  <2> QED BY <1>4, <1>6, <2>1 DEF TypeInv

LEMMA MatchingRows == \A table, filter : Matching(table, filter) \subseteq table
BY DEF Matching

\* What a client reads is a row of a table, but for the columns it is about to set.
LEMMA ReadTypes ==
    ASSUME TypeInv, NEW c \in Clients,
           \/ \E target \in Targets : ReadToRetarget(c, target)
           \/ \E code \in scenario.codes, now \in {None, 1} : ReadToMark(c, code, now)
           \/ ReadClick(c)
    PROVE  /\ TypeInv'
           /\ UNCHANGED <<scenario, db, listing, historyVars>>
           /\ \E e \in Entity : \E row \in db[e.table] :
                 /\ \A d \in Entities' : d \in Entities \/ d = e
                 /\ e.row.id = row.id
                 /\ e.table = "urls" => /\ e.row.short_code = row.short_code
                                        /\ \A col \in Editable \ e.edited : e.row[col] = row[col]
                 /\ e.table # "urls" => e.row = row
<1>1. DbOK /\ RestOK /\ held \in [Clients -> Seq(Entity)] /\ OneTableEach
  BY TypeParts DEF TypeInv
<1>2. SUFFICES ASSUME NEW e \in Entity, NEW row \in db[e.table],
                      Hold(c, e.table, e.row, e.edited), e.fresh,
                      e.row.id = row.id,
                      e.table = "urls" => /\ e.row.short_code = row.short_code
                                          /\ \A col \in Editable \ e.edited : e.row[col] = row[col],
                      e.table # "urls" => e.row = row
               PROVE  /\ TypeInv'
                      /\ UNCHANGED <<scenario, db, listing, historyVars>>
                      /\ \A d \in Entities' : d \in Entities \/ d = e
  <2>1. ASSUME NEW target \in Targets, ReadToRetarget(c, target)
        PROVE  \E e \in Entity : \E row \in db[e.table] :
                  /\ Hold(c, e.table, e.row, e.edited) /\ e.fresh
                  /\ e.row.id = row.id
                  /\ e.table = "urls" => /\ e.row.short_code = row.short_code
                                         /\ \A col \in Editable \ e.edited : e.row[col] = row[col]
                  /\ e.table # "urls" => e.row = row
    <3>1. PICK row \in db["urls"] :
              Hold(c, "urls", [row EXCEPT !.target_url = target], {"target_url"})
      BY <2>1 DEF ReadToRetarget
    <3>2. row \in UrlRow
      BY <1>1 DEF DbOK
    <3> DEFINE new == [row EXCEPT !.target_url = target]
    <3>3. /\ new \in UrlRow /\ new.id = row.id /\ new.short_code = row.short_code
          /\ \A col \in Editable \ {"target_url"} : new[col] = row[col]
      BY <3>2 DEF UrlRow, Editable
    <3> HIDE DEF new
    <3> DEFINE e == [table |-> "urls", row |-> new, edited |-> {"target_url"}, fresh |-> TRUE]
    <3>4. e \in Entity
      BY <3>3 DEF Entity, Tables, Editable
    <3>5. e.table = "urls" /\ e.row = new /\ e.edited = {"target_url"} /\ e.fresh
      OBVIOUS
    <3>6. Hold(c, e.table, e.row, e.edited)
      BY <3>1, <3>5 DEF new
    <3> HIDE DEF e
    <3> QED BY <3>3, <3>4, <3>5, <3>6
  <2>2. ASSUME NEW code \in scenario.codes, NEW now \in {None, 1}, ReadToMark(c, code, now)
        PROVE  \E e \in Entity : \E row \in db[e.table] :
                  /\ Hold(c, e.table, e.row, e.edited) /\ e.fresh
                  /\ e.row.id = row.id
                  /\ e.table = "urls" => /\ e.row.short_code = row.short_code
                                         /\ \A col \in Editable \ e.edited : e.row[col] = row[col]
                  /\ e.table # "urls" => e.row = row
    <3>1. PICK row \in db["urls"] :
              Hold(c, "urls", [row EXCEPT !.deleted_at = now], {"deleted_at"})
      BY <2>2, MatchingRows, Zenon DEF ReadToMark
    <3>2. row \in UrlRow
      BY <1>1 DEF DbOK
    <3> DEFINE new == [row EXCEPT !.deleted_at = now]
    <3>3. /\ new \in UrlRow /\ new.id = row.id /\ new.short_code = row.short_code
          /\ \A col \in Editable \ {"deleted_at"} : new[col] = row[col]
      BY <3>2 DEF UrlRow, Editable
    <3> HIDE DEF new
    <3> DEFINE e == [table |-> "urls", row |-> new, edited |-> {"deleted_at"}, fresh |-> TRUE]
    <3>4. e \in Entity
      BY <3>3 DEF Entity, Tables, Editable
    <3>5. e.table = "urls" /\ e.row = new /\ e.edited = {"deleted_at"} /\ e.fresh
      OBVIOUS
    <3>6. Hold(c, e.table, e.row, e.edited)
      BY <3>1, <3>5 DEF new
    <3> HIDE DEF e
    <3> QED BY <3>3, <3>4, <3>5, <3>6
  <2>3. ASSUME ReadClick(c)
        PROVE  \E e \in Entity : \E row \in db[e.table] :
                  /\ Hold(c, e.table, e.row, e.edited) /\ e.fresh
                  /\ e.row.id = row.id
                  /\ e.table = "urls" => /\ e.row.short_code = row.short_code
                                         /\ \A col \in Editable \ e.edited : e.row[col] = row[col]
                  /\ e.table # "urls" => e.row = row
    <3>1. PICK row \in db["url_stats"] : Hold(c, "url_stats", row, {})
      BY <2>3 DEF ReadClick
    <3>2. row \in ClickRow
      BY <1>1 DEF DbOK
    <3> DEFINE e == [table |-> "url_stats", row |-> row, edited |-> {}, fresh |-> TRUE]
    <3>4. e \in Entity
      BY <3>2 DEF Entity, Tables, Editable
    <3>5. e.table = "url_stats" /\ e.row = row /\ e.edited = {} /\ e.fresh
      OBVIOUS
    <3> HIDE DEF e
    <3> QED BY <3>1, <3>4, <3>5
  <2> QED BY <2>1, <2>2, <2>3
<1>3. e = [table |-> e.table, row |-> e.row, edited |-> e.edited, fresh |-> TRUE]
  BY <1>2 DEF Entity
<1>4. /\ held' \in [Clients -> Seq(Entity)] /\ OneTableEach'
      /\ \A d \in Entities' : d \in Entities \/ d = e
  <2>1. /\ held' = [held EXCEPT ![c] = Append(held[c], e)]
        /\ \A i \in DOMAIN held[c] : held[c][i].table = e.table
    BY <1>2, <1>3 DEF Hold
  <2> QED BY <1>1, <2>1, ReadEntities
<1>5. UNCHANGED <<scenario, db, listing, historyVars>>
  BY <1>2 DEF Hold
<1>6. DbOK' /\ RestOK'
  BY <1>1, <1>5 DEF DbOK, RestOK, historyVars
<1>7. TypeOK'
  BY <1>4, <1>6 DEF TypeOK, DbOK, RestOK, Values
<1>8. TablesFinite'
  BY <1>5 DEF TypeInv, TablesFinite
<1> QED BY <1>4, <1>5, <1>7, <1>8 DEF TypeInv

LEMMA OneElement ==
    ASSUME NEW S, IsFiniteSet(S), Cardinality(S) = 1
    PROVE  \E r \in S : S = {r}
BY FS_Singleton

\* What update and update_many do with entity e: its row takes the place of some rows of
\* its table, of which rest stay, and what was asked of other links stays.
Written(e, rest) ==
    /\ listing' = ListingWithout(e.table)
    /\ db'[e.table] = rest \cup {e.row}
    /\ \A u \in Tables : u # e.table => db'[u] = db[u]
    /\ \/ /\ e.row.id \in Ids(db[e.table])
          /\ rest = {r \in db[e.table] : r.id # e.row.id}
       \/ /\ Consistent(db')
          /\ \E r \in db[e.table] : rest = db[e.table] \ {r}
    /\ \A d \in Entities' : \E b \in Entities : After(d, b, e.table, {e.row.id})
    /\ e.table # "urls" => UNCHANGED <<wanted, overwritten>>
    /\ e.table = "urls" =>
          /\ overwritten \subseteq overwritten' /\ DOMAIN wanted' = DOMAIN wanted
          /\ \A id \in DOMAIN wanted : id # e.row.id => wanted'[id] = wanted[id]
          /\ e.row.id \notin overwritten' =>
                /\ e.fresh
                /\ e.row.id \in Ids(db[e.table])
                /\ rest = {r \in db[e.table] : r.id # e.row.id}
                /\ e.row.id \in DOMAIN wanted =>
                      \A col \in Editable :
                         wanted'[e.row.id][col] = IF col \in e.edited THEN e.row[col]
                                                  ELSE wanted[e.row.id][col]

LEMMA UpdateTypes ==
    ASSUME TypeInv, NEW c \in Clients, Update(c) \/ UpdateMany(c)
    PROVE  /\ TypeInv'
           /\ UNCHANGED <<scenario, bornAs, clicksMade>>
           /\ \E e \in Entities : \E rest \in SUBSET db[e.table] : Written(e, rest)
<1>1. /\ DbOK /\ RestOK /\ held \in [Clients -> Seq(Entity)] /\ OneTableEach
      /\ Len(held[c]) \in Nat /\ wanted \in Seq([Editable -> Values])
  BY TypeParts, HeldTypes DEF TypeInv, RestOK
<1>2. ASSUME NEW n \in 1 .. Len(held[c]), NEW e, e = held[c][n], NEW rest \in SUBSET db[e.table],
             db' = [db EXCEPT ![e.table] = rest \cup {e.row}],
             Wrote(c, e.table, e.row), listing' = ListingWithout(e.table)
      PROVE  /\ TypeInv'
             /\ db'[e.table] = rest \cup {e.row}
             /\ \A u \in Tables : u # e.table => db'[u] = db[u]
             /\ \A d \in Entities' : \E b \in Entities : After(d, b, e.table, {e.row.id})
             /\ e.table # "urls" => UNCHANGED <<wanted, overwritten>>
             /\ e.table = "urls" =>
                   /\ overwritten \subseteq overwritten'
                   /\ e.row.id \notin overwritten' => Len(held[c]) = 1 /\ held[c][1].fresh
                   /\ wanted' = [wanted EXCEPT ![e.row.id] = Asked(e.row.id, held[c])]
             /\ UNCHANGED <<scenario, bornAs, clicksMade>>
  <2>1. DbOK /\ RestOK
    BY TypeParts DEF TypeInv
  <2>2. /\ e.table \in Tables /\ e.row \in Rows(e.table)
        /\ e.table = held[c][1].table /\ Len(held[c]) >= 1
    BY <1>2, WrittenRow
  <2>3. rest \cup {e.row} \in SUBSET Rows(e.table)
    BY <2>1, <2>2, RowTypes
  <2>4. DbOK' /\ db'[e.table] = rest \cup {e.row} /\ \A u \in Tables : u # e.table => db'[u] = db[u]
    <3>1. PICK t \in Tables : t = e.table
      BY <2>2
    <3>2. PICK S \in SUBSET Rows(t) : S = rest \cup {e.row}
      BY <2>3, <3>1
    <3>3. db' = [db EXCEPT ![t] = S]
      BY <1>2, <3>1, <3>2
    <3>4. DbOK' /\ db'[t] = S /\ \A u \in Tables : u # t => db'[u] = db[u]
      BY <2>1, <3>3, DbExcept
    <3> QED BY <3>1, <3>2, <3>4
  <2>5. /\ held' \in [Clients -> Seq(Entity)] /\ OneTableEach'
        /\ wanted' \in Seq([Editable -> Values]) /\ overwritten' \subseteq Nat
    BY <1>2, <2>2, WroteTypes
  <2>6. /\ DOMAIN listing' = DOMAIN Closed
        /\ listing'.page \in Nat /\ listing'.table \in Tables /\ listing'.complete \in BOOLEAN
    BY <1>2, <2>1, <2>2, ListingTypes
  <2>7. scenario' = scenario /\ bornAs' = bornAs /\ clicksMade' = clicksMade
    BY <1>2 DEF Wrote
  <2>8. TypeOK'
    BY <2>1, <2>4, <2>5, <2>6, <2>7 DEF TypeOK, DbOK, RestOK, Values
  <2>9. TablesFinite'
    <3>1. \A u \in Tables : IsFiniteSet(db[u])
      BY DEF TypeInv, TablesFinite
    <3>2. IsFiniteSet(rest)
      BY <2>2, <3>1, FS_Subset
    <3>3. IsFiniteSet(rest \cup {e.row})
      BY <3>2, FS_AddElement
    <3> QED BY <2>4, <3>1, <3>3 DEF TablesFinite
  <2>10. TypeInv'
    BY <2>5, <2>8, <2>9 DEF TypeInv
  <2>11. \A d \in Entities' : \E b \in Entities : After(d, b, e.table, {e.row.id})
    BY <1>2, <2>2, WroteTypes
  <2>12. /\ e.table # "urls" => UNCHANGED <<wanted, overwritten>>
         /\ e.table = "urls" =>
               /\ overwritten \subseteq overwritten'
               /\ e.row.id \notin overwritten' => Len(held[c]) = 1 /\ held[c][1].fresh
               /\ wanted' = [wanted EXCEPT ![e.row.id] = Asked(e.row.id, held[c])]
    BY <1>2 DEF Wrote
  <2> QED BY <2>4, <2>7, <2>10, <2>11, <2>12
<1>3. CASE Update(c)
  <2>1. PICK e : e = held[c][1]
    OBVIOUS
  <2>2. Len(held[c]) = 1 /\ 1 \in 1 .. Len(held[c])
    BY <1>3 DEF Update
  <2>3. e \in Entities /\ e \in Entity
    BY <1>1, <2>1, <2>2, HeldTypes
  <2> DEFINE rest == {r \in db[e.table] : r.id # e.row.id}
  <2>4. /\ e.row.id \in Ids(db[e.table])
        /\ db' = [db EXCEPT ![e.table] = rest \cup {e.row}]
        /\ Wrote(c, e.table, e.row) /\ listing' = ListingWithout(e.table)
    BY <1>3, <2>1 DEF Update
  <2>5. rest \in SUBSET db[e.table]
    OBVIOUS
  <2> HIDE DEF rest
  <2>7. /\ TypeInv'
        /\ db'[e.table] = rest \cup {e.row}
        /\ \A v \in Tables : v # e.table => db'[v] = db[v]
        /\ \A d \in Entities' : \E b \in Entities : After(d, b, e.table, {e.row.id})
        /\ e.table # "urls" => UNCHANGED <<wanted, overwritten>>
        /\ e.table = "urls" =>
              /\ overwritten \subseteq overwritten'
              /\ e.row.id \notin overwritten' => Len(held[c]) = 1 /\ held[c][1].fresh
              /\ wanted' = [wanted EXCEPT ![e.row.id] = Asked(e.row.id, held[c])]
        /\ UNCHANGED <<scenario, bornAs, clicksMade>>
    BY <1>2, <2>1, <2>2, <2>4, <2>5
  <2>8. ASSUME e.table = "urls", e.row.id \in DOMAIN wanted, NEW col \in Editable
        PROVE  wanted'[e.row.id][col] = IF col \in e.edited THEN e.row[col]
                                        ELSE wanted[e.row.id][col]
    <3>1. wanted'[e.row.id] = Asked(e.row.id, held[c])
      BY <1>1, <2>7, <2>8
    <3> DEFINE setting == {i \in DOMAIN held[c] :
                              col \in held[c][i].edited /\ held[c][i].row.id = e.row.id}
               last == CHOOSE i \in setting : \A j \in setting : j <= i
    <3>2. Asked(e.row.id, held[c])[col] =
              IF setting = {} THEN wanted[e.row.id][col] ELSE held[c][last].row[col]
      BY DEF Asked
    <3>3. DOMAIN held[c] = {1}
      <4>1. DOMAIN held[c] = 1 .. Len(held[c])
        BY <1>1, HeldTypes
      <4> QED BY <2>2, <4>1
    <3>4. CASE col \in e.edited
      <4>1. setting = {1}
        BY <2>1, <3>3, <3>4
      <4>2. last = 1
        <5> HIDE DEF setting
        <5> QED BY <4>1
      <4> QED BY <2>1, <3>1, <3>2, <3>4, <4>1, <4>2
    <3>5. CASE col \notin e.edited
      <4>1. setting = {}
        BY <2>1, <3>3, <3>5
      <4> QED BY <3>1, <3>2, <3>5, <4>1
    <3> QED BY <3>4, <3>5
  <2>9. e.table = "urls" =>
           /\ DOMAIN wanted' = DOMAIN wanted
           /\ \A id \in DOMAIN wanted : id # e.row.id => wanted'[id] = wanted[id]
    BY <1>1, <2>7
  <2>10. rest = {r \in db[e.table] : r.id # e.row.id}
    BY DEF rest
  <2>11. Written(e, rest)
    <3>1. e.table = "urls" /\ e.row.id \notin overwritten' => e.fresh
      BY <2>1, <2>7
    <3> QED BY <2>4, <2>7, <2>8, <2>9, <2>10, <3>1 DEF Written
  <2> QED BY <2>3, <2>5, <2>7, <2>11
<1>4. CASE UpdateMany(c)
  <2>1. PICK n \in 1 .. Len(held[c]) : n = Len(held[c]) /\ n > 1
    BY <1>1, <1>4 DEF UpdateMany
  <2>2. PICK e : e = held[c][n]
    OBVIOUS
  <2>3. e \in Entities /\ e \in Entity /\ e.table = held[c][1].table
    BY <2>1, <2>2, WrittenRow
  <2>4. /\ Cardinality(Found(c)) = 1
        /\ db' = [db EXCEPT ![e.table] = (db[e.table] \ Found(c)) \cup {e.row}]
        /\ Consistent(db')
        /\ Wrote(c, e.table, e.row) /\ listing' = ListingWithout(e.table)
    BY <1>4, <2>1, <2>2 DEF UpdateMany
  <2>5. PICK r \in db[e.table] : Found(c) = {r}
    <3>1. Found(c) \subseteq db[e.table] /\ e.table \in Tables
      BY <2>3, EntityParts DEF Found
    <3>2. IsFiniteSet(Found(c))
      BY <3>1, FS_Subset DEF TypeInv, TablesFinite
    <3> QED BY <2>4, <3>1, <3>2, OneElement
  <2>6. PICK rest \in SUBSET db[e.table] : rest = db[e.table] \ {r}
    OBVIOUS
  <2>7. db' = [db EXCEPT ![e.table] = rest \cup {e.row}]
    BY <2>4, <2>5, <2>6
  <2>9. /\ TypeInv'
        /\ db'[e.table] = rest \cup {e.row}
        /\ \A v \in Tables : v # e.table => db'[v] = db[v]
        /\ \A d \in Entities' : \E b \in Entities : After(d, b, e.table, {e.row.id})
        /\ e.table # "urls" => UNCHANGED <<wanted, overwritten>>
        /\ e.table = "urls" =>
              /\ overwritten \subseteq overwritten'
              /\ e.row.id \notin overwritten' => Len(held[c]) = 1 /\ held[c][1].fresh
              /\ wanted' = [wanted EXCEPT ![e.row.id] = Asked(e.row.id, held[c])]
        /\ UNCHANGED <<scenario, bornAs, clicksMade>>
    <3>1. Wrote(c, e.table, e.row) /\ listing' = ListingWithout(e.table)
      BY <2>4
    <3> QED BY <1>2, <2>2, <2>7, <3>1
  <2>10. e.table = "urls" =>
            /\ e.row.id \in overwritten' /\ DOMAIN wanted' = DOMAIN wanted
            /\ \A id \in DOMAIN wanted : id # e.row.id => wanted'[id] = wanted[id]
    <3>1. ~(Len(held[c]) = 1)
      BY <1>1, <2>1, SMT
    <3>2. e.table = "urls" => (e.row.id \notin overwritten' => Len(held[c]) = 1)
      BY <2>9
    <3>3. e.table = "urls" => e.row.id \in overwritten'
      BY <3>1, <3>2, Zenon
    <3> QED BY <1>1, <2>9, <3>3
  <2>11. Written(e, rest)
    BY <2>4, <2>6, <2>9, <2>10 DEF Written
  <2> QED BY <2>3, <2>9, <2>11
<1> QED BY <1>3, <1>4

LEMMA CreateClickTypes ==
    ASSUME TypeInv, NEW id, NEW time \in Times, CreateClick(id, time)
    PROVE  /\ TypeInv'
           /\ UNCHANGED <<scenario, held, listing, bornAs, wanted, overwritten>>
           /\ clicksMade' = clicksMade + 1
           /\ id \in Ids(db["urls"])
           /\ db'["urls"] = db["urls"]
           /\ db'["url_stats"] = db["url_stats"] \cup
                 {[id |-> clicksMade + 1, url_id |-> id, access_time |-> time]}
<1>1. DbOK /\ RestOK /\ held \in [Clients -> Seq(Entity)] /\ OneTableEach
  BY TypeParts DEF TypeInv
<1> DEFINE row == [id |-> clicksMade + 1, url_id |-> id, access_time |-> time]
<1>2. row \in ClickRow
  BY <1>1 DEF CreateClick, Ids, DbOK, UrlRow, ClickRow, RestOK
<1>3. db' = [db EXCEPT !["url_stats"] = db["url_stats"] \cup {row}]
  BY DEF CreateClick
<1>4. /\ id \in Ids(db["urls"]) /\ clicksMade' = clicksMade + 1
      /\ UNCHANGED <<scenario, held, listing, bornAs, wanted, overwritten>>
  BY DEF CreateClick
<1> HIDE DEF row
<1>5. db["url_stats"] \cup {row} \in SUBSET Rows("url_stats") /\ "url_stats" \in Tables
  BY <1>1, <1>2 DEF DbOK, Rows, Tables
<1>6. /\ DbOK' /\ db'["url_stats"] = db["url_stats"] \cup {row}
      /\ \A u \in Tables : u # "url_stats" => db'[u] = db[u]
  BY <1>1, <1>3, <1>5, DbExcept
<1>7. TablesFinite'
  <2>1. \A u \in Tables : IsFiniteSet(db[u])
    BY DEF TypeInv, TablesFinite
  <2>2. IsFiniteSet(db'["url_stats"])
    BY <1>5, <1>6, <2>1, FS_AddElement
  <2> QED BY <1>6, <2>1, <2>2 DEF TablesFinite
<1>8. RestOK'
  BY <1>1, <1>4 DEF RestOK
<1>9. TypeOK'
  BY <1>1, <1>4, <1>6, <1>8 DEF TypeOK, DbOK, RestOK, Values
<1>10. TypeInv'
  BY <1>1, <1>4, <1>7, <1>9 DEF TypeInv, OneTableEach
<1>11. db'["urls"] = db["urls"]
  BY <1>6 DEF Tables
<1> QED BY <1>4, <1>6, <1>10, <1>11 DEF row

\* What a delete leaves: rows that were there, no click without its link, and the
\* entities as they were but for fresh.
LEMMA DeleteTypes ==
    ASSUME TypeInv,
           (\E code \in scenario.codes : Delete(code)) \/ (\E c \in Clients : DeleteClick(c))
    PROVE  /\ TypeInv'
           /\ UNCHANGED <<scenario, historyVars>>
           /\ \A t \in Tables : db'[t] \subseteq db[t]
           /\ \A click \in db'["url_stats"], row \in db["urls"] :
                 click.url_id = row.id => row \in db'["urls"]
           /\ \E t, gone : \A e \in Entities' : \E d \in Entities : After(e, d, t, gone)
<1>1. DbOK /\ RestOK /\ held \in [Clients -> Seq(Entity)] /\ OneTableEach
  BY TypeParts DEF TypeInv
<1>2. /\ UNCHANGED <<scenario, historyVars>>
      /\ listing' = listing \/ \E t \in Tables : listing' = ListingWithout(t)
  BY DEF Delete, DeleteClick, Tables
<1>3. /\ db' \in [Tables -> SUBSET (UrlRow \cup ClickRow)]
      /\ \A t \in Tables : db'[t] \subseteq db[t]
      /\ \A click \in db'["url_stats"], row \in db["urls"] :
            click.url_id = row.id => row \in db'["urls"]
  <2>1. ASSUME NEW code \in scenario.codes, Delete(code)
        PROVE  <1>3!:
    <3>1. PICK gone \in db["urls"] :
             db' = [t \in Tables |-> IF t = "urls" THEN db[t] \ {gone}
                                     ELSE {click \in db[t] : click.url_id # gone.id}]
      BY <2>1, MatchingRows, Zenon DEF Delete
    <3>2. db'["urls"] = db["urls"] \ {gone}
      BY <3>1 DEF Tables
    <3>3. db'["url_stats"] = {click \in db["url_stats"] : click.url_id # gone.id}
      BY <3>1 DEF Tables
    <3>4. \A t \in Tables : db'[t] \subseteq db[t]
      BY <3>1
    <3>5. db' \in [Tables -> SUBSET (UrlRow \cup ClickRow)]
      BY <1>1, <3>1 DEF DbOK
    <3> QED BY <3>2, <3>3, <3>4, <3>5
  <2>2. ASSUME NEW c \in Clients, DeleteClick(c)
        PROVE  <1>3!:
    <3>1. PICK id : db' = [db EXCEPT !["url_stats"] = {row \in db["url_stats"] : row.id # id}]
      BY <2>2 DEF DeleteClick
    <3>2. db'["urls"] = db["urls"]
      BY <1>1, <3>1 DEF DbOK, Tables
    <3>3. \A t \in Tables : db'[t] \subseteq db[t]
      BY <1>1, <3>1 DEF DbOK, Tables
    <3>4. db' \in [Tables -> SUBSET (UrlRow \cup ClickRow)]
      BY <1>1, <3>1 DEF DbOK
    <3> QED BY <3>2, <3>3, <3>4
  <2> QED BY <2>1, <2>2
<1>4. DbOK' /\ TablesFinite'
  <2>1. "urls" \in Tables /\ "url_stats" \in Tables
    BY DEF Tables
  <2>2. \A t \in Tables : IsFiniteSet(db'[t])
    BY <1>3, FS_Subset DEF TypeInv, TablesFinite
  <2> QED BY <1>1, <1>3, <2>1, <2>2 DEF DbOK, TablesFinite
<1>5. \E t, gone : \/ held' = Outdated(t, gone)
                   \/ \E c \in Clients : held' = [Outdated(t, gone) EXCEPT ![c] = << >>]
  BY DEF Delete, DeleteClick
<1>6. /\ held' \in [Clients -> Seq(Entity)] /\ OneTableEach'
      /\ \E t, gone : \A e \in Entities' : \E d \in Entities : After(e, d, t, gone)
  BY <1>1, <1>5, WrittenEntities
<1>7. RestOK'
  <2>1. /\ DOMAIN listing' = DOMAIN Closed
        /\ listing'.page \in Nat /\ listing'.table \in Tables /\ listing'.complete \in BOOLEAN
    BY <1>1, <1>2, ListingTypes DEF RestOK
  <2> QED BY <1>1, <1>2, <2>1 DEF RestOK, historyVars
<1>8. TypeOK'
  BY <1>4, <1>6, <1>7 DEF TypeOK, DbOK, RestOK, Values
<1> QED BY <1>2, <1>3, <1>4, <1>6, <1>8 DEF TypeInv

\* A client that writes nothing, and the listings.
Listings == \/ \E filter \in Filters, sortBy \in Sorts : ListFirst(filter, sortBy)
            \/ ListNext
            \/ ListClose
            \/ \E code \in scenario.codes : ListStats(code)

LEMMA IdleTypes ==
    ASSUME TypeInv, Listings \/ (\E c \in Clients : Forget(c)) \/ UNCHANGED vars
    PROVE  /\ TypeInv'
           /\ UNCHANGED <<scenario, db, historyVars>>
           /\ Entities' \subseteq Entities
<1>1. DbOK /\ RestOK /\ held \in [Clients -> Seq(Entity)] /\ OneTableEach
  BY TypeParts DEF TypeInv
<1>2. /\ UNCHANGED <<scenario, db, historyVars>>
      /\ held' = held \/ \E c \in Clients : held' = [held EXCEPT ![c] = << >>]
  BY DEF Listings, ListFirst, ListNext, ListClose, ListStats, Forget, vars
<1>3. held' \in [Clients -> Seq(Entity)] /\ OneTableEach' /\ Entities' \subseteq Entities
  BY <1>1, <1>2, KeptEntities
<1>4. /\ DOMAIN listing' = DOMAIN Closed
      /\ listing'.page \in Nat /\ listing'.table \in Tables /\ listing'.complete \in BOOLEAN
  <2>1. CASE listing' = listing
    BY <1>1, <2>1 DEF RestOK
  <2>2. ASSUME NEW filter \in Filters, NEW sortBy \in Sorts, ListFirst(filter, sortBy)
        PROVE  <1>4!:
    BY <2>2 DEF ListFirst, Closed, Tables
  <2>3. CASE ListNext
    BY <1>1, <2>3 DEF ListNext, Closed, RestOK
  <2>4. CASE ListClose
    BY <2>4 DEF ListClose, Closed, Tables
  <2>5. ASSUME NEW code \in scenario.codes, ListStats(code)
        PROVE  <1>4!:
    <3>1. \E filter, rows : listing' = [Closed EXCEPT !.page = 1, !.table = "url_stats",
              !.sortBy = StatsSort, !.filter = filter, !.rows = rows]
      BY <2>5, Zenon DEF ListStats
    <3>2. PICK filter, sortBy, rows : listing' = [Closed EXCEPT !.page = 1, !.table = "url_stats",
              !.sortBy = sortBy, !.filter = filter, !.rows = rows]
      BY <3>1
    <3> QED BY <3>2 DEF Closed, Tables
  <2>6. ASSUME NEW c \in Clients, Forget(c)
        PROVE  listing' = listing
    BY <2>6 DEF Forget
  <2> QED BY <2>1, <2>2, <2>3, <2>4, <2>5, <2>6 DEF Listings, vars
<1>5. DbOK' /\ RestOK'
  BY <1>1, <1>2, <1>4 DEF DbOK, RestOK, historyVars
<1>6. TypeOK'
  BY <1>3, <1>5 DEF TypeOK, DbOK, RestOK, Values
<1>7. TablesFinite'
  BY <1>2 DEF TypeInv, TablesFinite
<1> QED BY <1>2, <1>3, <1>6, <1>7 DEF TypeInv

\* The steps, as the proofs below take them one by one.
LEMMA Steps ==
    ASSUME [Next]_vars
    PROVE  \/ \E code \in scenario.codes, target \in Targets : Create(code, target)
           \/ \E id \in 1 .. scenario.links, time \in Times : CreateClick(id, time)
           \/ (\E code \in scenario.codes : Delete(code)) \/ (\E c \in Clients : DeleteClick(c))
           \/ \E c \in Clients : Update(c) \/ UpdateMany(c)
           \/ \E c \in Clients :
                 \/ \E target \in Targets : ReadToRetarget(c, target)
                 \/ \E code \in scenario.codes, now \in {None, 1} : ReadToMark(c, code, now)
                 \/ ReadClick(c)
           \/ Listings \/ (\E c \in Clients : Forget(c)) \/ UNCHANGED vars
BY Zenon DEF Next, Listings

\* Whatever is called, every table holds rows of its own columns and every client
\* entities: TypeOK is invariant.
THEOREM TypeCorrect == Spec => []TypeOK
<1>1. TypeInv /\ [Next]_vars => TypeInv'
  BY Steps, CreateTypes, CreateClickTypes, DeleteTypes, UpdateTypes, ReadTypes, IdleTypes
<1>2. TypeInv => TypeOK
  BY DEF TypeInv
<1> QED BY TypeInit, <1>1, <1>2, PTL DEF Spec

-----------------------------------------------------------------------------
(***************************************************************************)
(* Ids, short codes and edits: the invariant.                              *)
(***************************************************************************)

\* A row of a link has the code that its id was created with.
Born(row) == row.id \in 1 .. Len(bornAs) /\ row.short_code = bornAs[row.id]

RowsBorn == /\ \A row \in db["urls"] : Born(row)
            /\ \A click \in db["url_stats"] : click.id \in 1 .. clicksMade

\* So have the entities, however old.
EntitiesBorn == \A e \in Entities : /\ e.table = "urls" => Born(e.row)
                                    /\ e.table # "urls" => e.row.id \in 1 .. clicksMade

\* No client changes a click: all that is known of one is the same.
ClicksKept == \A e \in Entities : e.table # "urls" =>
                 /\ \A click \in db["url_stats"] : click.id = e.row.id => click = e.row
                 /\ \A d \in Entities : d.table # "urls" /\ d.row.id = e.row.id => d.row = e.row

\* An entity that is up to date is its link, but for the columns it is to set.
FreshAsStored == \A e \in Entities : e.table = "urls" /\ e.fresh =>
                    \A row \in db["urls"] : row.id = e.row.id =>
                       \A col \in Editable \ e.edited : e.row[col] = row[col]

StoreInv == /\ TypeInv
            /\ Consistent(db)
            /\ Len(wanted) = Len(bornAs)
            /\ RowsBorn
            /\ EntitiesBorn
            /\ ClicksKept
            /\ FreshAsStored
            /\ EditsLostOnlyByOldEntities

LEMMA StoreInit == Init => StoreInv
<1> SUFFICES ASSUME Init PROVE StoreInv
  OBVIOUS
<1>1. TypeInv
  BY TypeInit
<1>2. db["urls"] = {} /\ db["url_stats"] = {}
  BY DEF Init, Tables
<1>3. Consistent(db)
  BY <1>2 DEF Consistent, Tables
<1>4. \A c \in Clients : Len(held[c]) = 0
  BY DEF Init
<1>5. Entities = {}
  BY <1>4 DEF Entities
<1>6. Len(wanted) = Len(bornAs)
  BY DEF Init
<1> QED BY <1>1, <1>2, <1>3, <1>5, <1>6
        DEF StoreInv, RowsBorn, EntitiesBorn, ClicksKept, FreshAsStored, EditsLostOnlyByOldEntities

LEMMA CreateEffect ==
    ASSUME TypeInv, NEW code \in scenario.codes, NEW target \in Targets, Create(code, target)
    PROVE  \E row \in UrlRow :
              /\ db'["urls"] = db["urls"] \cup {row} /\ db'["url_stats"] = db["url_stats"]
              /\ row.id = Len(bornAs) + 1 /\ row.short_code = code
              /\ \A r \in db["urls"] : r.short_code # code
              /\ Len(bornAs') = Len(bornAs) + 1 /\ bornAs'[Len(bornAs) + 1] = code
              /\ \A i \in 1 .. Len(bornAs) : bornAs'[i] = bornAs[i]
              /\ Len(wanted') = Len(wanted) + 1
              /\ \A col \in Editable : wanted'[Len(wanted) + 1][col] = row[col]
              /\ \A i \in 1 .. Len(wanted) : wanted'[i] = wanted[i]
              /\ UNCHANGED <<scenario, held, listing, clicksMade, overwritten>>
<1>1. DbOK /\ RestOK
  BY TypeParts DEF TypeInv
<1>2. code \in Nat /\ Len(bornAs) \in Nat
  BY <1>1, ScenariosAssumption DEF RestOK
<1> DEFINE row == [id |-> Len(bornAs) + 1, target_url |-> target, short_code |-> code,
                   deleted_at |-> None]
           w == [target_url |-> target, deleted_at |-> None]
<1>3. row \in UrlRow /\ row.id = Len(bornAs) + 1 /\ row.short_code = code
  BY <1>2 DEF UrlRow
<1>4. w \in [Editable -> Values] /\ \A col \in Editable : w[col] = row[col]
  BY DEF Editable, Values
<1>5. /\ db' = [db EXCEPT !["urls"] = db["urls"] \cup {row}] /\ wanted' = Append(wanted, w)
      /\ \A r \in db["urls"] : r.short_code # code /\ bornAs' = Append(bornAs, code)
      /\ UNCHANGED <<scenario, held, listing, clicksMade, overwritten>>
  BY DEF Create
<1>6. bornAs' = Append(bornAs, code)
  BY DEF Create
<1> HIDE DEF row, w
<1>7. db'["urls"] = db["urls"] \cup {row} /\ db'["url_stats"] = db["url_stats"]
  BY <1>1, <1>5 DEF DbOK, Tables
<1>8. /\ Len(bornAs') = Len(bornAs) + 1 /\ bornAs'[Len(bornAs) + 1] = code
      /\ \A i \in 1 .. Len(bornAs) : bornAs'[i] = bornAs[i]
  BY <1>1, <1>2, <1>6, AppendTypes DEF RestOK
<1>9. /\ Len(wanted') = Len(wanted) + 1 /\ wanted'[Len(wanted) + 1] = w
      /\ \A i \in 1 .. Len(wanted) : wanted'[i] = wanted[i]
  <2>1. wanted \in Seq([Editable -> Values])
    BY <1>1 DEF RestOK
  <2> QED BY <1>4, <1>5, <2>1, AppendTypes
<1> QED BY <1>3, <1>4, <1>5, <1>7, <1>8, <1>9

LEMMA EntityIds ==
    ASSUME StoreInv
    PROVE  /\ Len(bornAs) \in Nat /\ clicksMade \in Nat
           /\ \A e \in Entities : /\ e \in Entity
                                  /\ e.table = "urls" => e.row.id <= Len(bornAs)
                                  /\ e.table # "urls" => e.row.id <= clicksMade
<1>1. Len(bornAs) \in Nat /\ clicksMade \in Nat
  BY TypeParts DEF StoreInv, TypeInv, RestOK
<1> QED BY <1>1 DEF StoreInv, EntitiesBorn, Born, Entities

LEMMA CreateKeeps ==
    ASSUME StoreInv, NEW code \in scenario.codes, NEW target \in Targets, Create(code, target)
    PROVE  StoreInv'
<1>1. TypeInv /\ TypeInv'
  BY CreateTypes DEF StoreInv
<1>2. PICK new \in UrlRow :
         /\ db'["urls"] = db["urls"] \cup {new} /\ db'["url_stats"] = db["url_stats"]
         /\ new.id = Len(bornAs) + 1 /\ new.short_code = code
         /\ \A r \in db["urls"] : r.short_code # code
         /\ Len(bornAs') = Len(bornAs) + 1 /\ bornAs'[Len(bornAs) + 1] = code
         /\ \A i \in 1 .. Len(bornAs) : bornAs'[i] = bornAs[i]
         /\ Len(wanted') = Len(wanted) + 1
         /\ \A col \in Editable : wanted'[Len(wanted) + 1][col] = new[col]
         /\ \A i \in 1 .. Len(wanted) : wanted'[i] = wanted[i]
         /\ UNCHANGED <<scenario, held, listing, clicksMade, overwritten>>
  BY <1>1, CreateEffect
<1>3. PICK n \in Nat : n = Len(bornAs) /\ n = Len(wanted)
  BY EntityIds DEF StoreInv
<1>4. Entities' = Entities
  BY <1>2 DEF Entities
<1>5. \A r \in db["urls"] : r.id \in 1 .. n /\ r.short_code = bornAs[r.id] /\ r.id # new.id
  BY <1>2, <1>3 DEF StoreInv, RowsBorn, Born
<1>6. Consistent(db')
  BY <1>2, <1>5 DEF StoreInv, Consistent, Tables, Ids
<1>7. RowsBorn'
  BY <1>2, <1>3, <1>5 DEF StoreInv, RowsBorn, Born
<1>8. EntitiesBorn'
  BY <1>2, <1>3, <1>4 DEF StoreInv, EntitiesBorn, Born
<1>9. ClicksKept'
  BY <1>2, <1>4 DEF StoreInv, ClicksKept
<1>10. FreshAsStored'
  <2>1. \A e \in Entities : e.table = "urls" => e.row.id # new.id
    BY <1>2, <1>3 DEF StoreInv, EntitiesBorn, Born
  <2> QED BY <1>2, <1>4, <2>1 DEF StoreInv, FreshAsStored
<1>11. EditsLostOnlyByOldEntities'
  BY <1>2, <1>3, <1>5 DEF StoreInv, EditsLostOnlyByOldEntities
<1>12. Len(wanted') = Len(bornAs')
  BY <1>2, <1>3
<1> QED BY <1>1, <1>6, <1>7, <1>8, <1>9, <1>10, <1>11, <1>12 DEF StoreInv

LEMMA CreateClickKeeps ==
    ASSUME StoreInv, NEW id, NEW time \in Times, CreateClick(id, time)
    PROVE  StoreInv'
<1> DEFINE new == [id |-> clicksMade + 1, url_id |-> id, access_time |-> time]
<1>1. /\ TypeInv' /\ UNCHANGED <<scenario, held, listing, bornAs, wanted, overwritten>>
      /\ clicksMade' = clicksMade + 1 /\ id \in Ids(db["urls"])
      /\ db'["urls"] = db["urls"] /\ db'["url_stats"] = db["url_stats"] \cup {new}
  BY CreateClickTypes DEF StoreInv
<1>2. new.id = clicksMade + 1 /\ new.url_id = id
  OBVIOUS
<1> HIDE DEF new
<1>3. clicksMade \in Nat
  BY EntityIds
<1>4. Entities' = Entities
  BY <1>1 DEF Entities
<1>5. \A r \in db["url_stats"] : r.id \in 1 .. clicksMade /\ r.id # new.id
  BY <1>2, <1>3 DEF StoreInv, RowsBorn
<1>6. Consistent(db')
  BY <1>1, <1>2, <1>5 DEF StoreInv, Consistent, Tables
<1>7. RowsBorn'
  BY <1>1, <1>2, <1>3, <1>5 DEF StoreInv, RowsBorn, Born
<1>8. EntitiesBorn'
  BY <1>1, <1>3, <1>4 DEF StoreInv, EntitiesBorn, Born
<1>9. ClicksKept'
  <2>1. \A e \in Entities : e.table # "urls" => e.row.id # new.id
    BY <1>2, <1>3 DEF StoreInv, EntitiesBorn
  <2> QED BY <1>1, <1>4, <2>1 DEF StoreInv, ClicksKept
<1>10. FreshAsStored' /\ EditsLostOnlyByOldEntities'
  BY <1>1, <1>4 DEF StoreInv, FreshAsStored, EditsLostOnlyByOldEntities
<1>11. Len(wanted') = Len(bornAs')
  BY <1>1 DEF StoreInv
<1> QED BY <1>1, <1>6, <1>7, <1>8, <1>9, <1>10, <1>11 DEF StoreInv

LEMMA DeleteKeeps ==
    ASSUME StoreInv,
           (\E code \in scenario.codes : Delete(code)) \/ (\E c \in Clients : DeleteClick(c))
    PROVE  StoreInv'
<1>1. /\ TypeInv' /\ UNCHANGED <<scenario, historyVars>>
      /\ db'["urls"] \subseteq db["urls"] /\ db'["url_stats"] \subseteq db["url_stats"]
      /\ \A t \in Tables : db'[t] \subseteq db[t]
      /\ \A click \in db'["url_stats"], row \in db["urls"] :
            click.url_id = row.id => row \in db'["urls"]
  BY DeleteTypes DEF StoreInv, Tables
<1>2. \A e \in Entities' : \E d \in Entities :
         d.table = e.table /\ d.row = e.row /\ d.edited = e.edited /\ (e.fresh => d.fresh)
  BY DeleteTypes DEF StoreInv, After
<1>3. UNCHANGED <<bornAs, clicksMade, wanted, overwritten>>
  BY <1>1 DEF historyVars
<1>4. Consistent(db')
  BY <1>1 DEF StoreInv, Consistent, Ids, Tables
<1>5. RowsBorn' /\ EditsLostOnlyByOldEntities' /\ Len(wanted') = Len(bornAs')
  BY <1>1, <1>3 DEF StoreInv, RowsBorn, Born, EditsLostOnlyByOldEntities
<1>6. EntitiesBorn'
  BY <1>2, <1>3 DEF StoreInv, EntitiesBorn, Born
<1>7. ClicksKept'
  BY <1>1, <1>2 DEF StoreInv, ClicksKept
<1>8. FreshAsStored'
  BY <1>1, <1>2 DEF StoreInv, FreshAsStored
<1> QED BY <1>1, <1>4, <1>5, <1>6, <1>7, <1>8 DEF StoreInv

LEMMA ReadKeeps ==
    ASSUME StoreInv, NEW c \in Clients,
           \/ \E target \in Targets : ReadToRetarget(c, target)
           \/ \E code \in scenario.codes, now \in {None, 1} : ReadToMark(c, code, now)
           \/ ReadClick(c)
    PROVE  StoreInv'
<1>1. TypeInv' /\ UNCHANGED <<scenario, db, listing, historyVars>>
  BY ReadTypes DEF StoreInv
<1>2. PICK e \in Entity : \E row \in db[e.table] :
         /\ \A d \in Entities' : d \in Entities \/ d = e
         /\ e.row.id = row.id
         /\ e.table = "urls" => /\ e.row.short_code = row.short_code
                                /\ \A col \in Editable \ e.edited : e.row[col] = row[col]
         /\ e.table # "urls" => e.row = row
  BY ReadTypes DEF StoreInv
<1>3. PICK row \in db[e.table] :
         /\ \A d \in Entities' : d \in Entities \/ d = e
         /\ e.row.id = row.id
         /\ e.table = "urls" => /\ e.row.short_code = row.short_code
                                /\ \A col \in Editable \ e.edited : e.row[col] = row[col]
         /\ e.table # "urls" => e.row = row
  BY <1>2
<1>4. e.table # "urls" => e.table = "url_stats"
  BY EntityParts
<1>5. UNCHANGED <<bornAs, clicksMade, wanted, overwritten>> /\ db' = db
  BY <1>1 DEF historyVars
<1>6. /\ Consistent(db') /\ RowsBorn' /\ EditsLostOnlyByOldEntities'
      /\ Len(wanted') = Len(bornAs')
  BY <1>5 DEF StoreInv, RowsBorn, Born, EditsLostOnlyByOldEntities
<1>7. EntitiesBorn'
  BY <1>3, <1>4, <1>5 DEF StoreInv, EntitiesBorn, RowsBorn, Born
<1>8. ClicksKept'
  <2>1. \A click, other \in db["url_stats"] : click.id = other.id => click = other
    BY DEF StoreInv, Consistent, Tables
  <2>2. \A d \in Entities' : d.table # "urls" =>
           d.row \in db["url_stats"] \/ d \in Entities
    BY <1>3, <1>4
  <2> QED BY <1>3, <1>4, <1>5, <2>1 DEF StoreInv, ClicksKept
<1>9. FreshAsStored'
  <2>1. \A link, other \in db["urls"] : link.id = other.id => link = other
    BY DEF StoreInv, Consistent, Tables
  <2> QED BY <1>3, <1>5, <2>1 DEF StoreInv, FreshAsStored
<1> QED BY <1>1, <1>6, <1>7, <1>8, <1>9 DEF StoreInv

LEMMA IdleKeeps ==
    ASSUME StoreInv, Listings \/ (\E c \in Clients : Forget(c)) \/ UNCHANGED vars
    PROVE  StoreInv'
<1>1. TypeInv' /\ UNCHANGED <<scenario, db, historyVars>> /\ Entities' \subseteq Entities
  BY IdleTypes DEF StoreInv
<1>2. UNCHANGED <<db, bornAs, clicksMade, wanted, overwritten>>
  BY <1>1 DEF historyVars
<1> QED BY <1>1, <1>2 DEF StoreInv, RowsBorn, Born, EntitiesBorn, ClicksKept, FreshAsStored,
                          EditsLostOnlyByOldEntities

\* A write puts the row of entity e in the place of old, which is of the same id or, after
\* update_many, of another.
Replaced(e, old) ==
    /\ db'[e.table] = (db[e.table] \ {old}) \cup {e.row}
    /\ \A u \in Tables : u # e.table => db'[u] = db[u]
    /\ old.id = e.row.id \/ Consistent(db')
    /\ \A d \in Entities' : \E b \in Entities : After(d, b, e.table, {e.row.id})
    /\ e.table # "urls" => UNCHANGED <<wanted, overwritten>>
    /\ e.table = "urls" =>
          /\ overwritten \subseteq overwritten' /\ DOMAIN wanted' = DOMAIN wanted
          /\ \A id \in DOMAIN wanted : id # e.row.id => wanted'[id] = wanted[id]
          /\ e.row.id \notin overwritten' =>
                /\ e.fresh /\ old.id = e.row.id
                /\ e.row.id \in DOMAIN wanted =>
                      \A col \in Editable :
                         wanted'[e.row.id][col] = IF col \in e.edited THEN e.row[col]
                                                  ELSE wanted[e.row.id][col]

LEMMA UpdateEffect ==
    ASSUME StoreInv, NEW c \in Clients, Update(c) \/ UpdateMany(c)
    PROVE  \E e \in Entities : \E old \in db[e.table] : Replaced(e, old)
<1>1. TypeInv
  BY DEF StoreInv
<1>2. PICK e \in Entities : \E rest \in SUBSET db[e.table] : Written(e, rest)
  BY <1>1, UpdateTypes
<1>3. PICK rest \in SUBSET db[e.table] : Written(e, rest)
  BY <1>2
<1>4. e.table \in Tables /\ e \in Entity
  BY EntityParts DEF Entities
<1>5. \A r, q \in db[e.table] : r.id = q.id => r = q
  BY <1>4 DEF StoreInv, Consistent
<1>6. PICK old \in db[e.table] :
         /\ rest = db[e.table] \ {old}
         /\ old.id = e.row.id \/ Consistent(db')
         /\ rest = {r \in db[e.table] : r.id # e.row.id} /\ e.row.id \in Ids(db[e.table])
               => old.id = e.row.id
  <2>1. CASE e.row.id \in Ids(db[e.table]) /\ rest = {r \in db[e.table] : r.id # e.row.id}
    BY <1>5, <2>1 DEF Ids
  <2>2. CASE ~(e.row.id \in Ids(db[e.table]) /\ rest = {r \in db[e.table] : r.id # e.row.id})
    BY <1>3, <2>2 DEF Written
  <2> QED BY <2>1, <2>2
<1>7. /\ rest = db[e.table] \ {old}
      /\ db'[e.table] = rest \cup {e.row}
  BY <1>3, <1>6 DEF Written
<1>8. db'[e.table] = (db[e.table] \ {old}) \cup {e.row}
  BY <1>7
<1> QED BY <1>3, <1>6, <1>8 DEF Written, Replaced

LEMMA UpdateKeeps ==
    ASSUME StoreInv, NEW c \in Clients, Update(c) \/ UpdateMany(c)
    PROVE  StoreInv'
<1>1. TypeInv' /\ UNCHANGED <<scenario, bornAs, clicksMade>>
  BY UpdateTypes DEF StoreInv
<1>2. PICK e \in Entities : \E old \in db[e.table] : Replaced(e, old)
  BY UpdateEffect
<1>A. PICK old \in db[e.table] : Replaced(e, old)
  BY <1>2
<1>3. PICK new : new = e.row
  OBVIOUS
<1>4. /\ e \in Entity /\ e.table \in Tables /\ new = e.row
      /\ e.table # "urls" => e.table = "url_stats"
      /\ "urls" \in Tables /\ "url_stats" \in Tables
  BY <1>3, EntityParts DEF Entities, Tables
<1>5. /\ e.table = "urls" => Born(new) /\ db'["url_stats"] = db["url_stats"]
      /\ e.table # "urls" => /\ new.id \in 1 .. clicksMade
                             /\ db'["urls"] = db["urls"]
                             /\ old.id = new.id => old = new
  BY <1>A, <1>3, <1>4 DEF StoreInv, EntitiesBorn, ClicksKept, Replaced
<1>6. /\ Len(bornAs) \in Nat /\ Len(wanted) = Len(bornAs)
      /\ DOMAIN wanted = 1 .. Len(bornAs)
      /\ \A d \in Entities' : \E b \in Entities : After(d, b, e.table, {new.id})
  <2>1. wanted \in Seq([Editable -> Values]) /\ Len(bornAs) \in Nat
    BY TypeParts DEF StoreInv, TypeInv, RestOK
  <2>2. \A d \in Entities' : \E b \in Entities : After(d, b, e.table, {new.id})
    BY <1>A, <1>3 DEF Replaced
  <2>3. Len(wanted) = Len(bornAs)
    BY DEF StoreInv
  <2>4. DOMAIN wanted = 1 .. Len(bornAs)
    BY <2>1, <2>3
  <2> QED BY <2>1, <2>2, <2>3, <2>4, Zenon
<1>7. /\ db'[e.table] = (db[e.table] \ {old}) \cup {new}
      /\ old.id = new.id \/ Consistent(db')
  BY <1>A, <1>3 DEF Replaced
<1>8. Consistent(db')
  <2>1. CASE Consistent(db')
    BY <2>1
  <2>2. CASE old.id = new.id /\ e.table = "urls"
    <3>1. old.short_code = new.short_code
      BY <1>5, <2>2 DEF StoreInv, RowsBorn, Born
    <3>2. Ids(db'["urls"]) = Ids(db["urls"])
      BY <1>7, <2>2 DEF Ids
    <3>3. \A r, q \in db'["urls"] : r.id = q.id \/ r.short_code = q.short_code => r = q
      BY <1>7, <2>2, <3>1, <1>4 DEF StoreInv, Consistent
    <3> QED BY <1>4, <1>5, <2>2, <3>2, <3>3 DEF StoreInv, Consistent, Tables
  <2>3. CASE old.id = new.id /\ e.table # "urls"
    <3>1. db'["url_stats"] = db["url_stats"] /\ db'["urls"] = db["urls"]
      BY <1>4, <1>5, <1>7, <2>3
    <3> QED BY <3>1 DEF StoreInv, Consistent, Tables
  <2> QED BY <1>7, <2>1, <2>2, <2>3
<1>9. RowsBorn'
  <2>1. bornAs' = bornAs /\ clicksMade' = clicksMade
    BY <1>1
  <2> QED BY <1>4, <1>5, <1>7, <2>1 DEF StoreInv, RowsBorn, Born
<1>10. EntitiesBorn'
  <2>1. bornAs' = bornAs /\ clicksMade' = clicksMade
    BY <1>1
  <2> QED BY <1>6, <2>1 DEF StoreInv, EntitiesBorn, Born, After
<1>11. ClicksKept'
  <2>1. \A click \in db'["url_stats"] :
           click \in db["url_stats"] \/ (e.table # "urls" /\ click = e.row)
    BY <1>4, <1>5, <1>7
  <2>2. \A d \in Entities' : \E b \in Entities : d.table = b.table /\ d.row = b.row
    BY <1>6 DEF After
  <2> QED BY <2>1, <2>2 DEF StoreInv, ClicksKept
<1>12. FreshAsStored'
  <2> SUFFICES ASSUME NEW d \in Entities', d.table = "urls", d.fresh,
                      NEW row \in db'["urls"], row.id = d.row.id
               PROVE  \A col \in Editable \ d.edited : d.row[col] = row[col]
    BY DEF FreshAsStored
  <2>1. PICK b \in Entities : After(d, b, e.table, {new.id})
    BY <1>6
  <2>2. row \in db["urls"]
    BY <1>4, <1>5, <1>7, <2>1 DEF After
  <2> QED BY <2>1, <2>2 DEF StoreInv, FreshAsStored, After
<1>13. EditsLostOnlyByOldEntities'
  <2>1. CASE e.table # "urls"
    <3>1. db'["urls"] = db["urls"] /\ wanted' = wanted /\ overwritten' = overwritten
      BY <1>A, <1>5, <2>1 DEF Replaced
    <3> QED BY <3>1 DEF StoreInv, EditsLostOnlyByOldEntities
  <2>2. CASE e.table = "urls"
    <3>1. /\ overwritten \subseteq overwritten'
          /\ \A id \in DOMAIN wanted : id # new.id => wanted'[id] = wanted[id]
          /\ new.id \notin overwritten' =>
                /\ e.fresh /\ old.id = new.id
                /\ new.id \in DOMAIN wanted =>
                      \A col \in Editable :
                         wanted'[new.id][col] = IF col \in e.edited THEN new[col]
                                                ELSE wanted[new.id][col]
      BY <1>A, <1>3, <2>2 DEF Replaced
    <3> SUFFICES ASSUME NEW row \in db'["urls"], row.id \notin overwritten', NEW col \in Editable
                 PROVE  row[col] = wanted'[row.id][col]
      BY DEF EditsLostOnlyByOldEntities
    <3>2. CASE row.id # new.id
      <4>1. row \in db["urls"] /\ row.id \in DOMAIN wanted /\ row.id \notin overwritten
        BY <1>6, <1>7, <2>2, <3>1, <3>2 DEF StoreInv, RowsBorn, Born
      <4> QED BY <3>1, <3>2, <4>1 DEF StoreInv, EditsLostOnlyByOldEntities
    <3>3. CASE row.id = new.id
      <4>1. row = new
        BY <1>7, <1>8, <2>2, <3>3 DEF Consistent, Tables
      <4>2. /\ e.fresh /\ old.id = new.id /\ new.id \in DOMAIN wanted
            /\ new.id \notin overwritten /\ old \in db["urls"]
        BY <1>5, <1>6, <2>2, <3>1, <3>3 DEF Born
      <4>3. wanted'[new.id][col] = IF col \in e.edited THEN new[col] ELSE wanted[new.id][col]
        BY <3>1, <3>3, <4>2
      <4>4. old[col] = wanted[new.id][col]
        BY <4>2 DEF StoreInv, EditsLostOnlyByOldEntities
      <4>5. col \notin e.edited => new[col] = old[col]
        BY <1>4, <2>2, <4>2 DEF StoreInv, FreshAsStored
      <4> QED BY <4>1, <4>3, <4>4, <4>5
    <3> QED BY <3>2, <3>3
  <2> QED BY <2>1, <2>2
<1>14. Len(wanted') = Len(bornAs')
  <2>1. wanted' \in Seq([Editable -> Values]) /\ wanted \in Seq([Editable -> Values])
    BY <1>1, TypeParts DEF StoreInv, TypeInv, TypeOK, Values
  <2>2. DOMAIN wanted' = DOMAIN wanted
    BY <1>A DEF Replaced
  <2> QED BY <1>1, <1>6, <2>1, <2>2
<1> QED BY <1>1, <1>8, <1>9, <1>10, <1>11, <1>12, <1>13, <1>14 DEF StoreInv

LEMMA StoreStep == StoreInv /\ [Next]_vars => StoreInv'
BY Steps, CreateKeeps, CreateClickKeeps, DeleteKeeps, UpdateKeeps, ReadKeeps, IdleKeeps

LEMMA StoreInvariant == Spec => []StoreInv
BY StoreInit, StoreStep, PTL DEF Spec

\* update and update_many write id and short_code back with the other columns, and still
\* no link ever has another code than it was created with, and the keys of both tables
\* hold: IdKeepsCode is invariant.
THEOREM CodesKept == Spec => []IdKeepsCode
<1>1. StoreInv => IdKeepsCode
  BY DEF StoreInv, IdKeepsCode, RowsBorn, Born
<1> QED BY <1>1, StoreInvariant, PTL

\* What a caller has set stays until another sets it, unless an entity was written that
\* was read before the link's last change, or a batch was: EditsLostOnlyByOldEntities is
\* invariant.
THEOREM EditsKept == Spec => []EditsLostOnlyByOldEntities
<1>1. StoreInv => EditsLostOnlyByOldEntities
  BY DEF StoreInv
<1> QED BY <1>1, StoreInvariant, PTL

\* Row, that table t had lost, takes the place of one that a batch of client c finds.
ReturnsWith(c, t, row) ==
    /\ Len(held[c]) > 1 /\ held[c][1].table = t
    /\ held[c][Len(held[c])].row = row
    /\ \E old \in Found(c) :
          /\ db'[t] = (db[t] \ {old}) \cup {row}
          /\ t = "urls" => \A click \in db["url_stats"] : click.url_id # old.id

ReturnsForAnother == \A t \in Tables : \A row \in db'[t] :
    WasDeleted(t, row.id) => \E c \in Clients : ReturnsWith(c, t, row)

\* update_many finds one row, and the last model's takes its place.
LEMMA BatchReturns ==
    ASSUME StoreInv, NEW c \in Clients, UpdateMany(c), NEW t \in Tables,
           NEW row \in db'[t], row.id \notin Ids(db[t])
    PROVE  ReturnsWith(c, t, row)
<1>1. Len(held[c]) > 1 /\ Cardinality(Found(c)) = 1 /\ Consistent(db')
  BY DEF UpdateMany
<1>2. PICK e : /\ e = held[c][Len(held[c])]
               /\ db' = [db EXCEPT ![e.table] = (@ \ Found(c)) \cup {e.row}]
  BY DEF UpdateMany
<1>3. /\ held[c] \in Seq(Entity) /\ Len(held[c]) \in Nat
      /\ 1 \in 1 .. Len(held[c]) /\ Len(held[c]) \in 1 .. Len(held[c])
  BY <1>1 DEF StoreInv, TypeInv, TypeOK
<1>4. /\ e \in Entity /\ e.table \in Tables /\ held[c][1].table = e.table
  BY <1>2, <1>3, EntityParts DEF StoreInv, TypeInv, OneTableEach
<1>5. /\ db \in [Tables -> SUBSET (UrlRow \cup ClickRow)]
      /\ IsFiniteSet(db[e.table]) /\ Found(c) \in SUBSET db[e.table]
  BY <1>4 DEF StoreInv, TypeInv, TypeOK, TablesFinite, Found
<1>6. PICK old \in db[e.table] : Found(c) = {old}
  BY <1>1, <1>5, FS_Subset, OneElement
<1>7. /\ db'[e.table] = (db[e.table] \ {old}) \cup {e.row}
      /\ \A u \in Tables : u # e.table => db'[u] = db[u]
  BY <1>2, <1>4, <1>5, <1>6
<1>8. t = e.table /\ row = e.row
  BY <1>7 DEF Ids
<1>9. ASSUME t = "urls", NEW click \in db["url_stats"], click.url_id = old.id
      PROVE  FALSE
  <2>1. click \in db'["url_stats"]
    BY <1>7, <1>8, <1>9 DEF Tables
  <2>2. PICK link \in db'["urls"] : link.id = old.id
    BY <1>1, <1>9, <2>1 DEF Consistent, Ids
  <2>3. link.id # row.id
    BY <1>8, <1>9, <2>2 DEF Ids
  <2>4. link \in db["urls"] /\ link # old
    BY <1>7, <1>8, <1>9, <2>2, <2>3
  <2>5. \A r, q \in db["urls"] : r.id = q.id => r = q
    BY DEF StoreInv, Consistent, Tables
  <2> QED BY <1>8, <1>9, <2>2, <2>4, <2>5
<1> QED BY <1>1, <1>2, <1>4, <1>6, <1>7, <1>8, <1>9 DEF ReturnsWith

\* A row that was deleted comes back only in the place of another, by update_many:
\* DeletedReturnsForAnother holds in every step.
THEOREM DeletedRowsStayGone == Spec => DeletedReturnsForAnother
<1>1. ASSUME StoreInv, [Next]_vars
      PROVE  ReturnsForAnother
  <2>1. ASSUME \A t \in Tables : \A r \in db'[t] : r.id \in Ids(db[t])
        PROVE  ReturnsForAnother
    BY <2>1 DEF ReturnsForAnother, WasDeleted
  <2>2. ASSUME \A t \in Tables : db'[t] \subseteq db[t]
        PROVE  ReturnsForAnother
    BY <2>1, <2>2 DEF Ids
  <2>3. CASE \E code \in scenario.codes, target \in Targets : Create(code, target)
    <3>1. PICK r \in UrlRow : /\ db'["urls"] = db["urls"] \cup {r}
                              /\ db'["url_stats"] = db["url_stats"]
                              /\ r.id = Len(bornAs) + 1 /\ Len(bornAs') = Len(bornAs) + 1
      BY <1>1, <2>3, CreateEffect DEF StoreInv
    <3>2. Len(bornAs) \in Nat
      BY <1>1 DEF StoreInv, TypeInv, TypeOK
    <3>3. ~WasDeleted("urls", r.id)
      BY <3>1, <3>2 DEF WasDeleted
    <3> QED BY <3>1, <3>3 DEF ReturnsForAnother, Tables, WasDeleted, Ids
  <2>4. CASE \E id \in 1 .. scenario.links, time \in Times : CreateClick(id, time)
    <3>1. PICK id, time : /\ clicksMade' = clicksMade + 1 /\ db'["urls"] = db["urls"]
                          /\ db'["url_stats"] = db["url_stats"] \cup
                                {[id |-> clicksMade + 1, url_id |-> id, access_time |-> time]}
      BY <1>1, <2>4, CreateClickTypes DEF StoreInv
    <3>2. PICK r : /\ r.id = clicksMade + 1
                   /\ db'["url_stats"] = db["url_stats"] \cup {r}
      BY <3>1
    <3>3. clicksMade \in Nat
      BY <1>1 DEF StoreInv, TypeInv, TypeOK
    <3>4. ~WasDeleted("url_stats", r.id)
      BY <3>2, <3>3 DEF WasDeleted
    <3> QED BY <3>1, <3>2, <3>4 DEF ReturnsForAnother, Tables, WasDeleted, Ids
  <2>5. CASE (\E code \in scenario.codes : Delete(code)) \/ (\E c \in Clients : DeleteClick(c))
    BY <1>1, <2>2, <2>5, DeleteTypes DEF StoreInv
  <2>6. ASSUME NEW c \in Clients, Update(c)
        PROVE  ReturnsForAnother
    <3>1. PICK e : /\ e = held[c][1] /\ e.row.id \in Ids(db[e.table])
                   /\ db' = [db EXCEPT ![e.table] = {r \in @ : r.id # e.row.id} \cup {e.row}]
      BY <2>6 DEF Update
    <3>2. db \in [Tables -> SUBSET (UrlRow \cup ClickRow)]
      BY <1>1 DEF StoreInv, TypeInv, TypeOK
    <3>3. \A t \in Tables : \A r \in db'[t] : r.id \in Ids(db[t])
      BY <3>1, <3>2 DEF Ids
    <3> QED BY <2>1, <3>3
  <2>7. ASSUME NEW c \in Clients, UpdateMany(c)
        PROVE  ReturnsForAnother
    BY <1>1, <2>7, BatchReturns DEF ReturnsForAnother, WasDeleted
  <2>8. CASE \E c \in Clients :
                 \/ \E target \in Targets : ReadToRetarget(c, target)
                 \/ \E code \in scenario.codes, now \in {None, 1} : ReadToMark(c, code, now)
                 \/ ReadClick(c)
    <3>1. db' = db
      BY <1>1, <2>8, ReadTypes DEF StoreInv
    <3> QED BY <2>2, <3>1
  <2>9. CASE Listings \/ (\E c \in Clients : Forget(c)) \/ UNCHANGED vars
    <3>1. db' = db
      BY <1>1, <2>9, IdleTypes DEF StoreInv
    <3> QED BY <2>2, <3>1
  <2> QED BY <1>1, Steps, <2>3, <2>4, <2>5, <2>6, <2>7, <2>8, <2>9
<1>2. StoreInv /\ [Next]_vars => [ReturnsForAnother]_vars
  BY <1>1
<1>3. Spec => [][ReturnsForAnother]_vars
  BY <1>2, StoreInvariant, PTL DEF Spec
<1> QED BY <1>3 DEF DeletedReturnsForAnother, ReturnsForAnother, ReturnsWith

-----------------------------------------------------------------------------
(***************************************************************************)
(* Sort lists and what they put before what.                               *)
(***************************************************************************)

\* As many elements as places.
LEMMA CountOfImage ==
    ASSUME NEW n \in Nat, NEW S, NEW f \in [1 .. n -> S],
           \A i, j \in 1 .. n : i # j => f[i] # f[j]
    PROVE  /\ IsFiniteSet({f[i] : i \in 1 .. n})
           /\ Cardinality({f[i] : i \in 1 .. n}) = n
<1> DEFINE T == {f[i] : i \in 1 .. n}
<1>1. f \in Bijection(1 .. n, T)
  BY DEF Bijection, Injection, Surjection, IsInjective
<1>2. ExistsBijection(1 .. n, T)
  BY <1>1 DEF ExistsBijection
<1> HIDE DEF T
<1>3. Cardinality(T) = n
  BY <1>2, FS_CountingElements
<1>4. IsFiniteSet(T)
  BY <1>2, FS_NatBijection
<1> QED BY <1>3, <1>4 DEF T

\* list has the columns at the positions of set, in the order of declaration.
Lists(list, columns, sorters, set) ==
    \E k \in Nat : \E pos \in [1 .. k -> set] :
        /\ \A i, j \in 1 .. k : i < j => pos[i] < pos[j]
        /\ \A p \in set : \E i \in 1 .. k : pos[i] = p
        /\ DOMAIN list = 1 .. k
        /\ \A i \in 1 .. k : list[i][1] = columns[pos[i]] /\ list[i][2] = sorters[columns[pos[i]]]

\* The columns of set put r before q.
Ranked(columns, sorters, set, r, q) ==
    \E p \in set : /\ \A o \in set : o < p => r[columns[o]] = q[columns[o]]
                   /\ Ahead(sorters[columns[p]], r[columns[p]], q[columns[p]])

\* So a list in that order does.
LEMMA BeforeByColumns ==
    ASSUME NEW set \in SUBSET Nat, NEW columns, NEW sorters, NEW list,
           Lists(list, columns, sorters, set), NEW r, NEW q
    PROVE  Before(list, r, q) <=> Ranked(columns, sorters, set, r, q)
<1>1. PICK k \in Nat : \E pos \in [1 .. k -> set] :
        /\ \A i, j \in 1 .. k : i < j => pos[i] < pos[j]
        /\ \A p \in set : \E i \in 1 .. k : pos[i] = p
        /\ DOMAIN list = 1 .. k
        /\ \A i \in 1 .. k : list[i][1] = columns[pos[i]] /\ list[i][2] = sorters[columns[pos[i]]]
  BY DEF Lists
<1>2. PICK pos \in [1 .. k -> set] :
        /\ \A i, j \in 1 .. k : i < j => pos[i] < pos[j]
        /\ \A p \in set : \E i \in 1 .. k : pos[i] = p
        /\ DOMAIN list = 1 .. k
        /\ \A i \in 1 .. k : list[i][1] = columns[pos[i]] /\ list[i][2] = sorters[columns[pos[i]]]
  BY <1>1
<1>3. ASSUME NEW i \in 1 .. k
      PROVE  (\A j \in 1 .. i - 1 : r[list[j][1]] = q[list[j][1]]) <=>
             (\A o \in set : o < pos[i] => r[columns[o]] = q[columns[o]])
  <2>1. ASSUME NEW j \in 1 .. i - 1
        PROVE  j \in 1 .. k /\ pos[j] \in set /\ pos[j] < pos[i]
    BY <1>2, <1>3
  <2>2. ASSUME NEW o \in set, o < pos[i]
        PROVE  \E j \in 1 .. i - 1 : pos[j] = o
    <3>1. PICK j \in 1 .. k : pos[j] = o
      BY <1>2
    <3>A. pos[i] \in Nat /\ pos[j] \in Nat
      OBVIOUS
    <3>2. i \in Nat /\ j \in Nat
      OBVIOUS
    <3>3. j # i
      BY <2>2, <3>1, <3>A
    <3>4. i < j => pos[i] < pos[j]
      BY <1>2
    <3>5. ~(i < j)
      BY <2>2, <3>1, <3>A, <3>4
    <3>6. j \in 1 .. i - 1
      BY <3>2, <3>3, <3>5
    <3> QED BY <3>1, <3>6
  <2>3. \A j \in 1 .. k : list[j][1] = columns[pos[j]]
    BY <1>2
  <2>4. ASSUME \A o \in set : o < pos[i] => r[columns[o]] = q[columns[o]], NEW j \in 1 .. i - 1
        PROVE  r[list[j][1]] = q[list[j][1]]
    <3>1. j \in 1 .. k /\ pos[j] \in set /\ pos[j] < pos[i]
      BY <2>1
    <3>2. r[columns[pos[j]]] = q[columns[pos[j]]]
      BY <2>4, <3>1
    <3> QED BY <2>3, <3>1, <3>2
  <2>5. ASSUME \A j \in 1 .. i - 1 : r[list[j][1]] = q[list[j][1]], NEW o \in set, o < pos[i]
        PROVE  r[columns[o]] = q[columns[o]]
    <3>1. PICK j \in 1 .. i - 1 : pos[j] = o
      BY <2>2, <2>5
    <3>2. list[j][1] = columns[o]
      BY <2>1, <2>3, <3>1
    <3> QED BY <2>5, <3>2
  <2> QED BY <2>4, <2>5, Zenon
<1>4. \A i \in 1 .. k :
         Ahead(list[i][2], r[list[i][1]], q[list[i][1]]) <=>
         Ahead(sorters[columns[pos[i]]], r[columns[pos[i]]], q[columns[pos[i]]])
  <2>1. \A i \in 1 .. k : list[i][1] = columns[pos[i]] /\ list[i][2] = sorters[columns[pos[i]]]
    BY <1>2
  <2> QED BY <2>1
<1>A. Before(list, r, q) <=>
         \E i \in DOMAIN list : /\ \A j \in 1 .. i - 1 : r[list[j][1]] = q[list[j][1]]
                                /\ Ahead(list[i][2], r[list[i][1]], q[list[i][1]])
  BY DEF Before
<1>5. Before(list, r, q) <=>
         \E i \in 1 .. k : /\ \A o \in set : o < pos[i] => r[columns[o]] = q[columns[o]]
                           /\ Ahead(sorters[columns[pos[i]]], r[columns[pos[i]]], q[columns[pos[i]]])
  <2>1. DOMAIN list = 1 .. k
    BY <1>2
  <2> QED BY <1>3, <1>4, <1>A, <2>1, Zenon
<1>6. Ranked(columns, sorters, set, r, q) <=>
         \E i \in 1 .. k : /\ \A o \in set : o < pos[i] => r[columns[o]] = q[columns[o]]
                           /\ Ahead(sorters[columns[pos[i]]], r[columns[pos[i]]], q[columns[pos[i]]])
  BY <1>2 DEF Ranked
<1> QED BY <1>5, <1>6

\* The positions of the columns that a sort model sets.
SetColumns(columns, sorters) ==
    {i \in DOMAIN columns : columns[i] \in DOMAIN sorters /\ sorters[columns[i]] # None}

\* generate_params lists just these columns, each once and in the order of declaration.
LEMMA ParamsListed ==
    ASSUME NEW columns, NEW n \in Nat, DOMAIN columns = 1 .. n, NEW sorters
    PROVE  Lists(GenerateParams(columns, sorters), columns, sorters, SetColumns(columns, sorters))
<1> DEFINE S == SetColumns(columns, sorters)
           upTo(i) == {j \in S : j <= i}
           k == Cardinality(S)
           rank == [i \in S |-> Cardinality(upTo(i))]
           nth(m) == CHOOSE i \in S : Cardinality(upTo(i)) = m
           pos == [m \in 1 .. k |-> nth(m)]
           list == GenerateParams(columns, sorters)
<1>1. list = [m \in 1 .. k |-> <<columns[nth(m)], sorters[columns[nth(m)]]>>]
  BY DEF GenerateParams, SetColumns
<1>2. S \in SUBSET (1 .. n) /\ IsFiniteSet(S) /\ k \in Nat
  <2>1. S \in SUBSET (1 .. n)
    BY DEF SetColumns
  <2>2. IsFiniteSet(S)
    BY <2>1, FS_Interval, FS_Subset
  <2> QED BY <2>1, <2>2, FS_CardinalityType
<1> HIDE DEF S, list
<1>3. ASSUME NEW i \in S
      PROVE  IsFiniteSet(upTo(i)) /\ Cardinality(upTo(i)) \in 1 .. k
  <2>1. upTo(i) \in SUBSET S /\ i \in upTo(i)
    BY <1>2
  <2> HIDE DEF upTo
  <2>2. IsFiniteSet(upTo(i)) /\ Cardinality(upTo(i)) <= k /\ Cardinality(upTo(i)) \in Nat
    BY <1>2, <2>1, FS_Subset, FS_CardinalityType
  <2>3. Cardinality(upTo(i)) # 0
    BY <2>1, <2>2, FS_EmptySet
  <2> QED BY <2>2, <2>3
<1>4. ASSUME NEW i \in S, NEW j \in S, i < j
      PROVE  Cardinality(upTo(i)) < Cardinality(upTo(j))
  <2>0. \A o \in S : o \in Nat
    BY <1>2
  <2>1. upTo(i) \in SUBSET upTo(j) /\ j \in upTo(j) /\ j \notin upTo(i)
    BY <1>4, <2>0
  <2> HIDE DEF upTo
  <2>2. /\ Cardinality(upTo(i)) <= Cardinality(upTo(j))
        /\ Cardinality(upTo(i)) # Cardinality(upTo(j))
    BY <1>3, <2>1, FS_Subset
  <2> QED BY <1>3, <2>2
<1>5. rank \in Injection(S, 1 .. k)
  <2>1. rank \in [S -> 1 .. k]
    BY <1>3
  <2>2. ASSUME NEW i \in S, NEW j \in S, rank[i] = rank[j]
        PROVE  i = j
    <3> HIDE DEF upTo
    <3>1. rank[i] = Cardinality(upTo(i)) /\ rank[j] = Cardinality(upTo(j))
      OBVIOUS
    <3>2. i \in Nat /\ j \in Nat
      BY <1>2
    <3>3. Cardinality(upTo(i)) \in Nat /\ Cardinality(upTo(j)) \in Nat
      BY <1>3
    <3>4. ~(i < j) /\ ~(j < i)
      BY <1>4, <2>2, <3>1, <3>3
    <3> QED BY <3>2, <3>4
  <2> HIDE DEF rank
  <2> QED BY <2>1, <2>2 DEF Injection, IsInjective
<1>6. rank \in Surjection(S, 1 .. k)
  <2>1. IsFiniteSet(1 .. k) /\ Cardinality(1 .. k) = k
    BY <1>2, FS_Interval
  <2> HIDE DEF rank
  <2> QED BY <1>5, <2>1, FS_Injection
<1>7. ASSUME NEW m \in 1 .. k
      PROVE  nth(m) \in S /\ Cardinality(upTo(nth(m))) = m
  <2>1. \E i \in S : rank[i] = m
    <3> HIDE DEF rank
    <3> QED BY <1>6 DEF Surjection
  <2>2. \E i \in S : Cardinality(upTo(i)) = m
    BY <2>1
  <2> HIDE DEF upTo
  <2> QED BY <2>2
<1> HIDE DEF nth
<1>8. ASSUME NEW i \in 1 .. k, NEW j \in 1 .. k, i < j
      PROVE  nth(i) < nth(j)
  <2>0. nth(i) \in S /\ nth(j) \in S
    BY <1>7
  <2>A. \A o \in S : o \in Nat
    BY <1>2
  <2>1. nth(i) \in S /\ nth(j) \in S /\ nth(i) \in Nat /\ nth(j) \in Nat
    BY <2>0, <2>A
  <2>2. ~(nth(j) < nth(i)) /\ nth(i) # nth(j)
    <3> HIDE DEF upTo
    <3> QED BY <1>4, <1>7, <1>8, <2>1
  <2> QED BY <2>1, <2>2
<1>9. ASSUME NEW p \in S
      PROVE  \E i \in 1 .. k : nth(i) = p
  <2>1. Cardinality(upTo(p)) \in 1 .. k
    BY <1>3
  <2>2. /\ nth(Cardinality(upTo(p))) \in S
        /\ Cardinality(upTo(nth(Cardinality(upTo(p))))) = Cardinality(upTo(p))
    BY <1>7, <2>1
  <2>3. PICK i \in S : i = nth(Cardinality(upTo(p))) /\ Cardinality(upTo(i)) = Cardinality(upTo(p))
    BY <2>2
  <2>4. i = p
    <3> HIDE DEF upTo
    <3>1. rank[i] = rank[p]
      BY <2>3
    <3> HIDE DEF rank
    <3> QED BY <1>5, <3>1 DEF Injection, IsInjective
  <2> QED BY <2>1, <2>3, <2>4
<1>10. pos \in [1 .. k -> S]
  BY <1>7
<1>11. Lists(list, columns, sorters, S)
  <2>1. \A i, j \in 1 .. k : i < j => pos[i] < pos[j]
    BY <1>8
  <2>2. \A p \in S : \E i \in 1 .. k : pos[i] = p
    BY <1>9
  <2>3. DOMAIN list = 1 .. k
    BY <1>1
  <2>4. \A i \in 1 .. k : list[i][1] = columns[pos[i]] /\ list[i][2] = sorters[columns[pos[i]]]
    BY <1>1
  <2> HIDE DEF pos, k
  <2> QED BY <1>2, <1>10, <2>1, <2>2, <2>3, <2>4 DEF Lists
<1> QED BY <1>11 DEF S, list

\* A list of columns, each with its direction.
SortList(sortBy) == \E k \in Nat : /\ DOMAIN sortBy = 1 .. k
                                   /\ \A i \in 1 .. k : sortBy[i][2] \in Directions

\* sort_convertor keeps a direction for every column that is asked for and declared.
LEMMA SortersOf ==
    ASSUME NEW columns, NEW sortBy, SortList(sortBy), NEW c,
           c \in DOMAIN SortConvertor(columns, sortBy)
    PROVE  /\ SortConvertor(columns, sortBy)[c] \in Directions
           /\ \E i \in DOMAIN sortBy : /\ sortBy[i][1] = c
                                       /\ SortConvertor(columns, sortBy)[c] = sortBy[i][2]
<1>2. PICK n \in Nat : DOMAIN sortBy = 1 .. n /\ \A i \in 1 .. n : sortBy[i][2] \in Directions
  BY DEF SortList
<1> DEFINE naming == {i \in DOMAIN sortBy : sortBy[i][1] = c}
           final == CHOOSE i \in DOMAIN sortBy :
                       sortBy[i][1] = c /\ \A j \in DOMAIN sortBy : sortBy[j][1] = c => j <= i
<1>1. /\ SortConvertor(columns, sortBy)[c] = sortBy[final][2]
      /\ \E i \in DOMAIN sortBy : sortBy[i][1] = c
  BY DEF SortConvertor
<1>3. PICK m \in naming : \A j \in naming : j <= m
  <2>1. naming \in SUBSET (1 .. n) /\ naming # {}
    BY <1>1, <1>2
  <2> HIDE DEF naming
  <2> QED BY <1>2, <2>1, LastOf
<1>4. final \in DOMAIN sortBy /\ sortBy[final][1] = c
  BY <1>3
<1> HIDE DEF final
<1>5. sortBy[final][2] \in Directions
  BY <1>2, <1>4
<1> QED BY <1>1, <1>4, <1>5

LEMMA SortersNamed ==
    ASSUME NEW columns, NEW sortBy
    PROVE  DOMAIN SortConvertor(columns, sortBy)
              = {sortBy[i][1] : i \in DOMAIN sortBy} \cap Range(columns)
BY DEF SortConvertor

\* No two columns of a table have the same name, and what its rows have in them can be
\* compared.
LEMMA ColumnsOf ==
    ASSUME NEW t \in Tables
    PROVE  \E n \in Nat :
              /\ DOMAIN Columns(t) = 1 .. n
              /\ \A i, j \in 1 .. n : Columns(t)[i] = Columns(t)[j] => i = j
              /\ \A r \in Rows(t), i \in 1 .. n : r[Columns(t)[i]] \in Int \cup {None}
<1>1. CASE t = "urls"
  <2>1. Columns(t) = <<"id", "target_url", "short_code", "deleted_at">>
    BY <1>1 DEF Columns, UrlColumns
  <2>2. /\ DOMAIN Columns(t) = 1 .. 4
        /\ \A i, j \in 1 .. 4 : Columns(t)[i] = Columns(t)[j] => i = j
    BY <2>1
  <2>3. \A r \in UrlRow : /\ r["id"] \in Int \cup {None}
                          /\ r["target_url"] \in Int \cup {None}
                          /\ r["short_code"] \in Int \cup {None}
                          /\ r["deleted_at"] \in Int \cup {None}
    <3> SUFFICES ASSUME NEW r \in UrlRow
                 PROVE  /\ r.id \in Int \cup {None}
                        /\ r.target_url \in Int \cup {None}
                        /\ r.short_code \in Int \cup {None}
                        /\ r.deleted_at \in Int \cup {None}
      OBVIOUS
    <3>1. r.id \in Nat /\ r.target_url \in Targets /\ r.short_code \in Nat /\ r.deleted_at \in {None, 1}
      BY DEF UrlRow
    <3>2. /\ \A x \in Nat : x \in Int \cup {None}
          /\ \A x \in Targets \cup Times : x \in Int \cup {None}
          /\ \A x \in {None, 1} : x \in Int \cup {None}
      BY ValuesAssumption
    <3> QED BY <3>1, <3>2
  <2>4. \A r \in UrlRow, i \in 1 .. 4 : r[Columns(t)[i]] \in Int \cup {None}
    BY <2>1, <2>3
  <2> QED BY <1>1, <2>2, <2>4 DEF Rows
<1>2. CASE t # "urls"
  <2>1. Columns(t) = <<"id", "url_id", "access_time">>
    BY <1>2 DEF Columns, UrlStatsColumns
  <2>2. /\ DOMAIN Columns(t) = 1 .. 3
        /\ \A i, j \in 1 .. 3 : Columns(t)[i] = Columns(t)[j] => i = j
    BY <2>1
  <2>3. \A r \in ClickRow : /\ r["id"] \in Int \cup {None}
                            /\ r["url_id"] \in Int \cup {None}
                            /\ r["access_time"] \in Int \cup {None}
    <3> SUFFICES ASSUME NEW r \in ClickRow
                 PROVE  /\ r.id \in Int \cup {None}
                        /\ r.url_id \in Int \cup {None}
                        /\ r.access_time \in Int \cup {None}
      OBVIOUS
    <3>1. r.id \in Nat /\ r.url_id \in Nat /\ r.access_time \in Times
      BY DEF ClickRow
    <3>2. /\ \A x \in Nat : x \in Int \cup {None}
          /\ \A x \in Targets \cup Times : x \in Int \cup {None}
          /\ \A x \in {None, 1} : x \in Int \cup {None}
      BY ValuesAssumption
    <3> QED BY <3>1, <3>2
  <2>4. \A r \in ClickRow, i \in 1 .. 3 : r[Columns(t)[i]] \in Int \cup {None}
    BY <2>1, <2>3
  <2> QED BY <1>2, <2>2, <2>4 DEF Rows
<1> QED BY <1>1, <1>2

\* A sort list in the order of declaration is what the query sorts by.
LEMMA DeclaredOrderListed ==
    ASSUME NEW columns, NEW n \in Nat, DOMAIN columns = 1 .. n,
           \A i, j \in 1 .. n : columns[i] = columns[j] => i = j,
           NEW sortBy, SortList(sortBy), InDeclaredOrder(columns, sortBy)
    PROVE  Lists(sortBy, columns, SortConvertor(columns, sortBy),
                 SetColumns(columns, SortConvertor(columns, sortBy)))
<1>1. PICK k \in Nat : DOMAIN sortBy = 1 .. k
  BY DEF SortList
<1> DEFINE sorters == SortConvertor(columns, sortBy)
           set == SetColumns(columns, sorters)
           pos == [i \in 1 .. k |-> CHOOSE m \in 1 .. n : columns[m] = sortBy[i][1]]
<1>2. DOMAIN sorters = {sortBy[i][1] : i \in 1 .. k} \cap Range(columns)
  BY <1>1, SortersNamed
<1>3. \A c \in DOMAIN sorters : /\ sorters[c] \in Directions
                                /\ \E i \in 1 .. k : sortBy[i][1] = c /\ sorters[c] = sortBy[i][2]
  <2> SUFFICES ASSUME NEW c, c \in DOMAIN SortConvertor(columns, sortBy)
               PROVE  /\ sorters[c] \in Directions
                      /\ \E i \in DOMAIN sortBy : sortBy[i][1] = c /\ sorters[c] = sortBy[i][2]
    BY <1>1
  <2>1. /\ SortConvertor(columns, sortBy)[c] \in Directions
        /\ \E i \in DOMAIN sortBy : /\ sortBy[i][1] = c
                                    /\ SortConvertor(columns, sortBy)[c] = sortBy[i][2]
    BY SortersOf
  <2> QED BY <2>1, Zenon
<1> HIDE DEF sorters
<1>4. Range(columns) = {columns[m] : m \in 1 .. n}
  BY DEF Range
<1>5. \A i \in 1 .. k : sortBy[i][1] \in {columns[m] : m \in 1 .. n}
  BY <1>1, <1>4 DEF InDeclaredOrder
<1>6. ASSUME NEW i \in 1 .. k
      PROVE  pos[i] \in 1 .. n /\ columns[pos[i]] = sortBy[i][1]
  BY <1>5
<1>7. \A i, j \in 1 .. k : i < j => pos[i] < pos[j]
  <2> HIDE DEF pos
  <2>1. \A i, j \in DOMAIN sortBy : \E m, o \in DOMAIN columns :
           sortBy[i][1] = columns[m] /\ sortBy[j][1] = columns[o] /\ (i < j => m < o)
    BY Zenon DEF InDeclaredOrder
  <2>2. ASSUME NEW i \in 1 .. k, NEW j \in 1 .. k, NEW m \in 1 .. n, NEW o \in 1 .. n,
               sortBy[i][1] = columns[m], sortBy[j][1] = columns[o]
        PROVE  pos[i] = m /\ pos[j] = o
    BY <1>6, <2>2
  <2>3. ASSUME NEW i \in 1 .. k, NEW j \in 1 .. k, i < j
        PROVE  pos[i] < pos[j]
    <3>1. i \in DOMAIN sortBy /\ j \in DOMAIN sortBy
      BY <1>1
    <3>2. PICK m \in DOMAIN columns : \E o \in DOMAIN columns :
             sortBy[i][1] = columns[m] /\ sortBy[j][1] = columns[o] /\ (i < j => m < o)
      BY <2>1, <3>1, Zenon
    <3>3. PICK o \in DOMAIN columns :
             sortBy[i][1] = columns[m] /\ sortBy[j][1] = columns[o] /\ (i < j => m < o)
      BY <3>2
    <3>4. m < o
      BY <2>3, <3>3, Zenon
    <3>5. pos[i] = m /\ pos[j] = o
      BY <2>2, <3>3
    <3> QED BY <3>4, <3>5
  <2> QED BY <2>3
<1> HIDE DEF pos
<1>8. ASSUME NEW i \in 1 .. k
      PROVE  sorters[columns[pos[i]]] = sortBy[i][2] /\ pos[i] \in set
  <2>1. columns[pos[i]] \in DOMAIN sorters
    BY <1>2, <1>4, <1>6
  <2>2. PICK j \in 1 .. k : /\ sortBy[j][1] = columns[pos[i]]
                            /\ sorters[columns[pos[i]]] = sortBy[j][2]
    BY <1>3, <2>1
  <2>3. pos[j] = pos[i]
    BY <1>6, <2>2
  <2>4. i = j
    <3>1. ~(i < j) /\ ~(j < i)
      BY <1>6, <1>7, <2>3
    <3> QED BY <1>1, <3>1
  <2>5. sorters[columns[pos[i]]] # None
    BY <1>3, <2>1, SortsAssumption
  <2> QED BY <1>6, <2>1, <2>2, <2>4, <2>5 DEF SetColumns
<1>9. ASSUME NEW p \in set
      PROVE  \E i \in 1 .. k : pos[i] = p
  <2>1. p \in 1 .. n /\ columns[p] \in DOMAIN sorters
    BY DEF SetColumns
  <2>2. PICK i \in 1 .. k : sortBy[i][1] = columns[p]
    BY <1>3, <2>1
  <2> QED BY <1>6, <2>1, <2>2
<1>10. pos \in [1 .. k -> set]
  BY <1>8 DEF pos
<1>11. \A i \in 1 .. k : sortBy[i][1] = columns[pos[i]] /\ sortBy[i][2] = sorters[columns[pos[i]]]
  BY <1>6, <1>8
<1> HIDE DEF set
<1>12. DOMAIN sortBy = 1 .. k /\ k \in Nat
  BY <1>1
<1>13. Lists(sortBy, columns, sorters, set)
  BY <1>7, <1>9, <1>10, <1>11, <1>12 DEF Lists
<1> QED BY <1>13 DEF set, sorters

-----------------------------------------------------------------------------
(***************************************************************************)
(* Sorted rows and their pages.                                            *)
(***************************************************************************)

\* s has every row at one of its n places.
Sequence(s, n, rows) == /\ s \in [1 .. n -> rows]
                        /\ \A i, j \in 1 .. n : i # j => s[i] # s[j]
                        /\ \A r \in rows : \E i \in 1 .. n : s[i] = r

LEMMA OrderedSequences ==
    ASSUME NEW rows, IsFiniteSet(rows), NEW list, NEW s \in Ordered(rows, list),
           NEW n, n = Cardinality(rows)
    PROVE  /\ n \in Nat /\ Sequence(s, n, rows)
           /\ \A i, j \in 1 .. n : i < j => ~Before(list, s[j], s[i])
<1>1. n \in Nat
  BY FS_CardinalityType
<1>2. s \in [1 .. n -> rows] /\ \A i, j \in 1 .. n : i # j => s[i] # s[j]
  BY DEF Ordered, SetToSeqs
<1>3. \A r \in rows : \E i \in 1 .. n : s[i] = r
  <2>1. s \in Injection(1 .. n, rows)
    BY <1>2 DEF Injection, IsInjective
  <2>2. Cardinality(1 .. n) = n
    BY <1>1, FS_Interval
  <2>3. s \in Surjection(1 .. n, rows)
    BY <2>1, <2>2, FS_Injection
  <2> QED BY <2>3 DEF Surjection
<1>4. \A i, j \in 1 .. n : i < j => ~Before(list, s[j], s[i])
  <2>1. DOMAIN s = 1 .. n
    BY <1>2
  <2>2. \A i, j \in DOMAIN s : i < j => ~Before(list, s[j], s[i])
    BY Zenon DEF Ordered
  <2> QED BY <2>1, <2>2
<1> QED BY <1>1, <1>2, <1>3, <1>4 DEF Sequence

\* How many rows come before page p.
Start(p) == (p - 1) * PerPage

LEMMA StartOf ==
    /\ PerPage \in Nat \ {0}
    /\ \A p \in Nat \ {0} : /\ Start(p) \in Nat /\ Start(p + 1) = Start(p) + PerPage
                            /\ p * PerPage = Start(p) + PerPage
                            /\ p * PerPage \in Nat
    /\ Start(1) = 0
<1>1. PICK q \in Nat \ {0} : q = PerPage
  BY BoundsAssumption
<1>2. ASSUME NEW p \in Nat \ {0}
      PROVE  /\ (p - 1) * q \in Nat /\ (p + 1 - 1) * q = (p - 1) * q + q
             /\ p * q = (p - 1) * q + q /\ p * q \in Nat
  <2>1. PICK o \in Nat : p = o + 1
    <3> p - 1 \in Nat /\ p = (p - 1) + 1
      OBVIOUS
    <3> QED OBVIOUS
  <2>2. (o + 1) * q = o * q + q /\ o * q \in Nat /\ o + 1 - 1 = o
    OBVIOUS
  <2>3. (p - 1) * q = o * q /\ p * q = o * q + q /\ (p + 1 - 1) * q = p * q
    BY <2>1, <2>2
  <2> QED BY <2>2, <2>3
<1>3. (1 - 1) * q = 0
  OBVIOUS
<1> QED BY <1>1, <1>2, <1>3 DEF Start

\* page is what s has, up to n, after its first start places.
Cut(page, s, n, start) ==
    \E l \in Nat : /\ DOMAIN page = 1 .. l /\ Len(page) = l
                   /\ l <= PerPage
                   /\ l = PerPage \/ n <= start + l
                   /\ \A i \in 1 .. l : start + i \in 1 .. n /\ page[i] = s[start + i]

\* Page p shows the rows after the p - 1 pages before it.
LEMMA PagePlaces ==
    ASSUME NEW S, NEW n \in Nat, NEW s \in [1 .. n -> S],
           NEW p \in Nat \ {0}
    PROVE  Cut(Page(s, p, PerPage), s, n, Start(p))
<1>A. PICK perPage \in Nat \ {0} : perPage = PerPage
  BY BoundsAssumption
<1>B. PICK start \in Nat : start = Start(p)
  BY StartOf
<1>1. PICK end \in Nat : end = p * PerPage /\ end = start + perPage
  BY <1>A, <1>B, StartOf
<1>2. s \in Seq(S) /\ Len(s) = n
  OBVIOUS
<1>3. PICK last \in Nat : last = IF end < n THEN end ELSE n
  OBVIOUS
<1>4. Page(s, p, PerPage) = SubSeq(s, start + 1, last)
  BY <1>1, <1>2, <1>3, <1>B DEF Page, Start
<1>5. last <= n /\ last <= start + perPage /\ (last = start + perPage \/ last = n)
  BY <1>1, <1>3
<1>6. PICK l \in Nat : l = IF start + 1 <= last THEN last - (start + 1) + 1 ELSE 0
  <2>1. start + 1 <= last => last - (start + 1) + 1 \in Nat
    OBVIOUS
  <2>2. (IF start + 1 <= last THEN last - (start + 1) + 1 ELSE 0) \in Nat
    BY <2>1
  <2> QED BY <2>2
<1>7. /\ SubSeq(s, start + 1, last) \in Seq(S)
      /\ Len(SubSeq(s, start + 1, last)) = l
      /\ \A i \in 1 .. l : SubSeq(s, start + 1, last)[i] = s[start + i]
  <2>1. \A i \in start + 1 .. last : s[i] \in S
    BY <1>5
  <2>2. /\ SubSeq(s, start + 1, last) \in Seq(S)
        /\ Len(SubSeq(s, start + 1, last))
              = IF start + 1 <= last THEN last - (start + 1) + 1 ELSE 0
        /\ \A i \in 1 .. last - (start + 1) + 1 :
              SubSeq(s, start + 1, last)[i] = s[start + 1 + i - 1]
    BY <2>1, SubSeqProperties
  <2>3. \A i \in 1 .. l : i \in 1 .. last - (start + 1) + 1 /\ start + 1 + i - 1 = start + i
    BY <1>6
  <2>4. \A i \in 1 .. l : SubSeq(s, start + 1, last)[i] = s[start + i]
    BY <2>2, <2>3
  <2> QED BY <1>6, <2>2, <2>4
<1>8. l <= perPage /\ (l = perPage \/ n <= start + l) /\ \A i \in 1 .. l : start + i \in 1 .. n
  BY <1>5, <1>6
<1>9. PICK page : page = SubSeq(s, start + 1, last)
  OBVIOUS
<1>10. DOMAIN page = 1 .. l /\ Len(page) = l
  BY <1>7, <1>9
<1>11. \A i \in 1 .. l : page[i] = s[start + i]
  BY <1>7, <1>9
<1>12. l <= PerPage /\ (l = PerPage \/ n <= start + l) /\ \A i \in 1 .. l : start + i \in 1 .. n
  BY <1>8, <1>A
<1>13. Cut(page, s, n, start)
  BY <1>10, <1>11, <1>12 DEF Cut
<1> QED BY <1>4, <1>9, <1>13, <1>B

RowsBefore(rows, list, r) == {q \in rows : Before(list, q, r)}
RowsUpTo(rows, list, r) == {q \in rows : ~Before(list, r, q)}

\* So many rows come before the one at place m of a sorted sequence, and so many not after.
LEMMA PlacesCounted ==
    ASSUME NEW rows, IsFiniteSet(rows), NEW list, NEW n \in Nat, NEW s, Sequence(s, n, rows),
           \A i, j \in 1 .. n : i < j => ~Before(list, s[j], s[i]),
           \A r \in rows : ~Before(list, r, r),
           NEW m \in 1 .. n
    PROVE  /\ Cardinality(RowsBefore(rows, list, s[m])) \in Nat
           /\ Cardinality(RowsBefore(rows, list, s[m])) <= m - 1
           /\ Cardinality(RowsUpTo(rows, list, s[m])) >= m
           /\ (\A r, q \in rows : r # q => Before(list, r, q) \/ Before(list, q, r))
                 => Cardinality(RowsBefore(rows, list, s[m])) >= m - 1
<1> USE DEF RowsBefore, RowsUpTo
<1> DEFINE before == RowsBefore(rows, list, s[m])
           upTo == RowsUpTo(rows, list, s[m])
           first(k) == {s[i] : i \in 1 .. k}
<1>1. /\ s \in [1 .. n -> rows] /\ \A i, j \in 1 .. n : i # j => s[i] # s[j]
      /\ \A r \in rows : \E i \in 1 .. n : s[i] = r
  BY DEF Sequence
<1>2. ASSUME NEW k \in 0 .. n
      PROVE  IsFiniteSet(first(k)) /\ Cardinality(first(k)) = k
  <2> DEFINE f == [i \in 1 .. k |-> s[i]]
  <2>1. f \in [1 .. k -> rows]
    BY <1>1
  <2>2. \A i, j \in 1 .. k : i # j => f[i] # f[j]
    BY <1>1
  <2>3. first(k) = {f[i] : i \in 1 .. k}
    OBVIOUS
  <2> HIDE DEF f, first
  <2>4. k \in Nat
    OBVIOUS
  <2> QED BY <2>1, <2>2, <2>3, <2>4, CountOfImage
<1>3. IsFiniteSet(before) /\ IsFiniteSet(upTo)
  BY FS_Subset
<1>4. \A i \in 1 .. n : s[i] \in before => i \in 1 .. m - 1
  <2> SUFFICES ASSUME NEW i \in 1 .. n, Before(list, s[i], s[m])
               PROVE  i \in 1 .. m - 1
    OBVIOUS
  <2>1. ~(m < i)
    OBVIOUS
  <2>2. i # m
    BY <1>1
  <2> QED BY <2>1, <2>2
<1>5. before \subseteq first(m - 1)
  <2> SUFFICES ASSUME NEW q \in before
               PROVE  q \in first(m - 1)
    OBVIOUS
  <2>1. PICK i \in 1 .. n : s[i] = q
    BY <1>1
  <2>2. i \in 1 .. m - 1
    BY <1>4, <2>1
  <2> QED BY <2>1, <2>2
<1>6. first(m) \subseteq upTo
  <2> SUFFICES ASSUME NEW i \in 1 .. m
               PROVE  s[i] \in rows /\ ~Before(list, s[m], s[i])
    OBVIOUS
  <2>1. i \in 1 .. n /\ s[i] \in rows
    BY <1>1
  <2>2. CASE i = m
    BY <2>1, <2>2
  <2>3. CASE i # m
    <3>1. i < m
      BY <2>3
    <3> QED BY <2>1, <3>1
  <2> QED BY <2>2, <2>3
<1>7. ASSUME \A r, q \in rows : r # q => Before(list, r, q) \/ Before(list, q, r)
      PROVE  first(m - 1) \subseteq before
  <2> SUFFICES ASSUME NEW i \in 1 .. m - 1
               PROVE  s[i] \in rows /\ Before(list, s[i], s[m])
    OBVIOUS
  <2>1. i \in 1 .. n /\ i # m /\ i < m
    OBVIOUS
  <2>2. s[i] \in rows /\ s[m] \in rows /\ s[i] # s[m]
    BY <1>1, <2>1
  <2>3. ~Before(list, s[m], s[i])
    BY <2>1
  <2> QED BY <1>7, <2>2, <2>3
<1>8. m - 1 \in 0 .. n /\ m \in 0 .. n
  OBVIOUS
<1> HIDE DEF before, upTo, first
<1>9. Cardinality(before) \in Nat /\ Cardinality(before) <= m - 1
  <2>1. IsFiniteSet(first(m - 1)) /\ Cardinality(first(m - 1)) = m - 1
    BY <1>2, <1>8
  <2> QED BY <1>3, <1>5, <2>1, FS_Subset, FS_CardinalityType
<1>10. Cardinality(upTo) >= m
  <2>1. Cardinality(first(m)) = m
    BY <1>2, <1>8
  <2>2. Cardinality(first(m)) <= Cardinality(upTo)
    BY <1>3, <1>6, FS_Subset
  <2>3. Cardinality(upTo) \in Nat
    BY <1>3, FS_CardinalityType
  <2> QED BY <2>1, <2>2, <2>3
<1>11. ASSUME \A r, q \in rows : r # q => Before(list, r, q) \/ Before(list, q, r)
       PROVE  Cardinality(before) >= m - 1
  <2>1. Cardinality(first(m - 1)) = m - 1
    BY <1>2, <1>8
  <2>2. Cardinality(first(m - 1)) <= Cardinality(before)
    BY <1>3, <1>7, <1>11, FS_Subset
  <2> QED BY <1>9, <2>1, <2>2
<1> QED BY <1>9, <1>10, <1>11 DEF before, upTo

\* What a listing of table t sorts by when it is asked for sortBy.
Params(t, sortBy) == GenerateParams(Columns(t), SortConvertor(Columns(t), sortBy))

LEMMA LargerOrder ==
    \A a, b \in Int \cup {None} : ~Larger(a, a) /\ (a # b => Larger(a, b) \/ Larger(b, a))
BY DEF Larger

\* No row comes before itself.
LEMMA NotBeforeItself ==
    ASSUME NEW t \in Tables, NEW sortBy, NEW r \in Rows(t)
    PROVE  ~Before(Params(t, sortBy), r, r)
<1> DEFINE sorters == SortConvertor(Columns(t), sortBy)
           set == SetColumns(Columns(t), sorters)
<1>1. PICK n \in Nat : /\ DOMAIN Columns(t) = 1 .. n
                       /\ \A i \in 1 .. n : r[Columns(t)[i]] \in Int \cup {None}
  BY ColumnsOf
<1>2. set \in SUBSET (1 .. n)
  BY <1>1 DEF SetColumns
<1> HIDE DEF sorters
<1>3. Lists(Params(t, sortBy), Columns(t), sorters, set)
  <2>1. Lists(GenerateParams(Columns(t), sorters), Columns(t), sorters, set)
    BY <1>1, ParamsListed
  <2> QED BY <2>1 DEF Params, sorters
<1> HIDE DEF set
<1>4. ~Ranked(Columns(t), sorters, set, r, r)
  <2>1. \A p \in set : ~Larger(r[Columns(t)[p]], r[Columns(t)[p]])
    BY <1>1, <1>2, LargerOrder
  <2> QED BY <2>1, Zenon DEF Ranked, Ahead
<1>5. set \in SUBSET Nat
  BY <1>2
<1> QED BY <1>3, <1>4, <1>5, BeforeByColumns

PagePlaced(rows, sortBy, columns, start, page) ==
    /\ Range(page) \subseteq rows
    /\ Len(page) = Cardinality(Range(page))
    /\ Len(page) = PerPage \/ Cardinality(rows) <= start + Len(page)
    /\ InDeclaredOrder(columns, sortBy) =>
          \A i \in DOMAIN page :
             /\ Cardinality(RowsBefore(rows, sortBy, page[i])) < start + i
             /\ start + i <= Cardinality(RowsUpTo(rows, sortBy, page[i]))

\* A page is as asked: of the rows, none twice, as long as they allow, and each where it
\* belongs if the columns are asked for in the order of their declaration.
LEMMA PageOfList ==
    ASSUME NEW t \in Tables, NEW rows \in SUBSET Rows(t), IsFiniteSet(rows),
           NEW sortBy, SortList(sortBy), NEW p \in Nat \ {0},
           NEW s \in Ordered(rows, Params(t, sortBy))
    PROVE  PagePlaced(rows, sortBy, Columns(t), Start(p), Page(s, p, PerPage))
<1> DEFINE params == Params(t, sortBy)
<1>C. PICK page : page = Page(s, p, PerPage)
  OBVIOUS
<1>D. PICK start : start = Start(p)
  OBVIOUS
<1>A. start \in Nat
  BY <1>D, StartOf
<1>1. PICK n \in Nat : /\ n = Cardinality(rows) /\ Sequence(s, n, rows)
                       /\ \A i, j \in 1 .. n : i < j => ~Before(params, s[j], s[i])
  BY OrderedSequences
<1>2. /\ s \in [1 .. n -> rows] /\ \A i, j \in 1 .. n : i # j => s[i] # s[j]
  BY <1>1 DEF Sequence
<1>B. Cut(page, s, n, start)
  <2>1. Cut(Page(s, p, PerPage), s, n, Start(p))
    BY <1>2, PagePlaces
  <2> QED BY <2>1, <1>C, <1>D
<1>3. PICK l \in Nat : /\ DOMAIN page = 1 .. l /\ Len(page) = l
                       /\ l <= PerPage
                       /\ l = PerPage \/ n <= start + l
                       /\ \A i \in 1 .. l : start + i \in 1 .. n /\ page[i] = s[start + i]
  BY <1>B DEF Cut
<1>4. [i \in 1 .. l |-> page[i]] \in [1 .. l -> rows]
  BY <1>2, <1>3
<1>5. Range(page) \subseteq rows /\ Len(page) = Cardinality(Range(page))
  <2>1. \A i, j \in 1 .. l : i # j => page[i] # page[j]
    <3> SUFFICES ASSUME NEW i \in 1 .. l, NEW j \in 1 .. l, i # j
                 PROVE  page[i] # page[j]
      OBVIOUS
    <3>1. start + i # start + j
      <4>1. \A x, y \in Int : x # y => start + x # start + y
        BY <1>A
      <4>2. i \in Int /\ j \in Int
        OBVIOUS
      <4> QED BY <4>1, <4>2
    <3>2. start + i \in 1 .. n /\ start + j \in 1 .. n
      BY <1>3
    <3>3. s[start + i] # s[start + j]
      BY <1>2, <3>1, <3>2
    <3> QED BY <1>3, <3>3
  <2>2. PICK f \in [1 .. l -> rows] : \A i \in 1 .. l : f[i] = page[i]
    BY <1>4
  <2>5. \A i, j \in 1 .. l : i # j => f[i] # f[j]
    BY <2>1, <2>2
  <2>3. Cardinality({f[i] : i \in 1 .. l}) = l
    BY <2>5, CountOfImage
  <2>4. Range(page) = {f[i] : i \in 1 .. l}
    BY <1>3, <2>2 DEF Range
  <2> QED BY <1>3, <2>3, <2>4
<1>6. ASSUME InDeclaredOrder(Columns(t), sortBy), NEW i \in 1 .. l
      PROVE  /\ Cardinality(RowsBefore(rows, sortBy, page[i])) < start + i
             /\ start + i <= Cardinality(RowsUpTo(rows, sortBy, page[i]))
  <2>1. \A r, q : Before(params, r, q) <=> Before(sortBy, r, q)
    <3> DEFINE sorters == SortConvertor(Columns(t), sortBy)
               set == SetColumns(Columns(t), sorters)
    <3>1. PICK m \in Nat : /\ DOMAIN Columns(t) = 1 .. m
                           /\ \A j, k \in 1 .. m : Columns(t)[j] = Columns(t)[k] => j = k
      BY ColumnsOf
    <3>2. Lists(params, Columns(t), sorters, set)
      BY <3>1, ParamsListed DEF Params
    <3>3. Lists(sortBy, Columns(t), sorters, set)
      BY <1>6, <3>1, DeclaredOrderListed
    <3>4. set \in SUBSET Nat
      BY <3>1 DEF SetColumns
    <3> HIDE DEF sorters, set, params
    <3> QED BY <3>2, <3>3, <3>4, BeforeByColumns
  <2>2. PICK m \in 1 .. n : m = start + i /\ page[i] = s[m]
    BY <1>3
  <2>3. \A r \in rows : ~Before(params, r, r)
    BY NotBeforeItself
  <2> HIDE DEF params
  <2>4. /\ Cardinality(RowsBefore(rows, params, s[m])) \in Nat
        /\ Cardinality(RowsBefore(rows, params, s[m])) <= m - 1
        /\ Cardinality(RowsUpTo(rows, params, s[m])) >= m
    BY <1>1, <2>3, PlacesCounted
  <2>5. /\ RowsBefore(rows, params, s[m]) = RowsBefore(rows, sortBy, page[i])
        /\ RowsUpTo(rows, params, s[m]) = RowsUpTo(rows, sortBy, page[i])
    BY <2>1, <2>2 DEF RowsBefore, RowsUpTo
  <2>6. PICK before, upTo : /\ before = Cardinality(RowsBefore(rows, sortBy, page[i]))
                            /\ upTo = Cardinality(RowsUpTo(rows, sortBy, page[i]))
    OBVIOUS
  <2>7. before \in Nat /\ before <= m - 1 /\ upTo >= m
    BY <2>4, <2>5, <2>6
  <2>8. m = start + i
    BY <2>2
  <2>9. before < start + i
    BY <2>7, <2>8
  <2>10. upTo >= start + i
    BY <2>7, <2>8
  <2>11. upTo \in Nat
    BY <2>6, FS_Subset, FS_CardinalityType DEF RowsUpTo
  <2>12. start + i <= upTo
    BY <2>10, <2>11
  <2> QED BY <2>6, <2>9, <2>12
<1> HIDE DEF params
<1>7. PagePlaced(rows, sortBy, Columns(t), start, page)
  BY <1>1, <1>3, <1>4, <1>5, <1>6 DEF PagePlaced
<1> QED BY <1>7, <1>C, <1>D

\* The sort lists that listings are asked for.
LEMMA SortLists ==
    SortList(<< >>) /\ SortList(StatsSort) /\ \A sortBy \in Sorts : SortList(sortBy)
<1>1. SortList(<< >>)
  BY DEF SortList
<1>2. SortList(StatsSort)
  <2>1. DOMAIN StatsSort = 1 .. 1 /\ StatsSort[1][2] \in Directions
    BY DEF StatsSort, Directions
  <2> QED BY <2>1 DEF SortList
<1>3. ASSUME NEW sortBy \in Sorts
      PROVE  SortList(sortBy)
  <2>1. sortBy \in Seq(STRING \X Directions)
    BY SortsAssumption
  <2>2. PICK k \in Nat : k = Len(sortBy) /\ DOMAIN sortBy = 1 .. k
    BY <2>1
  <2>3. \A i \in 1 .. k : sortBy[i] \in STRING \X Directions
    BY <2>1, <2>2
  <2>4. \A i \in 1 .. k : sortBy[i][2] \in Directions
    BY <2>3
  <2> QED BY <2>2, <2>4 DEF SortList
<1> QED BY <1>1, <1>2, <1>3

-----------------------------------------------------------------------------
(***************************************************************************)
(* Listings.                                                               *)
(***************************************************************************)

\* The page that is shown is one of those that the table allows.
PageRead == listing'.rows \in GetList(listing'.table, listing'.filter, listing'.sortBy, listing'.page)

\* A listing of the links is opened, its next page is read, or the clicks are listed.
ListOpened == /\ listing'.page = 1 /\ listing'.table = "urls"
              /\ listing'.there = Ids(Matching(db["urls"], listing'.filter))
              /\ listing'.seen = Ids(Range(listing'.rows))
              /\ PageRead

ListTurned == /\ listing.table = "urls" /\ listing'.table = "urls"
              /\ listing'.page = listing.page + 1
              /\ listing'.filter = listing.filter /\ listing'.sortBy = listing.sortBy
              /\ listing'.there = listing.there /\ listing'.complete = listing.complete
              /\ listing'.seen = listing.seen \cup Ids(Range(listing'.rows))
              /\ PageRead

ClicksListed == /\ listing'.page = 1 /\ listing'.table = "url_stats" /\ ~listing'.complete
                /\ PageRead

LEMMA ListEffect ==
    ASSUME TypeInv, SortList(listing.sortBy), Listings
    PROVE  /\ ListOpened \/ ListTurned \/ ClicksListed \/ listing' = Closed
           /\ SortList(listing'.sortBy)
<1>1. /\ DOMAIN listing = {"page", "table", "sortBy", "filter", "rows", "there", "seen", "complete"}
      /\ listing.page \in Nat
  <2>1. DOMAIN listing = DOMAIN Closed /\ listing.page \in Nat
    BY DEF TypeInv, TypeOK
  <2> QED BY <2>1 DEF Closed
<1>2. ASSUME NEW filter \in Filters, NEW sortBy \in Sorts, ListFirst(filter, sortBy)
      PROVE  ListOpened /\ SortList(listing'.sortBy)
  <2>1. PICK rows \in GetList("urls", filter, sortBy, 1) :
          listing' = [page |-> 1, table |-> "urls", sortBy |-> sortBy, filter |-> filter,
                      rows |-> rows, there |-> Ids(Matching(db["urls"], filter)),
                      seen |-> Ids(Range(rows)), complete |-> TRUE]
    BY <1>2, Zenon DEF ListFirst
  <2>2. /\ listing'.page = 1 /\ listing'.table = "urls"
        /\ listing'.sortBy = sortBy /\ listing'.filter = filter /\ listing'.rows = rows
        /\ listing'.there = Ids(Matching(db["urls"], filter)) /\ listing'.seen = Ids(Range(rows))
    BY <2>1
  <2>3. SortList(sortBy)
    BY SortLists
  <2> QED BY <2>1, <2>2, <2>3 DEF ListOpened, PageRead
<1>3. CASE ListNext
  <2>1. PICK rows \in GetList("urls", listing.filter, listing.sortBy, listing.page + 1) :
          listing' = [listing EXCEPT !.page = @ + 1, !.rows = rows,
                                     !.seen = @ \cup Ids(Range(rows))]
    BY <1>3, Zenon DEF ListNext
  <2>2. /\ listing'.page = listing.page + 1 /\ listing'.table = listing.table
        /\ listing'.sortBy = listing.sortBy /\ listing'.filter = listing.filter
        /\ listing'.rows = rows
        /\ listing'.there = listing.there /\ listing'.complete = listing.complete
        /\ listing'.seen = listing.seen \cup Ids(Range(rows))
    BY <1>1, <2>1
  <2>3. listing.table = "urls"
    BY <1>3 DEF ListNext
  <2> QED BY <2>1, <2>2, <2>3 DEF ListTurned, PageRead
<1>4. CASE ListClose
  <2>1. listing' = Closed
    BY <1>4 DEF ListClose
  <2>2. Closed.sortBy = << >>
    BY DEF Closed
  <2> QED BY <2>1, <2>2, SortLists
<1>5. ASSUME NEW code \in scenario.codes, ListStats(code)
      PROVE  ClicksListed /\ SortList(listing'.sortBy)
  <2>1. PICK url : \E rows \in GetList("url_stats", (<<"url_id", "eq">> :> url.id), StatsSort, 1) :
          listing' = [Closed EXCEPT !.page = 1, !.table = "url_stats", !.sortBy = StatsSort,
                                    !.filter = (<<"url_id", "eq">> :> url.id), !.rows = rows]
    BY <1>5, Zenon DEF ListStats
  <2>2. PICK filter : filter = (<<"url_id", "eq">> :> url.id)
    OBVIOUS
  <2>3. PICK rows \in GetList("url_stats", filter, StatsSort, 1) :
          listing' = [Closed EXCEPT !.page = 1, !.table = "url_stats", !.sortBy = StatsSort,
                                    !.filter = filter, !.rows = rows]
    BY <2>1, <2>2
  <2>4. /\ listing'.page = 1 /\ listing'.table = "url_stats" /\ ~listing'.complete
        /\ listing'.sortBy = StatsSort /\ listing'.filter = filter /\ listing'.rows = rows
    BY <2>3 DEF Closed
  <2> QED BY <2>3, <2>4, SortLists DEF ClicksListed, PageRead
<1> QED BY <1>2, <1>3, <1>4, <1>5 DEF Listings

\* No other step opens a listing or turns a page.
LEMMA ListKept ==
    ASSUME TypeInv, [Next]_vars, ~Listings
    PROVE  /\ listing' = listing \/ \E t \in Tables : listing' = ListingWithout(t)
           /\ listing'.page = listing.page /\ listing'.sortBy = listing.sortBy
<1>1. listing' = listing \/ \E t \in Tables : listing' = ListingWithout(t)
  <2>1. \A c \in Clients : Update(c) \/ UpdateMany(c) \/ DeleteClick(c) =>
           listing' = listing \/ \E t \in Tables : listing' = ListingWithout(t)
    <3> SUFFICES ASSUME NEW c \in Clients, Update(c) \/ UpdateMany(c) \/ DeleteClick(c)
                 PROVE  listing' = listing \/ \E t \in Tables : listing' = ListingWithout(t)
      OBVIOUS
    <3>1. CASE DeleteClick(c)
      BY <3>1 DEF DeleteClick
    <3>2. CASE Update(c)
      BY <3>2 DEF Update, ListingWithout, Tables
    <3>3. CASE UpdateMany(c)
      BY <3>3 DEF UpdateMany, ListingWithout, Tables
    <3> QED BY <3>1, <3>2, <3>3
  <2>2. \A code : Delete(code) => listing' = ListingWithout("urls")
    BY DEF Delete
  <2>3. \A code, target : Create(code, target) => listing' = listing
    BY DEF Create
  <2>4. \A id, time : CreateClick(id, time) => listing' = listing
    BY DEF CreateClick
  <2>5. \A c \in Clients : (\/ \E target \in Targets : ReadToRetarget(c, target)
                            \/ \E code \in scenario.codes, now \in {None, 1} : ReadToMark(c, code, now)
                            \/ ReadClick(c)) => listing' = listing
    BY ReadTypes
  <2>6. \A c \in Clients : Forget(c) => listing' = listing
    BY DEF Forget
  <2>7. UNCHANGED vars => listing' = listing
    BY DEF vars
  <2> QED BY Steps, <2>1, <2>2, <2>3, <2>4, <2>5, <2>6, <2>7 DEF Tables
<1>2. DOMAIN listing = DOMAIN Closed
  BY DEF TypeInv, TypeOK
<1> QED BY <1>1, <1>2 DEF ListingWithout, Closed

SortInv == TypeInv /\ SortList(listing.sortBy)

LEMMA SortInvariant == Spec => []SortInv
<1>1. Init => SortInv
  BY TypeInit, SortLists DEF SortInv, Init, Closed
<1>2. TypeInv /\ [Next]_vars => TypeInv'
  BY Steps, CreateTypes, CreateClickTypes, DeleteTypes, UpdateTypes, ReadTypes, IdleTypes
<1>3. ASSUME SortInv, [Next]_vars
      PROVE  SortList(listing'.sortBy)
  BY <1>3, ListEffect, ListKept DEF SortInv
<1>4. SortInv /\ [Next]_vars => SortInv'
  BY <1>2, <1>3 DEF SortInv
<1> QED BY <1>1, <1>4, PTL DEF Spec

\* What a step that shows another page has to show.
PageShown == listing'.page > 0 /\ listing'.page # listing.page =>
    PageAsAsked(Matching(db[listing'.table], listing'.filter), Columns(listing'.table))

\* Filters, sorters and pages show what was asked for, and the stats endpoint a link's
\* oldest clicks: ListingsAsAsked.
THEOREM PagesAsAsked == Spec => ListingsAsAsked
<1>1. ASSUME SortInv, [Next]_vars, listing'.page > 0, listing'.page # listing.page
      PROVE  PageAsAsked(Matching(db[listing'.table], listing'.filter), Columns(listing'.table))
  <2>1. Listings
    BY <1>1, ListKept DEF SortInv
  <2>2. PageRead /\ SortList(listing'.sortBy)
    <3>1. listing' # Closed
      BY <1>1 DEF Closed
    <3> QED BY <1>1, <2>1, <3>1, ListEffect DEF SortInv, ListOpened, ListTurned, ClicksListed
  <2>3. listing'.page \in Nat \ {0} /\ listing'.table \in Tables
    BY <1>1, <2>1, IdleTypes DEF SortInv, TypeInv, TypeOK
  <2>10. PICK t \in Tables, p \in Nat \ {0} : t = listing'.table /\ p = listing'.page
    BY <2>3
  <2>4. PICK sortBy, rows, page :
          /\ t = listing'.table /\ p = listing'.page /\ sortBy = listing'.sortBy
          /\ rows = Matching(db[t], listing'.filter) /\ page = listing'.rows
    BY <2>10
  <2>5. rows \in SUBSET Rows(t) /\ IsFiniteSet(rows)
    <3>1. rows \subseteq db[t]
      BY <2>4, MatchingRows
    <3>2. db[t] \subseteq Rows(t) /\ IsFiniteSet(db[t])
      BY <1>1, RowTypes, TypeParts DEF SortInv, TypeInv, TablesFinite
    <3> QED BY <3>1, <3>2, FS_Subset
  <2>6. PICK s \in Ordered(rows, Params(t, sortBy)) : page = Page(s, p, PerPage)
    BY <2>2, <2>4 DEF PageRead, GetList, Params
  <2>7. SortList(sortBy)
    BY <2>2, <2>4
  <2>8. PagePlaced(rows, sortBy, Columns(t), Start(p), page)
    BY <2>5, <2>6, <2>7, PageOfList
  <2>9. PageAsAsked(rows, Columns(t))
    BY <2>4, <2>8, Zenon DEF PagePlaced, PageAsAsked, RowsBefore, RowsUpTo, Start
  <2> QED BY <2>4, <2>9
<1>2. SortInv /\ [Next]_vars => [PageShown]_listing
  BY <1>1 DEF PageShown
<1>3. Spec => [][PageShown]_listing
  BY <1>2, SortInvariant, PTL DEF Spec
<1> QED BY <1>3 DEF ListingsAsAsked, PageShown

-----------------------------------------------------------------------------
(***************************************************************************)
(* Paging while links are created.                                         *)
(***************************************************************************)

\* A sort list that tells any two links apart.
Telling(sortBy) == \E i \in DOMAIN sortBy : sortBy[i][1] \in {"id", "short_code"}

\* Of two links, such a list puts one before the other.
LEMMA KeyTells ==
    ASSUME NEW sortBy, SortList(sortBy), Telling(sortBy), NEW r \in UrlRow, NEW q \in UrlRow,
           r.id # q.id, r.short_code # q.short_code
    PROVE  Before(Params("urls", sortBy), r, q) \/ Before(Params("urls", sortBy), q, r)
<1> DEFINE columns == Columns("urls")
           sorters == SortConvertor(columns, sortBy)
           set == SetColumns(columns, sorters)
           differ == {p \in set : r[columns[p]] # q[columns[p]]}
<1>1. "urls" \in Tables /\ Rows("urls") = UrlRow
  BY DEF Tables, Rows
<1>2. PICK n \in Nat : /\ DOMAIN columns = 1 .. n
                       /\ \A x \in UrlRow, i \in 1 .. n : x[columns[i]] \in Int \cup {None}
  BY <1>1, ColumnsOf
<1>3. columns = <<"id", "target_url", "short_code", "deleted_at">>
  BY DEF Columns, UrlColumns
<1>4. ASSUME NEW p \in set
      PROVE  /\ p \in 1 .. n /\ sorters[columns[p]] \in {"ASC", "DESC"}
  <2>1. p \in DOMAIN columns /\ columns[p] \in DOMAIN sorters
    BY DEF SetColumns
  <2>2. sorters[columns[p]] \in Directions
    BY <2>1, SortersOf
  <2> QED BY <1>2, <2>1, <2>2 DEF Directions
<1>5. PICK p \in differ : TRUE
  <2>1. PICK i \in DOMAIN sortBy : sortBy[i][1] \in {"id", "short_code"}
    BY DEF Telling
  <2>2. PICK p \in {1, 3} : columns[p] = sortBy[i][1]
    BY <1>3, <2>1
  <2>3. p \in DOMAIN columns /\ columns[p] \in Range(columns)
    BY <1>3, <2>2 DEF Range
  <2>4. columns[p] \in DOMAIN sorters
    <3>1. DOMAIN sorters = {sortBy[j][1] : j \in DOMAIN sortBy} \cap Range(columns)
      BY SortersNamed
    <3>2. columns[p] \in {sortBy[j][1] : j \in DOMAIN sortBy}
      BY <2>2
    <3> HIDE DEF sorters
    <3> QED BY <2>3, <3>1, <3>2
  <2>5. sorters[columns[p]] # None
    <3>1. sorters[columns[p]] \in Directions
      BY <2>4, SortersOf
    <3> QED BY <3>1, SortsAssumption
  <2>6. r[columns[p]] # q[columns[p]]
    BY <2>1, <2>2
  <2> QED BY <2>3, <2>4, <2>5, <2>6 DEF SetColumns
<1>6. differ \in SUBSET Nat /\ differ # {}
  BY <1>4, <1>5
<1> HIDE DEF differ
<1>7. PICK m \in differ : \A j \in differ : m <= j
  BY <1>6, FirstOf
<1> USE DEF differ
<1>8. m \in set /\ r[columns[m]] # q[columns[m]]
  OBVIOUS
<1> HIDE DEF sorters, set
<1>9. \A o \in set : o < m => r[columns[o]] = q[columns[o]]
  <2> SUFFICES ASSUME NEW o \in set, o < m
               PROVE  r[columns[o]] = q[columns[o]]
    OBVIOUS
  <2>1. o \in 1 .. n /\ m \in 1 .. n
    BY <1>4, <1>8
  <2>2. ~(m <= o)
    BY <2>1
  <2> QED BY <1>7, <2>2
<1> HIDE DEF differ, columns
<1>10. PICK a, b : a = r[columns[m]] /\ b = q[columns[m]]
  OBVIOUS
<1>11. Larger(a, b) \/ Larger(b, a)
  <2>1. m \in 1 .. n
    BY <1>4, <1>8
  <2>2. a \in Int \cup {None} /\ b \in Int \cup {None} /\ a # b
    BY <1>2, <1>8, <1>10, <2>1
  <2> QED BY <2>2, LargerOrder
<1>12. Ahead(sorters[columns[m]], a, b) \/ Ahead(sorters[columns[m]], b, a)
  <2>1. sorters[columns[m]] \in {"ASC", "DESC"}
    BY <1>4, <1>8
  <2>2. PICK dir : dir = sorters[columns[m]]
    OBVIOUS
  <2>4. dir = "ASC" \/ dir = "DESC"
    BY <2>1, <2>2
  <2>3. Ahead(dir, a, b) \/ Ahead(dir, b, a)
    BY <1>11, <2>4 DEF Ahead
  <2> QED BY <2>2, <2>3
<1>13. Ranked(columns, sorters, set, r, q) \/ Ranked(columns, sorters, set, q, r)
  BY <1>8, <1>9, <1>10, <1>12, Zenon DEF Ranked
<1>14. Lists(Params("urls", sortBy), columns, sorters, set)
  <2>1. Lists(GenerateParams(columns, sorters), columns, sorters, set)
    BY <1>2, ParamsListed DEF columns, sorters, set
  <2> QED BY <2>1 DEF Params, sorters, columns
<1>15. set \in SUBSET Nat
  BY <1>4
<1> QED BY <1>13, <1>14, <1>15, BeforeByColumns

\* A link after the pages before, which page p does not show, is after page p, too; so
\* an empty page has left none out.
LEMMA PageLeavesOut ==
    ASSUME NEW rows \in SUBSET UrlRow, IsFiniteSet(rows),
           \A r, q \in rows : r.id = q.id \/ r.short_code = q.short_code => r = q,
           NEW sortBy, SortList(sortBy), Telling(sortBy), NEW p \in Nat \ {0},
           NEW s \in Ordered(rows, Params("urls", sortBy)),
           NEW page, page = Page(s, p, PerPage),
           NEW r \in rows, r.id \notin Ids(Range(page)),
           Cardinality(RowsBefore(rows, Params("urls", sortBy), r)) >= Start(p)
    PROVE  /\ Cardinality(RowsBefore(rows, Params("urls", sortBy), r)) >= Start(p + 1)
           /\ page # << >>
<1>1. PICK params : params = Params("urls", sortBy)
  OBVIOUS
<1>2. \A a, b \in rows : a # b => Before(params, a, b) \/ Before(params, b, a)
  BY <1>1, KeyTells
<1>3. \A a \in rows : ~Before(params, a, a)
  <2>1. "urls" \in Tables /\ Rows("urls") = UrlRow
    BY DEF Tables, Rows
  <2> QED BY <1>1, <2>1, NotBeforeItself
<1>4. PICK n \in Nat : /\ Sequence(s, n, rows)
                       /\ \A i, j \in 1 .. n : i < j => ~Before(params, s[j], s[i])
  BY <1>1, OrderedSequences
<1>5. PICK m \in 1 .. n : s[m] = r
  BY <1>4 DEF Sequence
<1>6. PICK before \in Nat : /\ before = Cardinality(RowsBefore(rows, params, r))
                            /\ before = m - 1
  <2>1. PICK before : before = Cardinality(RowsBefore(rows, params, s[m]))
    OBVIOUS
  <2>2. before \in Nat /\ before <= m - 1 /\ before >= m - 1
    BY <1>2, <1>3, <1>4, <2>1, PlacesCounted
  <2>3. before = m - 1
    BY <2>2
  <2> QED BY <1>5, <2>1, <2>2, <2>3
<1>7. PICK start, perPage \in Nat : /\ start = Start(p) /\ perPage = PerPage
                                    /\ perPage # 0 /\ Start(p + 1) = start + perPage
  BY StartOf
<1>8. Cut(page, s, n, start)
  <2>1. s \in [1 .. n -> rows]
    BY <1>4 DEF Sequence
  <2>2. Cut(Page(s, p, PerPage), s, n, Start(p))
    BY <2>1, PagePlaces
  <2> QED BY <1>7, <2>2
<1>9. PICK l \in Nat : /\ DOMAIN page = 1 .. l /\ Len(page) = l
                       /\ l = perPage \/ n <= start + l
                       /\ \A i \in 1 .. l : page[i] = s[start + i]
  BY <1>7, <1>8 DEF Cut
<1>10. start <= m - 1
  BY <1>1, <1>6, <1>7
<1>11. ~(m <= start + l)
  <2> SUFFICES ASSUME m <= start + l
               PROVE  FALSE
    OBVIOUS
  <2>1. PICK i \in 1 .. l : start + i = m
    <3>1. m - start \in 1 .. l /\ start + (m - start) = m
      BY <1>10
    <3> QED BY <3>1
  <2>2. page[i] = r
    BY <1>5, <1>9, <2>1
  <2>3. r \in Range(page)
    BY <1>9, <2>2 DEF Range
  <2> QED BY <2>3 DEF Ids
<1>12. l = perPage
  BY <1>9, <1>11
<1>13. before >= start + perPage
  BY <1>6, <1>11, <1>12
<1>14. page # << >>
  <2>1. 1 \in 1 .. l
    BY <1>7, <1>12
  <2>2. DOMAIN page # {}
    BY <1>9, <2>1
  <2>3. DOMAIN << >> = {}
    OBVIOUS
  <2> QED BY <2>2, <2>3
<1> QED BY <1>1, <1>6, <1>7, <1>13, <1>14

\* The links that the listing of links that is under way looks at, and where it puts one.
Listed == Matching(db["urls"], listing.filter)
Place(r) == Cardinality(RowsBefore(Listed, Params("urls", listing.sortBy), r))

\* As long as nothing is updated or deleted, what was there at the start is still listed;
\* and what was not seen yet comes after the pages that were.
UnseenAhead ==
    listing.complete =>
       /\ listing.page > 0 /\ listing.table = "urls" /\ listing.there \subseteq Ids(Listed)
       /\ Telling(listing.sortBy) =>
             /\ \A r \in Listed : r.id \in listing.there \ listing.seen =>
                   Place(r) >= Start(listing.page + 1)
             /\ listing.rows = << >> => listing.there \subseteq listing.seen

PageInv == StoreInv /\ SortList(listing.sortBy) /\ UnseenAhead

LEMMA ListedRows ==
    ASSUME StoreInv, NEW filter, NEW rows, rows = Matching(db["urls"], filter)
    PROVE  /\ rows \in SUBSET UrlRow /\ IsFiniteSet(rows)
           /\ \A r, q \in rows : r.id = q.id \/ r.short_code = q.short_code => r = q
           /\ \A r \in rows : r.id <= Len(bornAs)
<1>1. "urls" \in Tables
  BY DEF Tables
<1>2. rows \subseteq db["urls"] /\ db["urls"] \subseteq UrlRow /\ IsFiniteSet(db["urls"])
  BY <1>1, MatchingRows, TypeParts DEF StoreInv, TypeInv, TablesFinite, DbOK
<1>3. \A r, q \in db["urls"] : r.id = q.id \/ r.short_code = q.short_code => r = q
  BY <1>1 DEF StoreInv, Consistent
<1>4. \A r \in db["urls"] : r.id <= Len(bornAs)
  <2>1. Len(bornAs) \in Nat
    BY EntityIds
  <2> QED BY <2>1 DEF StoreInv, RowsBorn, Born
<1> QED BY <1>2, <1>3, <1>4, FS_Subset

\* A step that changes neither the links nor the listing.
LEMMA UnseenKept ==
    ASSUME UnseenAhead, db'["urls"] = db["urls"], listing' = listing
    PROVE  UnseenAhead'
<1>1. Listed' = Listed
  BY DEF Listed
<1>2. \A r : Place(r)' = Place(r)
  BY <1>1 DEF Place
<1> QED BY <1>1, <1>2 DEF UnseenAhead

\* A new link comes before some rows, but was not there at the start.
LEMMA CreateUnseen ==
    ASSUME PageInv, NEW code \in scenario.codes, NEW target \in Targets, Create(code, target)
    PROVE  UnseenAhead'
<1>1. StoreInv /\ StoreInv' /\ TypeInv
  BY CreateKeeps DEF PageInv, StoreInv
<1>2. PICK row \in UrlRow : /\ db'["urls"] = db["urls"] \cup {row}
                            /\ row.id = Len(bornAs) + 1 /\ listing' = listing
  BY <1>1, CreateEffect
<1>3. SUFFICES ASSUME listing.complete
               PROVE  /\ listing.there \subseteq Ids(Listed')
                      /\ Telling(listing.sortBy) =>
                           \A r \in Listed' : r.id \in listing.there \ listing.seen =>
                              Place(r)' >= Start(listing.page + 1)
  BY <1>2 DEF PageInv, UnseenAhead
<1>4. Listed \subseteq Listed' /\ \A r \in Listed' : r \in Listed \/ r = row
  BY <1>2 DEF Listed, Matching
<1>5. listing.there \subseteq Ids(Listed)
  BY <1>3 DEF PageInv, UnseenAhead
<1>6. listing.there \subseteq Ids(Listed')
  BY <1>4, <1>5 DEF Ids
<1>7. row.id \notin listing.there
  <2>1. \A r \in Listed : r.id # row.id
    <3>1. \A r \in Listed : r.id <= Len(bornAs) /\ r.id \in Nat
      BY <1>1, ListedRows DEF Listed, UrlRow
    <3>2. Len(bornAs) \in Nat
      BY <1>1, EntityIds
    <3> QED BY <1>2, <3>1, <3>2
  <2> QED BY <1>5, <2>1 DEF Ids
<1>8. ASSUME Telling(listing.sortBy), NEW r \in Listed', r.id \in listing.there \ listing.seen
      PROVE  Place(r)' >= Start(listing.page + 1)
  <2>1. r \in Listed
    BY <1>4, <1>7, <1>8
  <2>2. Place(r) >= Start(listing.page + 1)
    BY <1>3, <1>8, <2>1 DEF PageInv, UnseenAhead
  <2>3. PICK params : params = Params("urls", listing.sortBy)
    OBVIOUS
  <2>4. RowsBefore(Listed, params, r) \subseteq RowsBefore(Listed', params, r)
    BY <1>4 DEF RowsBefore
  <2>5. IsFiniteSet(RowsBefore(Listed', params, r))
    <3>1. IsFiniteSet(db'["urls"])
      BY <1>1 DEF StoreInv, TypeInv, TablesFinite, Tables
    <3>2. Listed' \subseteq db'["urls"]
      BY DEF Listed, Matching
    <3>3. IsFiniteSet(Listed')
      BY <3>1, <3>2, FS_Subset
    <3>4. RowsBefore(Listed', params, r) \subseteq Listed'
      BY DEF RowsBefore
    <3> QED BY <3>3, <3>4, FS_Subset
  <2>6. PICK before, after \in Nat : /\ before = Cardinality(RowsBefore(Listed, params, r))
                                     /\ after = Cardinality(RowsBefore(Listed', params, r))
                                     /\ before <= after
    BY <2>4, <2>5, FS_Subset, FS_CardinalityType
  <2>7. Place(r) = before /\ Place(r)' = after
    BY <1>2, <2>3, <2>6 DEF Place
  <2>8. Start(listing.page + 1) \in Nat
    <3>1. listing.page + 1 \in Nat \ {0}
      BY <1>1 DEF TypeInv, TypeOK
    <3> QED BY <3>1, StartOf
  <2> QED BY <2>2, <2>6, <2>7, <2>8
<1> QED BY <1>6, <1>8

\* A page that is read, of a listing under way or of a new one.
LEMMA ReadUnseen ==
    ASSUME PageInv, Listings
    PROVE  UnseenAhead'
<1>1. StoreInv /\ TypeInv /\ SortList(listing.sortBy) /\ db' = db
  BY IdleTypes DEF PageInv, StoreInv
<1>2. /\ ListOpened \/ ListTurned \/ ClicksListed \/ listing' = Closed
      /\ SortList(listing'.sortBy)
  BY <1>1, ListEffect
<1>3. CASE ClicksListed \/ listing' = Closed
  BY <1>3 DEF ClicksListed, Closed, UnseenAhead
<1>4. ASSUME ListOpened \/ ListTurned, listing'.complete
      PROVE  UnseenAhead'
  <2>1. PICK rows : rows = Matching(db["urls"], listing'.filter)
    OBVIOUS
  <2>2. Listed' = rows
    BY <1>1, <2>1 DEF Listed
  <2>3. /\ rows \in SUBSET UrlRow /\ IsFiniteSet(rows)
        /\ \A r, q \in rows : r.id = q.id \/ r.short_code = q.short_code => r = q
    BY <1>1, <2>1, ListedRows
  <2>4. PICK p \in Nat \ {0} : p = listing'.page
    <3>1. listing.page \in Nat
      BY <1>1 DEF TypeInv, TypeOK
    <3>2. listing'.page = 1 \/ listing'.page = listing.page + 1
      BY <1>4 DEF ListOpened, ListTurned
    <3> QED BY <3>1, <3>2
  <2>5. PICK sortBy, page, there, seen : /\ sortBy = listing'.sortBy /\ page = listing'.rows
                                         /\ there = listing'.there /\ seen = listing'.seen
    OBVIOUS
  <2>6. PICK s \in Ordered(rows, Params("urls", sortBy)) : page = Page(s, p, PerPage)
    <3>1. listing'.table = "urls" /\ PageRead
      BY <1>4 DEF ListOpened, ListTurned
    <3> QED BY <2>1, <2>4, <2>5, <3>1 DEF PageRead, GetList, Params
  <2>7. ASSUME ListTurned
        PROVE  /\ there \subseteq Ids(rows) /\ listing.seen \subseteq seen
               /\ Telling(sortBy) => \A r \in rows : r.id \in there \ listing.seen =>
                     Cardinality(RowsBefore(rows, Params("urls", sortBy), r)) >= Start(p)
    <3>1. listing.complete /\ Listed = rows /\ listing.there = there /\ listing.sortBy = sortBy
      BY <1>4, <2>1, <2>5, <2>7 DEF ListTurned, Listed
    <3>2. p = listing.page + 1 /\ listing.seen \subseteq seen
      BY <2>4, <2>5, <2>7 DEF ListTurned
    <3> QED BY <3>1, <3>2 DEF PageInv, UnseenAhead, Place
  <2>8. /\ there \subseteq Ids(rows) /\ Ids(Range(page)) \subseteq seen
        /\ listing'.table = "urls"
    BY <1>4, <2>1, <2>5, <2>7 DEF ListOpened, ListTurned
  <2>9. ASSUME Telling(sortBy), NEW r \in rows, r.id \in there \ seen
        PROVE  /\ Cardinality(RowsBefore(rows, Params("urls", sortBy), r)) >= Start(p + 1)
               /\ page # << >>
    <3>1. Cardinality(RowsBefore(rows, Params("urls", sortBy), r)) >= Start(p)
      <4>1. CASE ListOpened
        <5>1. p = 1
          BY <2>4, <4>1 DEF ListOpened
        <5>2. Start(p) = 0
          BY <5>1, StartOf
        <5>3. Cardinality(RowsBefore(rows, Params("urls", sortBy), r)) \in Nat
          BY <2>3, FS_Subset, FS_CardinalityType DEF RowsBefore
        <5> QED BY <5>2, <5>3
      <4>2. CASE ListTurned
        BY <2>7, <2>9, <4>2
      <4> QED BY <1>4, <4>1, <4>2
    <3>2. r.id \notin Ids(Range(page))
      BY <2>8, <2>9
    <3>3. SortList(sortBy)
      BY <1>2, <2>5
    <3> QED BY <2>3, <2>6, <2>9, <3>1, <3>2, <3>3, PageLeavesOut
  <2>10. Telling(sortBy) /\ page = << >> => there \subseteq seen
    BY <2>8, <2>9 DEF Ids
  <2>11. Telling(sortBy) => \A r \in rows : r.id \in there \ seen =>
            Cardinality(RowsBefore(rows, Params("urls", sortBy), r)) >= Start(p + 1)
    BY <2>9
  <2>12. \A r : Place(r)' = Cardinality(RowsBefore(rows, Params("urls", sortBy), r))
    BY <2>2, <2>5 DEF Place
  <2>13. p > 0
    OBVIOUS
  <2> QED BY <2>2, <2>4, <2>5, <2>8, <2>10, <2>11, <2>12, <2>13 DEF UnseenAhead
<1>5. ASSUME ~listing'.complete
      PROVE  UnseenAhead'
  BY <1>5 DEF UnseenAhead
<1> QED BY <1>2, <1>3, <1>4, <1>5

LEMMA PageInvariant == Spec => []PageInv
<1>1. Init => PageInv
  <2>1. Init => ~listing.complete /\ SortList(listing.sortBy)
    BY SortLists DEF Init, Closed
  <2> QED BY <2>1, StoreInit DEF PageInv, UnseenAhead
<1>2. ASSUME PageInv, [Next]_vars
      PROVE  PageInv'
  <2>1. StoreInv' /\ StoreInv /\ TypeInv /\ SortList(listing.sortBy)
    BY <1>2, StoreStep DEF PageInv, StoreInv
  <2>2. SortList(listing'.sortBy)
    BY <1>2, <2>1, ListEffect, ListKept
  <2>3. UnseenAhead'
    <3>1. CASE Listings
      BY <1>2, <3>1, ReadUnseen
    <3>2. CASE \E code \in scenario.codes, target \in Targets : Create(code, target)
      BY <1>2, <3>2, CreateUnseen
    <3>3. CASE listing' = listing /\ db'["urls"] = db["urls"]
      BY <1>2, <3>3, UnseenKept DEF PageInv
    <3>4. CASE ~listing'.complete
      BY <3>4 DEF UnseenAhead
    <3>5. CASE \E id \in 1 .. scenario.links, time \in Times : CreateClick(id, time)
      BY <2>1, <3>3, <3>5, CreateClickTypes
    <3>6. ASSUME NEW code \in scenario.codes, Delete(code)
          PROVE  ~listing'.complete
      <4>1. listing' = [listing EXCEPT !.complete = FALSE]
        BY <3>6 DEF Delete, ListingWithout
      <4> QED BY <2>1, <4>1 DEF TypeInv, TypeOK, Closed
    <3>7. ASSUME NEW c \in Clients, DeleteClick(c)
          PROVE  listing' = listing /\ db'["urls"] = db["urls"]
      <4>1. listing' = listing /\ \E S : db' = [db EXCEPT !["url_stats"] = S]
        BY <3>7, Zenon DEF DeleteClick
      <4> QED BY <2>1, <4>1, TypeParts DEF TypeInv, DbOK, Tables
    <3>8. ASSUME NEW c \in Clients, Update(c) \/ UpdateMany(c)
          PROVE  ~listing'.complete \/ (listing' = listing /\ db'["urls"] = db["urls"])
      <4>1. PICK e : /\ listing' = ListingWithout(e.table)
                     /\ \E S : db' = [db EXCEPT ![e.table] = S]
        BY <3>8, Zenon DEF Update, UpdateMany
      <4>2. CASE e.table = "urls"
        <5>1. listing' = [listing EXCEPT !.complete = FALSE]
          BY <4>1, <4>2 DEF ListingWithout
        <5> QED BY <2>1, <5>1 DEF TypeInv, TypeOK, Closed
      <4>3. CASE e.table # "urls"
        BY <2>1, <4>1, <4>3, TypeParts DEF ListingWithout, TypeInv, DbOK, Tables
      <4> QED BY <4>2, <4>3
    <3>9. CASE \E c \in Clients :
                 \/ \E target \in Targets : ReadToRetarget(c, target)
                 \/ \E code \in scenario.codes, now \in {None, 1} : ReadToMark(c, code, now)
                 \/ ReadClick(c)
      BY <2>1, <3>3, <3>9, ReadTypes
    <3>10. CASE (\E c \in Clients : Forget(c)) \/ UNCHANGED vars
      <4>1. listing' = listing /\ db' = db
        BY <3>10 DEF Forget, vars
      <4> QED BY <3>3, <4>1
    <3> QED BY <1>2, Steps, <3>1, <3>2, <3>3, <3>4, <3>5, <3>6, <3>7, <3>8, <3>9, <3>10
  <2> QED BY <2>1, <2>2, <2>3 DEF PageInv
<1> QED BY <1>1, <1>2, PTL DEF Spec

\* Who pages through the links by a key to the end sees every link that was there at the
\* start, whatever is created meanwhile: PagesMissOnlyAfterDeletes is invariant.
THEOREM PagesMissNothingElse == Spec => []PagesMissOnlyAfterDeletes
<1>1. PageInv => PagesMissOnlyAfterDeletes
  BY DEF PageInv, UnseenAhead, PagesMissOnlyAfterDeletes, Telling
<1> QED BY <1>1, PageInvariant, PTL
=============================================================================
