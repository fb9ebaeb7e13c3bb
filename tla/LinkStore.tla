------------------------------ MODULE LinkStore ------------------------------
(***************************************************************************)
(* What the units of work promise their callers ("transactional            *)
(* consistency", docs/architecture.md): links and clicks change by whole   *)
(* transactions only, a click is kept only as long as its link is, and an  *)
(* answer tells whether the change was made.                               *)
(***************************************************************************)
EXTENDS Naturals

CONSTANTS Codes, Transactions, BatchSize, None

VARIABLES
    op,                 \* what each transaction does
    stored,             \* the links: [code, by], by the transaction that created it
    recorded,           \* the clicks: [link, by, nth]
    done,               \* transactions that have made their change
    answer              \* what each transaction's caller was told

storeVars == <<op, stored, recorded, done, answer>>

Operations == {"create", "create_many", "delete", "get_list", "insert_many"}
RowsOf(o) == IF o = "create" THEN 1 ELSE BatchSize

StoreInit == /\ op = [t \in Transactions |-> None]
             /\ \E present \in SUBSET Codes : stored = [code : present, by : {"before"}]
             /\ recorded = {}
             /\ done = {}
             /\ answer = [t \in Transactions |-> "none"]

Call(t) == /\ op[t] = None
           /\ \E o \in Operations : op' = [op EXCEPT ![t] = o]
           /\ UNCHANGED <<stored, recorded, done, answer>>

MakeLinks(t) == \E codes \in [1 .. RowsOf(op[t]) -> Codes] :
    /\ \A m, n \in DOMAIN codes : m # n => codes[m] # codes[n]
    /\ \A l \in stored, n \in DOMAIN codes : l.code # codes[n]
    /\ stored' = stored \cup {[code |-> codes[n], by |-> t] : n \in DOMAIN codes}
    /\ UNCHANGED recorded

\* A link goes with its clicks; nothing changes if somebody else has deleted it.
DropLink ==
    \/ \E l \in stored : /\ stored' = stored \ {l}
                         /\ recorded' = {k \in recorded : k.link # l}
    \/ UNCHANGED <<stored, recorded>>

RecordClicks(t) == \E link \in [1 .. BatchSize -> stored] :
    /\ recorded' = recorded \cup {[link |-> link[n], by |-> t, nth |-> n] : n \in 1 .. BatchSize}
    /\ UNCHANGED stored

Change(t) == \/ op[t] \in {"create", "create_many"} /\ MakeLinks(t)
             \/ op[t] = "delete" /\ DropLink
             \/ op[t] = "insert_many" /\ RecordClicks(t)
             \/ op[t] = "get_list" /\ UNCHANGED <<stored, recorded>>

\* The whole change at once; its caller hears of it later, or never: then it is told of
\* an error.
Perform(t) == /\ t \notin done
              /\ answer[t] = "none"
              /\ Change(t)
              /\ done' = done \cup {t}
              /\ \/ UNCHANGED answer
                 \/ answer' = [answer EXCEPT ![t] = "error"]
              /\ UNCHANGED op

\* Otherwise an error says that nothing was changed, and nothing will be.
Reply(t) == /\ op[t] # None
            /\ answer[t] = "none"
            /\ answer' = [answer EXCEPT ![t] = IF t \in done THEN "ok" ELSE "error"]
            /\ UNCHANGED <<op, stored, recorded, done>>

StoreNext == \E t \in Transactions : Call(t) \/ Perform(t) \/ Reply(t)

StoreSpec == StoreInit /\ [][StoreNext]_storeVars
=============================================================================
