------------------------------ MODULE KvTables ------------------------------
(***************************************************************************)
(* The key-value operations of wt_table_ops.cpp on a store: a record of    *)
(* tables, each a set of rows [k |-> key, x |-> value] with one row per    *)
(* key, and the keys the running transaction has written.                  *)
(*                                                                         *)
(* WiredTiger's side is external: snapshot isolation, and a write of a key *)
(* that another open transaction has written fails.  A transaction is the  *)
(* view its statement left behind; its snapshot, its reads and its writes  *)
(* are one step, which loses no committed outcome because the writes are   *)
(* private until the commit and a conflict only ever aborts.               *)
(***************************************************************************)

\* Rows inserted one after another, each with overwrite.
table_put_all(db, table, rows) ==
    [db EXCEPT ![table] = {r \in @ : \A q \in rows : q.k # r.k} \cup rows,
               !.wrote = @ \cup {<<table, q.k>> : q \in rows}]

table_put(db, table, key, value) == table_put_all(db, table, {[k |-> key, x |-> value]})

\* Keys deleted one after another.  A key that is not there is not an error,
\* and is not written either.
table_del_all(db, table, keys) ==
    [db EXCEPT ![table] = {r \in @ : r.k \notin keys},
               !.wrote = @ \cup {<<table, r.k>> : r \in {q \in db[table] : q.k \in keys}}]

table_del(db, table, key) == table_del_all(db, table, {key})

\* The keys a scan with a prefix finds: k[i] = x, whichever part the prefix is.
Scanned(db, table, i, x) == {r.k : r \in {q \in db[table] : q.k[i] = x}}

Has(db, table, key) == \E r \in db[table] : r.k = key

table_get(db, table, key) == (CHOOSE r \in db[table] : r.k = key).x

\* Two open transactions that wrote a key in common.
WriteConflict(view, other) == view.wrote \cap other.wrote # {}

\* The committed store once a transaction's writes are in it.
CommitInto(db, view) ==
    [t \in DOMAIN db |->
        IF t = "wrote" THEN {}
        ELSE {r \in db[t] : <<t, r.k>> \notin view.wrote}
               \cup {r \in view[t] : <<t, r.k>> \in view.wrote}]
=============================================================================
