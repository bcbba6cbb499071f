---------------------------- MODULE Transactions ----------------------------
(***************************************************************************)
(* Rows under READ COMMITTED, as Postgres keeps them for the modules whose *)
(* transactions have more than one statement (db/client.ts).               *)
(*                                                                         *)
(* What a transaction has written is kept apart in own[t] until it commits *)
(* and locks those rows: another transaction's statement that writes one   *)
(* of them waits, and then sees what was committed.  A unique key is a row *)
(* of its own, which has its place before anything is stored under it, and *)
(* locks the same way.                                                     *)
(***************************************************************************)
EXTENDS Naturals

CONSTANT Txn

VARIABLES
  db,    \* the committed rows
  own    \* own[t]: the rows transaction t has written

Overlay(new, rows) ==
  [r \in DOMAIN new \cup DOMAIN rows |-> IF r \in DOMAIN new THEN new[r] ELSE rows[r]]

OneRow(r, row) == [x \in {r} |-> row]

(* What a statement of t reads. *)
Seen(t) == Overlay(own[t], db)

(* Nobody else has rows locked. *)
Free(t, rows) == \A s \in Txn \ {t} : rows \cap DOMAIN own[s] = {}

Write(t, new) == /\ Free(t, DOMAIN new)
                 /\ own' = [own EXCEPT ![t] = Overlay(new, @)]

Commit(t) == /\ db' = Seen(t)
             /\ own' = [own EXCEPT ![t] = <<>>]

RollBack(t) == own' = [own EXCEPT ![t] = <<>>]

(* A transaction of one statement. *)
Store(new) == /\ \A t \in Txn : DOMAIN new \cap DOMAIN own[t] = {}
              /\ db' = Overlay(new, db)
=============================================================================
