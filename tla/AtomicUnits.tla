---------------------------- MODULE AtomicUnits ----------------------------
(***************************************************************************)
(* What the transaction settings of a deployment promise about the writes  *)
(* of one request.  The writes are divided into units: a unit is the whole *)
(* request under ATOMIC_REQUESTS, one mutation operation under             *)
(* ATOMIC_MUTATIONS, and a single save without either.  Whatever the view  *)
(* does, the writes a unit has made reach the database together, in one    *)
(* step, at most once, or never; and nothing that reached it is taken back.*)
(***************************************************************************)
CONSTANT Writes

VARIABLES
    unit,     \* the unit of each write; fixed
    made,     \* writes the code has made
    settled,  \* writes whose unit has been decided
    db        \* writes in the database

vars == <<unit, made, settled, db>>

Partition(u) ==
    \A w \in Writes : w \in u[w] /\ \A v \in u[w] : u[v] = u[w]

Init ==
    /\ unit \in [Writes -> SUBSET Writes] /\ Partition(unit)
    /\ made = {} /\ settled = {} /\ db = {}

\* A write inside an open unit: not in the database yet.
Make(w) ==
    /\ w \notin made \cup settled
    /\ made' = made \cup {w}
    /\ UNCHANGED <<unit, settled, db>>

\* A write that is a unit of its own is in the database at once.
WriteThrough(w) ==
    /\ w \notin made \cup settled
    /\ unit[w] = {w}
    /\ made' = made \cup {w}
    /\ settled' = settled \cup {w}
    /\ db' = db \cup {w}
    /\ UNCHANGED unit

\* Whole units are decided: what each has made is kept, or none of it is.
Settle ==
    /\ settled \subseteq settled' /\ settled' \subseteq Writes
    /\ \A w \in settled' : unit[w] \subseteq settled'
    /\ db \subseteq db' /\ db' \ db \subseteq made \cap (settled' \ settled)
    /\ \A w \in db' \ db : unit[w] \cap made \subseteq db'
    /\ UNCHANGED <<unit, made>>

Next == (\E w \in Writes : Make(w) \/ WriteThrough(w)) \/ Settle

Spec == Init /\ [][Next]_vars
=============================================================================
