----------------------------- MODULE ChildKeys -----------------------------
(***************************************************************************)
(* Stable identities for the children of one account (child_keys.py): the  *)
(* table that pairs the identifiers PRONOTE rotates with the keys this     *)
(* integration mints.  Records are never deleted and a key is one above    *)
(* the highest ever minted, so the k-th record of the table has key k.     *)
(***************************************************************************)
EXTENDS FiniteSets, Lists

\* A child as the account announces it, and a record of the table.
Child(id, name) == [id |-> id, name |-> name]

Ids(children) == {children[i].id : i \in DOMAIN children}
Bind(f, x, v) == [y \in DOMAIN f \union {x} |-> IF y = x THEN v ELSE f[y]]

\* by_resource: the last record, or child, that carries an identifier.
LastWith(children, id) ==
    CHOOSE k \in DOMAIN children :
        children[k].id = id /\ \A j \in DOMAIN children : children[j].id = id => j <= k

\* By identifier: exact while it holds, and the stored name follows.
PlacedById(table, announced) ==
    [table |->
        [k \in DOMAIN table |->
            IF table[k].id \in Ids(announced) /\ LastWith(table, table[k].id) = k
            THEN announced[LastWith(announced, table[k].id)]
            ELSE table[k]],
     keys |-> [id \in Ids(announced) \intersect Ids(table) |-> LastWith(table, id)]]

\* By name, among the records no announced child has claimed; or a new key.
Unclaimed_Twice(placing, name) ==
    {k \in DOMAIN placing.table : placing.table[k].name = name}
Unclaimed_AnyRecordLeft(placing, name) ==
    {k \in DOMAIN placing.table : \A id \in DOMAIN placing.keys : placing.keys[id] # k}
Unclaimed(placing, name) ==
    {k \in DOMAIN placing.table :
        placing.table[k].name = name /\ \A id \in DOMAIN placing.keys : placing.keys[id] # k}

KeyFor(placing, child) ==
    LET matches == Unclaimed(placing, child.name)
    IN  IF matches = {} THEN Len(placing.table) + 1
        ELSE CHOOSE k \in matches : \A j \in matches : k <= j
Place(placing, child) ==
    LET key == KeyFor(placing, child)
    IN  [table |-> IF key > Len(placing.table)
                   THEN Append(placing.table, child)
                   ELSE [placing.table EXCEPT ![key] = child],
         keys |-> Bind(placing.keys, child.id, key)]

\* pair: the keys of the announced children, and the table to store.  Those the
\* table does not know by identifier are placed one by one.
Pair(table, announced) ==
    LET placed[n \in 0 .. Len(announced)] ==
          IF n = 0 THEN PlacedById(table, announced)
          ELSE IF announced[n].id \in Ids(table) THEN placed[n - 1]
          ELSE Place(placed[n - 1], announced[n])
    IN  placed[Len(announced)]
=============================================================================
