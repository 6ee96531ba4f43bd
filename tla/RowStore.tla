-------------------------------- MODULE RowStore -------------------------------
(***************************************************************************)
(* Tables as the services use them through SQLAlchemy: a request loads rows, *)
(* changes the objects in memory and commits.  The commit updates the       *)
(* columns the request changed and no other, onto whatever the rows have    *)
(* become since; it inserts the new objects; and a violated unique          *)
(* constraint rolls the whole transaction back.                             *)
(***************************************************************************)
EXTENDS Naturals, FiniteSets

NoRow == [absent |-> TRUE]

In(table) == {i \in DOMAIN table : table[i] # NoRow}
Where(table, column, value) == {i \in In(table) : table[i][column] = value}

\* A pending write: the row as it was loaded and as it is to be.  Id 0 inserts;
\* NoRow for the new value deletes.
Update(t, i, was, is) == [table |-> t, id |-> i, was |-> was, is |-> is]
Insert(t, is) == [table |-> t, id |-> 0, was |-> NoRow, is |-> is]

\* The columns write w changed, over what the row holds by now.
X_Changed(row, w) == w.is
Changed(row, w) ==
    [c \in DOMAIN row |-> IF w.is[c] # w.was[c] THEN w.is[c] ELSE row[c]]

Least(S) == CHOOSE i \in S : \A j \in S : i <= j

\* Table t after the writes, the inserts one by one on the least free identifiers.
Written(t, table, writes) ==
    [i \in DOMAIN table |->
        LET mine == {w \in writes : w.table = t /\ w.id = i}
        IN IF mine = {} \/ table[i] = NoRow THEN table[i]
           ELSE LET w == CHOOSE w \in mine : TRUE
                IN IF w.is = NoRow THEN NoRow ELSE Changed(table[i], w)]

Inserted(table, new) ==
    LET spare == DOMAIN table \ In(table)
        place[n \in 0..Cardinality(new)] ==
            IF n = 0 THEN [left |-> new, free |-> spare, table |-> table]
            ELSE LET s == place[n - 1]
                     w == CHOOSE w \in s.left : TRUE
                 IN IF s.free = {} THEN s
                    ELSE [left |-> s.left \ {w}, free |-> s.free \ {Least(s.free)},
                          table |-> [s.table EXCEPT ![Least(s.free)] = w.is]]
    IN place[Cardinality(new)].table

After(t, table, writes) ==
    Inserted(Written(t, table, writes), {w \in writes : w.table = t /\ w.id = 0})

\* A unique constraint: no two rows of the table have one value in the column.
UniqueBy(table, column) ==
    \A i, j \in In(table) : table[i][column] = table[j][column] => i = j

\* There is an identifier left for one more insert, those pending included.
Room(t, table, pending) ==
    Cardinality(In(table)) + Cardinality({w \in pending : w.table = t /\ w.id = 0})
        < Cardinality(DOMAIN table)
=============================================================================
