----------------------------- MODULE IPPAnswers -----------------------------
(***************************************************************************)
(* How asyncipp.c reads an answer of CUPS.  An answer is the sequence of   *)
(* the records of its printer group; a record is a function on the names   *)
(* of the attributes that were sent.  Getting the attributes one by one,   *)
(* the code does not see where a record ends.                              *)
(***************************************************************************)
EXTENDS SequencesExt

\* g_hash_table_insert.
Put(table, key, value) ==
    [k \in DOMAIN table \cup {key} |-> IF k = key THEN value ELSE table[k]]

Reading(attributes) ==
    [seen |-> {}, values |-> [a \in ToSet(attributes) |-> <<>>], table |-> <<>>]

\* One attribute.  An entry is made, under the value of `key`, when each needed
\* attribute was seen since the last one.  A mistake: what was seen is not forgotten.
Read_unforgotten(s, name, value, needed, key) ==
    LET seen == s.seen \cup {name}
        values == [s.values EXCEPT ![name] = value]
    IN  [seen |-> seen, values |-> values,
         table |-> IF needed \subseteq seen THEN Put(s.table, values[key], values) ELSE s.table]
Read(s, name, value, needed, key) ==
    LET seen == s.seen \cup {name}
        values == [s.values EXCEPT ![name] = value]
    IN  IF needed \subseteq seen
        THEN [seen |-> {}, values |-> values, table |-> Put(s.table, values[key], values)]
        ELSE [seen |-> seen, values |-> values, table |-> s.table]

\* The attributes of one record, of those that were sent, in their order.
ReadRecord(s, record, attributes, needed, key) ==
    LET after[i \in 0 .. Len(attributes)] ==
            IF i = 0 THEN s
            ELSE IF attributes[i] \in DOMAIN record
            THEN Read(after[i - 1], attributes[i], record[attributes[i]], needed, key)
            ELSE after[i - 1]
    IN  after[Len(attributes)]

Collect(records, attributes, needed, key) ==
    LET after[i \in 0 .. Len(records)] ==
            IF i = 0 THEN Reading(attributes)
            ELSE ReadRecord(after[i - 1], records[i], attributes, needed, key)
    IN  after[Len(records)].table

=============================================================================
