---------------------------- MODULE MCCollectCore ----------------------------
\* An instance of CollectCore: two buildings, two visitors, three mails.
EXTENDS CollectCore

CONSTANTS b1, b2, v1, v2, m1, m2, m3

\* m1 and m2 are of one group, m3 of another; m2 was read before; together two
\* of them are longer than a batch.
MCMailFacts ==
    m1 :> [byHand |-> FALSE, saved |-> FALSE, read |-> FALSE, due |-> TRUE, group |-> "sys", len |-> 1]
    @@ m2 :> [byHand |-> FALSE, saved |-> FALSE, read |-> TRUE, due |-> TRUE, group |-> "sys", len |-> 2]
    @@ m3 :> [byHand |-> FALSE, saved |-> FALSE, read |-> FALSE, due |-> TRUE, group |-> "war", len |-> 3]

\* v1 is greeted, v2 has not arrived.
MCVisitorFacts ==
    v1 :> [type |-> "gift", choice |-> FALSE, start |-> -5]
    @@ v2 :> [type |-> "recruitment", choice |-> FALSE, start |-> -4]

MCShowGroups == <<"sys", "war">>

MCLines == [running : {TRUE}, tick : {0, 3}, st : {1, 2}, t : {0, 1, 3, 4, 5, 7}, et : {0, 6, 9},
            extend : {-1, 0}, settled : BOOLEAN, at : {1, 4, 5, 7, 9}]
=============================================================================
