------------------------------ MODULE PushLists ------------------------------
(***************************************************************************)
(* The lists the server pushes (buildings, visitors, mail): what the       *)
(* parsers keep of one push, and how several pushes make one list.  An     *)
(* entry is its id; an entry the parsers reject is Malformed.              *)
(***************************************************************************)
EXTENDS Integers, Sequences, SequencesExt

CONSTANTS
    Uuids,          \* building uuids
    Uids,           \* visitor uids
    MaxAggregate,   \* entries kept (300 in the code: buildings, and visitors)
    MaxRaw,         \* building entries read of one push (2000 in the code)
    MaxItems        \* bound: entries in one push

ASSUME PushListsAssumption == {MaxAggregate, MaxRaw, MaxItems} \subseteq Nat \ {0}

Malformed == "malformed"

\* Entry lists a push may carry.
RawLists(Ids) == SeqOf(Ids \cup {Malformed}, MaxItems)

FirstItems(items, n) == SubSeq(items, 1, IF Len(items) < n THEN Len(items) ELSE n)

\* One entry of the loop over a push: a malformed one is left out.
KeepValid(list, x) == IF x = Malformed THEN list ELSE Append(list, x)

\* ParseInitBuildings, ParseInitVisitors: the raw entries are counted, valid or not.
ParseInitBuildings(items) == FoldLeft(KeepValid, <<>>, FirstItems(items, MaxRaw))
ParseInitVisitors(items) == FoldLeft(KeepValid, <<>>, FirstItems(items, MaxAggregate))

BuildingPushes == {ParseInitBuildings(items) : items \in RawLists(Uuids)}
VisitorPushes == {ParseInitVisitors(items) : items \in RawLists(Uids)}

\* appendBuilding, appendVisitor; dedupeBuildings and dedupeVisitors likewise.
AppendNew(list, x) ==
    IF Len(list) >= MaxAggregate \/ x \in Range(list) THEN list ELSE Append(list, x)

AppendAll(list, items) == FoldLeft(AppendNew, list, items)

\* The lists several pushes can make.
BuildingLists == {AppendAll(<<>>, bs) : bs \in BuildingPushes}
VisitorLists == {AppendAll(<<>>, vs) : vs \in VisitorPushes}
=============================================================================
