------------------------------ MODULE SfsCodec ------------------------------
(***************************************************************************)
(* The SFS2X object codec (src/internal/sfs/sfsobject.go): DecodeObject on *)
(* whatever a peer sends, EncodeObject of what was decoded, and its        *)
(* redacted print (StringRedacted).                                        *)
(*                                                                         *)
(* The peer's bytes are chosen as the reader asks for them (`data` is what *)
(* it has read), in cells: a tag, a count, one fixed-size field or one     *)
(* character is a cell each.  The recursion of the reader and of the       *)
(* printer is an explicit stack each; the encoder's is over the depth.     *)
(***************************************************************************)
EXTENDS Integers, Sequences, SequencesExt, FiniteSets

CONSTANTS
    Keys,           \* object keys a peer may send, each a sequence of characters
    Texts,          \* strings a peer may send
    Lower,          \* strings.ToLower, on Keys
    SensitiveKeys,  \* SensitiveSFSKeys, in lower case
    Fields,         \* fixed-size fields a peer may send, as their bits; the
                    \* bytes of its bools are among them
    Counts,         \* counts a peer may claim, negative ones included
    MaxUtf,         \* MaxUtfStringBytes (32767 in the code)
    MaxNestDepth,   \* 64 in the code
    MaxDecodedNodes,    \* 300,000 in the code
    MaxFormatted,   \* maxFormattedNodes (50,000 in the code)
    KeptShare,      \* Redact shows one character in so many at each end of a
                    \* string, and nothing of one no longer than this (8),
    MaxKept         \* and no more than so many (4)

\* The wire tags; one stands for those that are read and written alike (SFSInt
\* for every fixed-size field but a bool, sfsIntArray for every array of them).
Null == 0
Bool == 1
Number == 4
Utf == 8
BoolArray == 9
ByteArray == 10
IntArray == 12
UtfArray == 16
Array == 17
Object == 18
Class == 19     \* not supported
Text == 20

ASSUME CodecAssumption ==
    /\ Keys \cup Texts \subseteq Seq(Nat)
    /\ Lower \in [Keys -> Keys]
    /\ SensitiveKeys \subseteq Keys
    /\ Fields \subseteq Nat
    /\ Counts \subseteq Int
    /\ {MaxUtf, MaxNestDepth, MaxDecodedNodes, MaxFormatted, MaxKept} \subseteq Nat
    /\ KeptShare \in Nat \ {0}

VARIABLES
    data,       \* the cells read
    stack,      \* the objects and arrays being read, the outermost first
    nodes,      \* values counted (sfsReader.nodes)
    alloc,      \* array elements allocated before they were read
    twice,      \* a key came twice in one object
    bools,      \* where in data the bytes of bools are
    result,     \* "reading", "ok", "refused", "printing" or "printed"
    todo,       \* the objects and arrays being printed, the outermost first
    print       \* the print so far

codecVars == <<data, stack, nodes, alloc, twice, bools, result, todo, print>>

\* A value: its own cells (for UtfArray its strings), and what an object or an
\* array holds, each item under its key (<<>> in an array).
Value(tag, cells, items) == [tag |-> tag, cells |-> cells, items |-> items]
Leaf(tag, cells) == Value(tag, cells, <<>>)
Item(key, v) == [key |-> key, value |-> v]

Leafs ==
    [tag : {Null, Bool, Number, Utf, Text, BoolArray, ByteArray, IntArray}, cells : Seq(Nat), items : {<<>>}]
    \cup [tag : {UtfArray}, cells : Seq(Seq(Nat)), items : {<<>>}]

ItemsOf(V) == Seq([key : Keys \cup {<<>>}, value : V])

\* The values with at most n levels of objects and arrays.
Values[n \in Nat] ==
    IF n = 0 THEN Leafs
    ELSE Leafs \cup [tag : {Array, Object}, cells : {<<>>}, items : ItemsOf(Values[n - 1])]

\* A frame is such a value with what is still to come and the key it goes under.
Open(tag, key, n) == [tag |-> tag, key |-> key, left |-> n, items |-> <<>>]

\* A print: the budget left, whether the cut has been marked, and what is out:
\* each piece with its key path, how many cells of how many it shows, and whether
\* it is in the open or masked.
Print0 == [left |-> MaxFormatted, cut |-> FALSE, out |-> <<>>]

CodecInit ==
    /\ \E n \in Counts :
          /\ data = <<Object, n>>
          /\ IF n < 0 \/ MaxDecodedNodes < 1 \/ MaxNestDepth < 1
             THEN stack = <<>> /\ result = "refused"
             ELSE stack = <<Open(Object, <<>>, n)>> /\ result = "reading"
    /\ nodes = 1
    /\ alloc = 0
    /\ twice = FALSE
    /\ bools = {}
    /\ todo = <<>>
    /\ print = Print0

-----------------------------------------------------------------------------
(* Decoding. *)

Top == Last(stack)

HasKey(f, key) == f.tag = Object /\ \E i \in DOMAIN f.items : f.items[i].key = key

\* SFSObject.put: the last value of a key wins, in the key's first place.
PutItem(f, key, v) ==
    IF HasKey(f, key)
    THEN [f EXCEPT !.items[CHOOSE i \in DOMAIN f.items : f.items[i].key = key] = Item(key, v), !.left = @ - 1]
    ELSE [f EXCEPT !.items = Append(@, Item(key, v)), !.left = @ - 1]

\* The cells of a string, and of a key where the value goes into an object.
Utf16(s) == <<Len(s)>> \o s
KeyCells(f, key) == IF f.tag = Object THEN Utf16(key) ELSE <<>>
KeysHere == IF Top.tag = Object THEN Keys ELSE {<<>>}

Refuse(cells) ==
    /\ result' = "refused"
    /\ stack' = <<>>
    /\ data' = data \o cells
    /\ UNCHANGED <<twice, bools, todo, print>>

\* The last n of the cells read.
LastRead(n) == Len(data') - n + 1 .. Len(data')

\* A value is read whole, its own cells last.
Took(key, cells, v) ==
    /\ stack' = Append(Front(stack), PutItem(Top, key, v))
    /\ data' = data \o KeyCells(Top, key) \o cells
    /\ twice' = (twice \/ HasKey(Top, key))
    /\ bools' = bools \cup (IF v.tag \in {Bool, BoolArray} THEN LastRead(Len(v.cells)) ELSE {})
    /\ UNCHANGED <<result, todo, print>>

Reading == result = "reading" /\ stack # <<>> /\ Top.left > 0

\* readValuePayload counts every value before it looks at it.
Count == nodes' = nodes + 1
Uncounted == nodes >= MaxDecodedNodes

\* The bytes end, or the tag is none that is known, or one value too many.
RefuseValue ==
    /\ Reading
    /\ Count
    /\ Refuse(<<Class>>)
    /\ UNCHANGED alloc

\* A bool is what its byte is not: zero (b != 0).
Truth(x) == IF x # 0 THEN 1 ELSE 0

\* What is kept of the fields under a tag.
Kept(tag, xs) == IF tag \in {Bool, BoolArray} THEN [i \in DOMAIN xs |-> Truth(xs[i])] ELSE xs

\* A null, a fixed-size field, a string, a text or a byte array: the sizes of
\* the last two are signed.
ReadLeaf ==
    /\ Reading
    /\ ~Uncounted
    /\ Count
    /\ \E key \in KeysHere :
          \/ Took(key, <<Null>>, Leaf(Null, <<>>))
          \/ \E tag \in {Bool, Number}, x \in Fields : Took(key, <<tag, x>>, Leaf(tag, Kept(tag, <<x>>)))
          \/ \E tag \in {Utf, Text, ByteArray}, s \in Texts : Took(key, <<tag>> \o Utf16(s), Leaf(tag, s))
    /\ UNCHANGED alloc

NegativeSize ==
    /\ Reading
    /\ ~Uncounted
    /\ Count
    /\ \E tag \in {Text, BoolArray, ByteArray, IntArray, UtfArray, Array, Object}, n \in {m \in Counts : m < 0} : Refuse(<<tag, n>>)
    /\ UNCHANGED alloc

\* Variant of ReadArray: the elements are allocated before they are charged.
ReadArrayAllocFirst ==
    /\ Reading
    /\ ~Uncounted
    /\ \E key \in KeysHere, tag \in {BoolArray, IntArray}, n \in {m \in Counts : m >= 0} :
          /\ nodes' = nodes + 1 + n
          /\ alloc' = alloc + n
          /\ \/ nodes' > MaxDecodedNodes /\ Refuse(<<tag, n>>)
             \/ nodes' <= MaxDecodedNodes /\ Refuse(<<tag, n>>)
             \/ /\ nodes' <= MaxDecodedNodes
                /\ \E xs \in [1 .. n -> Fields] : Took(key, <<tag, n>> \o xs, Leaf(tag, Kept(tag, xs)))

\* An array of fixed-size fields: the elements a peer claims are charged, then
\* allocated, then read, and may end too early.
ReadArray ==
    /\ Reading
    /\ ~Uncounted
    /\ \E key \in KeysHere, tag \in {BoolArray, IntArray}, n \in {m \in Counts : m >= 0} :
          /\ nodes' = nodes + 1 + n
          /\ \/ nodes' > MaxDecodedNodes /\ Refuse(<<tag, n>>) /\ UNCHANGED alloc
             \/ /\ nodes' <= MaxDecodedNodes
                /\ alloc' = alloc + n
                /\ \/ n > 0 /\ Refuse(<<tag, n>>)
                   \/ \E xs \in [1 .. n -> Fields] : Took(key, <<tag, n>> \o xs, Leaf(tag, Kept(tag, xs)))

\* The sequences in a row.
Then(a, b) == a \o b
Joined(ss) == FoldLeft(Then, <<>>, ss)

\* An array of strings likewise.
ReadStrings ==
    /\ Reading
    /\ ~Uncounted
    /\ \E key \in KeysHere, n \in {m \in Counts : m >= 0} :
          /\ nodes' = nodes + 1 + n
          /\ nodes' <= MaxDecodedNodes
          /\ alloc' = alloc + n
          /\ \E ss \in [1 .. n -> Texts] :
                Took(key, <<UtfArray, n>> \o Joined([i \in 1 .. n |-> Utf16(ss[i])]), Leaf(UtfArray, ss))

\* An object or an array within: its depth is tested once its count is read, and
\* nothing is allocated for the count.
OpenNested ==
    /\ Reading
    /\ ~Uncounted
    /\ Count
    /\ \E key \in KeysHere, tag \in {Array, Object}, n \in {m \in Counts : m >= 0} :
          IF Len(stack) >= MaxNestDepth THEN Refuse(<<tag, n>>)
          ELSE /\ stack' = Append(stack, Open(tag, key, n))
               /\ data' = data \o KeyCells(Top, key) \o <<tag, n>>
               /\ UNCHANGED <<twice, bools, result, todo, print>>
    /\ UNCHANGED alloc

FrameValue(f) == Value(f.tag, <<>>, f.items)

CloseNested ==
    /\ result = "reading"
    /\ Len(stack) > 1
    /\ Top.left = 0
    /\ LET outer == Last(Front(stack))
       IN /\ stack' = Append(Front(Front(stack)), PutItem(outer, Top.key, FrameValue(Top)))
          /\ twice' = (twice \/ HasKey(outer, Top.key))
    /\ UNCHANGED <<data, nodes, alloc, bools, result, todo, print>>

\* Variant of Finish: what follows the object is not looked at.
FinishAnyway ==
    /\ result = "reading"
    /\ Len(stack) = 1
    /\ Top.left = 0
    /\ \E more \in {<<>>, <<Null>>} : data' = data \o more
    /\ result' = "ok"
    /\ UNCHANGED <<stack, nodes, alloc, twice, bools, todo, print>>

\* DecodeObject: the object is all there is.
Finish ==
    /\ result = "reading"
    /\ Len(stack) = 1
    /\ Top.left = 0
    /\ \/ result' = "ok" /\ UNCHANGED <<data, stack, twice, bools, todo, print>>
       \/ Refuse(<<Null>>)
    /\ UNCHANGED <<nodes, alloc>>

Decoded == FrameValue(stack[1])

-----------------------------------------------------------------------------
(* Encoding: a cell of -1 stands for an error, and there is none in a code. *)

Failed == <<-1>>

WriteUtf(s) == IF Len(s) > MaxUtf THEN Failed ELSE Utf16(s)

\* writeValuePayload, given what its items are written as.
Payload(v, written) ==
    CASE v.tag \in {Null, Bool, Number} -> v.cells
      [] v.tag = Utf -> WriteUtf(v.cells)
      [] v.tag \in {Text, BoolArray, ByteArray, IntArray} -> <<Len(v.cells)>> \o v.cells
      [] v.tag = UtfArray ->
            <<Len(v.cells)>> \o Joined([i \in DOMAIN v.cells |-> WriteUtf(v.cells[i])])
      [] v.tag = Array -> <<Len(v.items)>> \o Joined(written)
      [] v.tag = Object ->
            <<Len(v.items)>> \o Joined([i \in DOMAIN v.items |-> WriteUtf(v.items[i].key) \o written[i]])

\* writeTaggedValue.
Tagged[n \in Nat] ==
    [v \in Values[n] |->
       <<v.tag>> \o Payload(v, [i \in DOMAIN v.items |-> Tagged[n - 1][v.items[i].value]])]

EncodeObject(v) ==
    LET code == Tagged[MaxNestDepth][v]
    IN IF -1 \in Range(code) THEN Failed ELSE code

-----------------------------------------------------------------------------
(* Printing. *)

Piece(path, kind, n, of) == [path |-> path, kind |-> kind, n |-> n, of |-> of]

Put(p, path, kind, n, of) == [p EXCEPT !.out = Append(@, Piece(path, kind, n, of))]

\* Redact: how many characters it shows of a string of n, at each end.
Redact(n) ==
    IF n <= KeptShare THEN 0
    ELSE IF n \div KeptShare <= MaxKept THEN n \div KeptShare ELSE MaxKept

\* RedactSFSValue: the ends of a string, and of anything else its size at most.
Masked(p, path, v) ==
    IF v.tag \in {Utf, Text} THEN Put(p, path, "masked", 2 * Redact(Len(v.cells)), Len(v.cells))
    ELSE Put(p, path, "masked", 0, 0)

\* noteTruncation: the first place that runs out says so.
NoteTruncation(p) == IF p.cut THEN p ELSE [Put(p, <<>>, "marker", 0, 0) EXCEPT !.cut = TRUE]

\* charge: one field or item.
Charge(p, path) == Put([p EXCEPT !.left = @ - 1], path, "item", 1, 1)

\* chargeUpTo: n cells of a leaf, as far as the budget goes.
ChargeUpTo(p, path, n) ==
    LET allowed == IF n <= p.left THEN n ELSE p.left
        shown == Put([p EXCEPT !.left = @ - allowed], path, "open", allowed, n)
    IN IF allowed < n THEN NoteTruncation(shown) ELSE shown

\* A leaf: primitiveArrayLen, and the bytes of a string.
LeafLen(v) == IF v.tag \in {Null, Bool, Number} THEN 0 ELSE Len(v.cells)

\* Variant of IsSensitiveSFSKey: keys are compared as they are spelled.
IsSensitiveAsSpelled(k) == k \in SensitiveKeys

IsSensitiveSFSKey(k) == Lower[k] \in SensitiveKeys

\* An object or an array on its way out: what is left of it, under its key path.
Walk(path, v) == [path |-> path, tag |-> v.tag, items |-> v.items]

\* StringRedacted.
Log ==
    /\ result = "ok"
    /\ result' = "printing"
    /\ todo' = <<Walk(<<>>, Decoded)>>
    /\ UNCHANGED <<data, stack, nodes, alloc, twice, bools, print>>

Printing == result = "printing" /\ UNCHANGED <<data, stack, nodes, alloc, twice, bools>>

Here == Last(todo)
Given == Head(Here.items)
PathOf == IF Here.tag = Object THEN Append(Here.path, Given.key) ELSE Here.path
Sensitive == Here.tag = Object /\ IsSensitiveSFSKey(Given.key)
Nested == Given.value.tag \in {Array, Object}

\* The loop goes on after the item, or ends.
GoOn == Append(Front(todo), [Here EXCEPT !.items = Tail(@)])
Break == Append(Front(todo), [Here EXCEPT !.items = <<>>])

\* Nothing more once the budget is used up.
CutItems ==
    /\ Printing
    /\ Here.items # <<>>
    /\ print.left = 0
    /\ print' = NoteTruncation(print)
    /\ todo' = Break
    /\ UNCHANGED result

MaskItem ==
    /\ Printing
    /\ Here.items # <<>>
    /\ print.left > 0
    /\ Sensitive
    /\ print' = Masked(Charge(print, PathOf), PathOf, Given.value)
    /\ todo' = GoOn
    /\ UNCHANGED result

\* formatSFSValueRedacted.
FormatLeaf ==
    /\ Printing
    /\ Here.items # <<>>
    /\ print.left > 0
    /\ ~Sensitive
    /\ ~Nested
    /\ print' = ChargeUpTo(Charge(print, PathOf), PathOf, LeafLen(Given.value))
    /\ todo' = GoOn
    /\ UNCHANGED result

\* Variant of FormatNested: each level starts a budget of its own.
FormatNestedAfresh ==
    /\ Printing
    /\ Here.items # <<>>
    /\ print.left > 0
    /\ ~Sensitive
    /\ Nested
    /\ print' = [Charge(print, PathOf) EXCEPT !.left = MaxFormatted]
    /\ todo' = Append(GoOn, Walk(PathOf, Given.value))
    /\ UNCHANGED result

FormatNested ==
    /\ Printing
    /\ Here.items # <<>>
    /\ print.left > 0
    /\ ~Sensitive
    /\ Nested
    /\ print' = Charge(print, PathOf)
    /\ todo' = Append(GoOn, Walk(PathOf, Given.value))
    /\ UNCHANGED result

\* The end of an object or an array.
FormatEnd ==
    /\ Printing
    /\ Here.items = <<>>
    /\ todo' = Front(todo)
    /\ result' = IF Len(todo) = 1 THEN "printed" ELSE result
    /\ UNCHANGED print

CodecNext ==
    \/ RefuseValue
    \/ ReadLeaf
    \/ NegativeSize
    \/ ReadArray
    \/ ReadStrings
    \/ OpenNested
    \/ CloseNested
    \/ Finish
    \/ Log
    \/ CutItems
    \/ MaskItem
    \/ FormatLeaf
    \/ FormatNested
    \/ FormatEnd

CodecSpec == CodecInit /\ [][CodecNext]_codecVars

-----------------------------------------------------------------------------
(* Properties. *)

Plus(a, b) == a + b
Total(s) == FoldLeft(Plus, 0, s)

\* The values in v: each object, array, field and element.
Size[n \in Nat] ==
    [v \in Values[n] |->
       1 + (IF v.tag \in {BoolArray, IntArray, UtfArray} THEN Len(v.cells) ELSE 0)
         + Total([i \in DOMAIN v.items |-> Size[n - 1][v.items[i].value]])]

\* The levels that may still be under frame d of a stack.
Level(d) == MaxNestDepth - d

\* Whatever counts a peer claims, what the decoder holds, and what it has made
\* room for before reading it, stay within the limits; no claim alone makes it
\* allocate more than the limit.
DecoderBounded ==
    /\ alloc <= MaxDecodedNodes
    /\ Len(stack) <= MaxNestDepth
    /\ Total([d \in DOMAIN stack |-> Size[Level(d) + 1][FrameValue(stack[d])]]) <= MaxDecodedNodes

\* The values of which every string that is written as one, keys and those of
\* string arrays included, can be.
Writable[n \in Nat] ==
    {v \in Values[n] :
       /\ v.tag = Utf => Len(v.cells) <= MaxUtf
       /\ v.tag = UtfArray => \A i \in DOMAIN v.cells : Len(v.cells[i]) <= MaxUtf
       /\ v.tag = Object => \A i \in DOMAIN v.items : Len(v.items[i].key) <= MaxUtf
       /\ \A i \in DOMAIN v.items : v.items[i].value \in Writable[n - 1]}

\* The values of which every object has each of its keys once.
KeysOnce[n \in Nat] ==
    {v \in Values[n] :
       /\ v.tag = Object => \A i, j \in DOMAIN v.items : v.items[i].key = v.items[j].key => i = j
       /\ \A i \in DOMAIN v.items : v.items[i].value \in KeysOnce[n - 1]}

\* The bytes that were read, the true ones among the bools as the 1 that they are
\* written as.
AsRead == [i \in DOMAIN data |-> IF i \in bools THEN Truth(data[i]) ELSE data[i]]

\* What was decoded is the bytes it came from: encoding it gives them back, but
\* for the byte of a bool that is neither 0 nor 1, which comes back as 1, and for
\* keys that came twice, of which one is left; a string that the decoder takes
\* and the encoder cannot write is an error and never a shorter one.
EncodesBack ==
    result \in {"ok", "printing", "printed"} =>
        /\ Decoded \in KeysOnce[MaxNestDepth]
        /\ IF Decoded \notin Writable[MaxNestDepth] THEN EncodeObject(Decoded) = Failed
           ELSE IF twice THEN Len(EncodeObject(Decoded)) < Len(data)
           ELSE EncodeObject(Decoded) = AsRead

\* No field, element or string under a sensitive key is printed in the open,
\* however deep below it and however the key is spelled; of a string right under
\* one the print shows the ends, a character in KeptShare and no more than MaxKept
\* at each, and nothing of a short one.
NothingSensitiveShown ==
    \A i \in DOMAIN print.out :
        LET piece == print.out[i]
        IN /\ piece.kind = "open" => \A k \in Range(piece.path) : Lower[k] \notin SensitiveKeys
           /\ piece.kind = "masked" =>
                 /\ piece.n <= 2 * MaxKept
                 /\ piece.n * KeptShare <= 2 * piece.of
                 /\ piece.of <= KeptShare => piece.n = 0

\* What a print without a budget would show.
Cost[n \in Nat] ==
    [v \in Values[n] |->
       IF v.tag \in {Array, Object}
       THEN Total([i \in DOMAIN v.items |->
                     1 + IF v.tag = Object /\ IsSensitiveSFSKey(v.items[i].key) THEN 0
                         ELSE Cost[n - 1][v.items[i].value]])
       ELSE LeafLen(v)]

\* What of a piece is charged to the budget: the ends that Redact shows are not.
Charged(piece) == IF piece.kind = "masked" THEN 0 ELSE piece.n

\* A print is cut exactly when it would go over the budget, over all levels
\* together, and says so once; what it shows of masked strings is not counted.
PrintBounded ==
    result = "printed" =>
        LET shown == Total([i \in DOMAIN print.out |-> Charged(print.out[i])])
            markers == Cardinality({i \in DOMAIN print.out : print.out[i].kind = "marker"})
        IN IF Cost[MaxNestDepth][Decoded] > MaxFormatted THEN shown = MaxFormatted /\ markers = 1
           ELSE shown = Cost[MaxNestDepth][Decoded] /\ markers = 0
=============================================================================
