------------------------------ MODULE DigBoard ------------------------------
(***************************************************************************)
(* A board of the dig games (src/internal/game/feature_treasure_digs.go):  *)
(* a grid of bricks, numbered row by row, with gems under them.  A gem is   *)
(* out when every brick over it is open.                                   *)
(***************************************************************************)
EXTENDS Integers, Sequences, SequencesExt, FiniteSets, FiniteSetsExt

CONSTANTS
    Levels,     \* the boards of the table, by mapConfigId: w, h, hammers
    BlockSizes  \* the gems of the table, by id: w, h

ASSUME BoardAssumption ==
    /\ \A c \in DOMAIN Levels : {Levels[c].w, Levels[c].h, Levels[c].hammers} \subseteq Nat
    /\ \A g \in DOMAIN BlockSizes : {BlockSizes[g].w, BlockSizes[g].h} \subseteq Nat \ {0}

\* A board has its cfg; the bricks that are open, those the client has marked
\* itself, and of the gems it knows, by id, the place each was sent with and the
\* place that is known (0: not known).
Size(m) == Levels[m.cfg].w * Levels[m.cfg].h

\* The bricks over a gem; none when its place or size is not known or it would
\* lie over the edge.
Bricks(m, bid, at) ==
    IF bid \notin DOMAIN BlockSizes \/ at \notin 1 .. Size(m) THEN {}
    ELSE LET w == Levels[m.cfg].w
             x == (at - 1) % w
             y == (at - 1) \div w
         IN IF x + BlockSizes[bid].w > w \/ y + BlockSizes[bid].h > Levels[m.cfg].h THEN {}
            ELSE {j * w + i + 1 : i \in x .. x + BlockSizes[bid].w - 1, j \in y .. y + BlockSizes[bid].h - 1}

\* covered: by the place that was sent.
Covered(m, bid, set) ==
    /\ Bricks(m, bid, m.blocks[bid].pos) # {}
    /\ Bricks(m, bid, m.blocks[bid].pos) \subseteq set

Closed(m) == (1 .. Size(m)) \ m.opened

\* The gems in sight: a brick over them is open.
InSight(m) ==
    {g \in {Bricks(m, bid, m.blocks[bid].at) : bid \in DOMAIN m.blocks} : g \cap m.opened # {}}

\* nextBrick: of a gem in sight before any other; 0 when all are open.
NextBrick(m) ==
    LET sought == (UNION InSight(m)) \ m.opened
    IN IF sought # {} THEN Min(sought) ELSE IF Closed(m) # {} THEN Min(Closed(m)) ELSE 0

\* checkOpenAll: with this brick every gem that is known is out, as far as the
\* marks tell; also where none is.
CheckOpenAll(m, brick) ==
    \A bid \in DOMAIN m.blocks : Covered(m, bid, m.check \cup {brick})

\* addBlock: a gem that is known keeps the place it was sent with.
AddBlock(blocks, bid, at) ==
    [known \in DOMAIN blocks \cup {bid} |->
       IF known \notin DOMAIN blocks THEN [pos |-> at, at |-> at]
       ELSE IF known = bid /\ blocks[known].at = 0 THEN [blocks[known] EXCEPT !.at = at]
       ELSE blocks[known]]
=============================================================================
