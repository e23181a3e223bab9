------------------------------ MODULE Directory ------------------------------
(***************************************************************************)
(* The entries of one directory as dir40 works on them: a sequence of      *)
(* units ordered by the key that the name hashes to, spread over one or    *)
(* more cde40 items.  Which units an item holds and which number it has in *)
(* its node is up to the balancing of the tree, so a search yields the set *)
(* of results it may have.                                                 *)
(***************************************************************************)
EXTENDS Naturals, Sequences, SequencesExt, FiniteSetsExt

CONSTANT KeyOf          \* the key of a name: "." has the least, names may collide

Entry(name, oid) == [key |-> KeyOf[name], name |-> name, obj |-> oid]

NamesIn(d) == {d[i].name : i \in DOMAIN d}

\* The leftmost unit whose key is not less than the given one.
LeftmostUnit(d, key) ==
    Min({i \in 1..(Len(d) + 1) : i = Len(d) + 1 \/ d[i].key >= key})

HasKey(d, i, key) == i <= Len(d) /\ d[i].key = key

(***************************************************************************)
(* Key collisions.  The unit compared with the name is the one that has    *)
(* the number of the item in its node, not the one the search stands at:   *)
(* any unit of the item, or none.  One that has the key and another name   *)
(* takes the search to the end of the item.  Whether a unit was matched is *)
(* not looked at by the caller: it asks whether the position is still      *)
(* inside of the item.                                                     *)
(***************************************************************************)
Rivals(d, pos, name) == {i \in DOMAIN d : d[i].key = d[pos].key /\ d[i].name # name}

\* Where the search may stand after an item of units first to last.
cde40_collision(d, first, last, pos, name) ==
    {pos} \cup IF Rivals(d, pos, name) \cap first..last = {} THEN {} ELSE {last + 1}

\* The item ends at any unit; behind the last item the directory is over.
reiser4_tree_collision(d, pos, name) ==
    {[found |-> TRUE, pos |-> pos]}
    \cup UNION {IF last = Len(d) THEN {[found |-> FALSE, pos |-> last + 1]}
                ELSE {[found |-> p <= Len(d), pos |-> p] :
                        p \in cde40_collision(d, last + 1, Len(d), last + 1, name)} :
                last \in {l \in pos..Len(d) : l + 1 \in cde40_collision(d, 1, l, pos, name)}}

\* dir40_search(): only a key that is found is looked at by name.
Search(d, name) ==
    LET pos == LeftmostUnit(d, KeyOf[name])
    IN  IF HasKey(d, pos, KeyOf[name])
        THEN reiser4_tree_collision(d, pos, name)
        ELSE {[found |-> FALSE, pos |-> pos]}

(***************************************************************************)
(* Reading entry by entry.  The position is a key and, among equal keys,   *)
(* the number of units to skip.                                            *)
(***************************************************************************)
dir40_reset == [key |-> KeyOf["."], adjust |-> 0]

\* The unit a position stands for; one behind the last when the directory is over.
obj40_update_body(d, p) ==
    LET i == LeftmostUnit(d, p.key)
    IN  IF HasKey(d, i, p.key)
        THEN Min({j \in i..(Len(d) + 1) : j = i + p.adjust \/ ~HasKey(d, j, p.key)})
        ELSE i

\* A broken PositionAfter(): the key read is left behind, with its other units.
PositionPastKey(d, p, i) ==
    [key |-> d[i].key + 1, adjust |-> 0]

\* The position after unit i was read at position p.
PositionAfter(d, p, i) ==
    IF i < Len(d)
    THEN [key |-> d[i + 1].key,
          adjust |-> IF d[i + 1].key = p.key THEN p.adjust + 1 ELSE 0]
    ELSE [p EXCEPT !.key = @ + 1]

\* A removal by the handle that reads, of a unit left of its position.
PositionKept(p, removed) ==
    IF removed.key = p.key /\ 0 < p.adjust THEN [p EXCEPT !.adjust = @ - 1] ELSE p

=============================================================================
