------------------------------ MODULE HashTree ------------------------------
(***************************************************************************)
(* The binary-tree matcher of qualities 10 and 11 (encode/hash_tree.rs).    *)
(* Each bucket holds a tree of positions, the newest at its root and each   *)
(* node newer than its children, sorted by the bytes that follow the        *)
(* positions; to look a position up is to make it the new root.  A caller   *)
(* goes forward through the input, looking positions up or storing ranges   *)
(* of them.                                                                 *)
(***************************************************************************)
EXTENDS InputBytes, SequencesExt

CONSTANTS
  TreeInputs,    \* bound: the inputs searched, sequences of numbers
  HashedBytes,   \* bytes hashed (4)
  Compared,      \* MAX_TREE_COMP_LENGTH (128)
  Depth,         \* MAX_TREE_SEARCH_DEPTH (64)
  TreeWindow,    \* window_mask + 1
  TreeReach,     \* max_backward
  ShortReach,    \* short_match_max_backward
  Stride, Dense  \* store_range: every 8th position, but the last 63

ASSUME TreeAssumption ==
  /\ HashedBytes \in 1..Compared /\ TreeReach \in 1..(TreeWindow - 1)
  /\ Stride > 0 /\ Dense > 0 /\ \A i \in TreeInputs : Len(i) > Compared

VARIABLES
  buckets, forest,
  next,      \* the caller's position
  todo,      \* positions of a range still to store
  doing,     \* "idle", "walk", "store" between the stores of a range, "add"
             \* before the dictionary's matches
  walk,      \* the locals of store_and_find
  best,      \* best_len
  matches,
  stored,    \* history: the positions that are in the trees
  cut        \* history: a walk was ended by Depth

treeVars == <<input, buckets, forest, next, todo, doing, walk, best, matches, stored, cut>>

InputLength == Len(input)
Invalid == InputLength + TreeWindow   \* invalid_root: no position is as large
Unbeatable == InputLength + 1         \* usize::MAX as best_len: nothing is longer

LeftOf(p)  == <<p % TreeWindow, "left">>
RightOf(p) == <<p % TreeWindow, "right">>
Key(p) == Bytes(p, HashedBytes)

-----------------------------------------------------------------------------
(* The calls. *)

TreeInit ==
  /\ input \in TreeInputs
  /\ buckets = [key \in {Key(p) : p \in 0..(InputLength - HashedBytes)} |-> Invalid]
  /\ forest = [node \in (0..(TreeWindow - 1)) \X {"left", "right"} |-> 0]
  /\ next = 0 /\ todo = <<>> /\ doing = "idle"
  /\ walk = [at |-> 0, limit |-> 0, prev |-> Invalid, left |-> LeftOf(0), right |-> RightOf(0),
             bestLeft |-> 0, bestRight |-> 0, depth |-> 0]
  /\ best = Unbeatable /\ matches = <<>> /\ stored = {} /\ cut = FALSE

Reroots(limit) == limit >= Compared

\* store_and_find up to its loop, at p, with limit bytes to compare.
Enter(p, limit) ==
  /\ walk' = [at |-> p, limit |-> limit, prev |-> buckets[Key(p)],
              left |-> LeftOf(p), right |-> RightOf(p),
              bestLeft |-> 0, bestRight |-> 0, depth |-> Depth]
  /\ buckets' = IF Reroots(limit) THEN [buckets EXCEPT ![Key(p)] = p] ELSE buckets
  /\ stored' = IF Reroots(limit) THEN stored \cup {p} ELSE stored

\* The short matches of p: from the nearest back, each longer than the last,
\* until one is longer than 2.
ShortLength(p, distance) == MatchLength(p - distance, p, InputLength - p)
ShortDistances(p) ==
  {d \in 1..Min({p, ShortReach, TreeReach}) :
     /\ ShortLength(p, d) >= 2
     /\ \A e \in 1..(d - 1) : ShortLength(p, e) <= 2 /\ ShortLength(p, e) < ShortLength(p, d)}

Match(distance, length) == [distance |-> distance, length |-> length]
ShortMatches(p) ==
  LET distances == SetToSortSeq(ShortDistances(p), <)
  IN [i \in 1..Len(distances) |-> Match(distances[i], ShortLength(p, distances[i]))]

\* find_all_matches: two bytes at least must be left.
FindAllMatches ==
  LET p     == next
      limit == InputLength - p
      short == ShortMatches(p)
      long  == IF short = <<>> THEN 1 ELSE Last(short).length
  IN /\ doing = "idle" /\ p + 1 < InputLength
     /\ next' = p + 1
     /\ matches' = short /\ best' = long
     /\ IF long < limit /\ p + HashedBytes <= InputLength
        THEN Enter(p, limit) /\ doing' = "walk"
        ELSE /\ doing' = "add" /\ walk' = [walk EXCEPT !.at = p, !.limit = limit]
             /\ UNCHANGED <<buckets, stored>>
     /\ UNCHANGED <<input, forest, todo, cut>>

\* The dictionary may have one that is longer still, beyond all distances.
AddDictionary ==
  /\ doing = "add"
  /\ \E length \in {0} \cup Max({4, best + 1})..walk.limit :
       matches' = IF length = 0 THEN matches ELSE Append(matches, Match(TreeReach + 1, length))
  /\ doing' = "idle"
  /\ UNCHANGED <<input, buckets, forest, next, todo, walk, best, stored, cut>>

\* store_range: the positions it stores.
RangePositions(start, stop) ==
  IF start + Dense <= stop
  THEN {p \in start..(stop - 1) : p >= stop - Dense \/ (p - start) % Stride = 0}
  ELSE start..(stop - 1)

StoreRange(stop) ==
  /\ doing = "idle" /\ next < stop /\ stop + Compared <= InputLength + 1
  /\ todo' = SetToSortSeq(RangePositions(next, stop), <)
  /\ next' = stop /\ doing' = "store" /\ best' = Unbeatable /\ matches' = <<>>
  /\ UNCHANGED <<input, buckets, forest, walk, stored, cut>>

Store ==
  /\ doing = "store"
  /\ Enter(Head(todo), Compared)
  /\ todo' = Tail(todo) /\ doing' = "walk"
  /\ UNCHANGED <<input, forest, next, best, matches, cut>>

-----------------------------------------------------------------------------
(* The walk: the loop of store_and_find. *)

WalkEnds == doing' = IF best # Unbeatable THEN "add" ELSE IF todo # <<>> THEN "store" ELSE "idle"

Write(node, value, trees) ==
  IF Reroots(walk.limit) THEN [trees EXCEPT ![node] = value] ELSE trees

\* Nothing is left to compare with: no node, too old a node, or enough depth.
OutOfReach == walk.prev >= walk.at \/ walk.at - walk.prev > TreeReach
Prune ==
  /\ doing = "walk" /\ (OutOfReach \/ walk.depth = 0)
  /\ forest' = Write(walk.right, Invalid, Write(walk.left, Invalid, forest))
  /\ cut' = (cut \/ ~OutOfReach)
  /\ WalkEnds
  /\ UNCHANGED <<input, buckets, next, todo, walk, best, matches, stored>>

MaxCurrent == Max({walk.bestLeft, walk.bestRight})   \* mutant: one side is enough
\* What all between the two sides share with the position.
Current == Min({walk.bestLeft, walk.bestRight})
Length ==
  Current + MatchLength(walk.prev + Current, walk.at + Current, walk.limit - Current)

Compare == doing = "walk" /\ ~OutOfReach /\ walk.depth > 0
Record ==
  /\ best' = IF Length > best THEN Length ELSE best
  /\ matches' = IF Length > best THEN Append(matches, Match(walk.at - walk.prev, Length))
                                 ELSE matches

\* The same bytes, as far as they count: the position takes the node's place.
Whole == Length >= Min({walk.limit, Compared})
OneChild ==        \* mutant: one subtree is lost
  Write(walk.left, forest[LeftOf(walk.prev)], Write(walk.right, Invalid, forest))
BothChildren ==
  LET first == Write(walk.left, forest[LeftOf(walk.prev)], forest)
  IN Write(walk.right, first[RightOf(walk.prev)], first)
TakePlace ==
  /\ Compare /\ Whole
  /\ Record
  /\ forest' = BothChildren
  /\ WalkEnds
  /\ UNCHANGED <<input, buckets, next, todo, walk, stored, cut>>

\* The node is smaller: it and its left go left of the position.
Smaller == Byte(walk.at + Length) > Byte(walk.prev + Length)
GoRight ==
  LET trees == Write(walk.left, walk.prev, forest) IN
  /\ Compare /\ ~Whole /\ Smaller
  /\ Record
  /\ forest' = trees
  /\ walk' = [walk EXCEPT !.bestLeft = Length, !.left = RightOf(walk.prev),
                          !.prev = trees[RightOf(walk.prev)], !.depth = @ - 1]
  /\ UNCHANGED <<input, buckets, next, todo, doing, stored, cut>>
GoLeft ==
  LET trees == Write(walk.right, walk.prev, forest) IN
  /\ Compare /\ ~Whole /\ ~Smaller
  /\ Record
  /\ forest' = trees
  /\ walk' = [walk EXCEPT !.bestRight = Length, !.right = LeftOf(walk.prev),
                          !.prev = trees[LeftOf(walk.prev)], !.depth = @ - 1]
  /\ UNCHANGED <<input, buckets, next, todo, doing, stored, cut>>

TreeNext ==
  \/ FindAllMatches \/ AddDictionary \/ Store
  \/ \E stop \in 1..InputLength : StoreRange(stop)
  \/ Prune \/ TakePlace \/ GoRight \/ GoLeft

TreeSpec == TreeInit /\ [][TreeNext]_treeVars

-----------------------------------------------------------------------------
(* Correctness. *)

Between == doing \in {"idle", "store", "add"}
InReach(p) == next - p <= TreeReach
Child(node) == {p \in {forest[node]} : p < Invalid /\ InReach(p)}

\* The positions in the tree of a node, as far as they are in reach.
Within ==
  LET below[p \in 0..(InputLength - 1)] ==
        {p} \cup UNION {below[q] : q \in {q \in Child(LeftOf(p)) \cup Child(RightOf(p)) : q < p}}
  IN below

Before(p, q) ==
  \E n \in 0..(Compared - 1) : SameBytes(p, q, n) /\ Byte(p + n) < Byte(q + n)

\* Every tree stays sorted by the bytes that follow its positions, and newer
\* above older, whatever was pruned, replaced or forgotten by the window: what
\* the walk relies on to leave half of each tree unread (store_and_find).
TreesSorted ==
  Between =>
    \A p \in UNION {Within[root] : root \in {root \in {buckets[k] : k \in DOMAIN buckets} :
                                               root < Invalid /\ InReach(root)}} :
      /\ p \in stored
      /\ \A q \in Child(LeftOf(p)) : q < p /\ \A r \in Within[q] : Before(r, p)
      /\ \A q \in Child(RightOf(p)) : q < p /\ \A r \in Within[q] : Before(p, r)

\* The matches of a position are true and maximal, each longer than the last
\* and none nearer (the promise of find_all_matches); and unless Depth ever cut
\* a walk short, no position in the trees would have given a longer one, up to
\* the bytes the trees compare.
MatchesAreBest ==
  doing = "add" =>
    /\ \A i \in DOMAIN matches :
         LET match == matches[i] IN
         /\ match.distance \in 1..Min({walk.at, TreeReach})
         /\ match.length = MatchLength(walk.at - match.distance, walk.at, walk.limit)
         /\ i > 1 => /\ match.length > matches[i - 1].length
                     /\ match.distance >= matches[i - 1].distance
    /\ ~cut /\ walk.limit >= HashedBytes =>
         \A p \in stored : p < walk.at /\ walk.at - p <= TreeReach /\ Key(p) = Key(walk.at) =>
           best >= Min({Compared, MatchLength(p, walk.at, walk.limit)})
=============================================================================
