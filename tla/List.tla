-------------------------------- MODULE List --------------------------------
(***************************************************************************)
(* The doubly linked list (list.c) that holds the statements of a block,   *)
(* the scopes, the symbols of a scope and the messages.  The links are     *)
(* modelled pointer by pointer; the history variable `content' says what   *)
(* sequence each list stands for, and a client keeps to the comments of    *)
(* list.c: it inserts an element that is in no list, and removes one that  *)
(* is in one.                                                              *)
(***************************************************************************)
EXTENDS Integers, Sequences

CONSTANTS Elem, Lists, NULL

HeadOf(l) == <<l, "head">>
TailOf(l) == <<l, "tail">>

Sentinels == Lists \X {"head", "tail"}
Nodes     == Elem \cup Sentinels

ASSUME NodesAssumption ==
    NULL \notin Nodes \cup (Lists \X Nodes) /\ Elem \cap Sentinels = {}

VARIABLES
    prev, next,     \* the links of every node; those of an element that is in
                    \* no list are left over from the last list it was in
    content,        \* history: the elements of each list
    reversing,      \* where the loop of list_reverse is: a list and a node, or NULL
    aborted         \* an assertion has failed

vars == <<prev, next, content, reversing, aborted>>

IsInterior(e) == prev[e] # NULL /\ next[e] # NULL
IsTail(e)     == prev[e] # NULL /\ next[e] = NULL

\* list_init of every list; the memory of an element holds null pointers.
Init ==
    /\ next = [n \in Nodes |-> IF n \in Sentinels /\ n[2] = "head" THEN TailOf(n[1]) ELSE NULL]
    /\ prev = [n \in Nodes |-> IF n \in Sentinels /\ n[2] = "tail" THEN HeadOf(n[1]) ELSE NULL]
    /\ content = [l \in Lists |-> <<>>]
    /\ reversing = NULL
    /\ aborted = FALSE

-----------------------------------------------------------------------------
\* The node at position i of a list, which starts at its head and ends at its
\* tail.
At(l, i) ==
    IF i = 0 THEN HeadOf(l)
    ELSE IF i = Len(content[l]) + 1 THEN TailOf(l) ELSE content[l][i]

Places(l) == 1 .. Len(content[l])
Loose(e)  == \A l \in Lists : \A i \in Places(l) : content[l][i] # e

Fail == aborted' = TRUE /\ UNCHANGED <<prev, next, content, reversing>>

\* Mutated form of LinkBefore: the node before is not linked to the element.
LinkBackOnly(before, elem) ==
    /\ prev' = [prev EXCEPT ![elem] = prev[before], ![before] = elem]
    /\ next' = [next EXCEPT ![elem] = before]

LinkBefore(before, elem) ==
    /\ prev' = [prev EXCEPT ![elem] = prev[before], ![before] = elem]
    /\ next' = [next EXCEPT ![elem] = before, ![prev[before]] = elem]

\* list_insert, called with the node at position i.
Insert(l, i, before, elem) ==
    IF IsInterior(before) \/ IsTail(before)
    THEN /\ LinkBefore(before, elem)
         /\ content' = [content EXCEPT ![l] =
                SubSeq(@, 1, i - 1) \o <<elem>> \o SubSeq(@, i, Len(@))]
         /\ UNCHANGED <<reversing, aborted>>
    ELSE Fail

InsertBefore(l, i, elem) == Loose(elem) /\ Insert(l, i, At(l, i), elem)

PushFront(l, elem) == Loose(elem) /\ Insert(l, 1, next[HeadOf(l)], elem)

PushBack(l, elem) == Loose(elem) /\ Insert(l, Len(content[l]) + 1, TailOf(l), elem)

\* Mutated form of Unlink: the node after keeps its link to the element.
UnlinkForwards(elem) ==
    /\ next' = [next EXCEPT ![prev[elem]] = next[elem]]
    /\ UNCHANGED prev

Unlink(elem) ==
    /\ next' = [next EXCEPT ![prev[elem]] = next[elem]]
    /\ prev' = [prev EXCEPT ![next[elem]] = prev[elem]]

\* list_remove, called with the node at position i.
RemoveNode(l, i, elem) ==
    IF IsInterior(elem)
    THEN /\ Unlink(elem)
         /\ content' = [content EXCEPT ![l] =
                SubSeq(@, 1, i - 1) \o SubSeq(@, i + 1, Len(@))]
         /\ UNCHANGED <<reversing, aborted>>
    ELSE Fail

Remove(l, i) == i \in Places(l) /\ RemoveNode(l, i, content[l][i])

IsEmpty(l) == next[HeadOf(l)] = TailOf(l)

\* The assertion of list_front and list_back.
PopFront(l) ==
    /\ content[l] # <<>>
    /\ IF IsEmpty(l) THEN Fail ELSE RemoveNode(l, 1, next[HeadOf(l)])

PopBack(l) ==
    /\ content[l] # <<>>
    /\ IF IsEmpty(l) THEN Fail ELSE RemoveNode(l, Len(content[l]), prev[TailOf(l)])

-----------------------------------------------------------------------------
\* list_splice: the elements from `first' to the one before `end' are taken out
\* of their list and linked in before `before'.
Relink(before, first, end) ==
    LET last  == prev[end]
        prev1 == [prev EXCEPT ![next[last]] = prev[first]]
        next1 == [next EXCEPT ![prev[first]] = next[last]]
    IN  /\ prev' = [prev1 EXCEPT ![first] = prev1[before], ![before] = last]
        /\ next' = [next1 EXCEPT ![last] = before, ![prev1[before]] = first]

\* Positions a to b-1 of list l go before position j of list m, which is not
\* one of them.
Moved(l, a, b, m, j) ==
    LET s    == content[l]
        t    == content[m]
        part == SubSeq(s, a, b - 1)
    IN  IF l # m
        THEN [content EXCEPT ![l] = SubSeq(s, 1, a - 1) \o SubSeq(s, b, Len(s)),
                             ![m] = SubSeq(t, 1, j - 1) \o part \o SubSeq(t, j, Len(t))]
        ELSE [content EXCEPT ![l] =
                IF j < a
                THEN SubSeq(s, 1, j - 1) \o part \o SubSeq(s, j, a - 1) \o SubSeq(s, b, Len(s))
                ELSE SubSeq(s, 1, a - 1) \o SubSeq(s, b, j - 1) \o part \o SubSeq(s, j, Len(s))]

Splice(l, a, b, m, j) ==
    /\ a < b /\ (l = m => j \notin a .. b - 1)
    /\ LET before == At(m, j)
           first  == At(l, a)
           end    == At(l, b)
       IN  IF /\ IsInterior(before) \/ IsTail(before)
              /\ IsInterior(end) \/ IsTail(end)
              /\ IsInterior(first) /\ IsInterior(prev[end])
           THEN /\ Relink(before, first, end)
                /\ content' = Moved(l, a, b, m, j)
                /\ UNCHANGED <<reversing, aborted>>
           ELSE Fail

-----------------------------------------------------------------------------
\* list_reverse: its loop swaps the links of one element after the other.
ReverseStart(l) ==
    /\ ~IsEmpty(l)
    /\ reversing' = <<l, next[HeadOf(l)]>>
    /\ UNCHANGED <<prev, next, content, aborted>>

SwapLinks(e) ==
    /\ prev' = [prev EXCEPT ![e] = next[e]]
    /\ next' = [next EXCEPT ![e] = prev[e]]

\* Mutated form of ReverseStep: the loop does not advance.
ReverseStuck ==
    /\ reversing # NULL /\ reversing[2] # TailOf(reversing[1])
    /\ SwapLinks(reversing[2])
    /\ UNCHANGED <<content, reversing, aborted>>

\* Mutated form of ReverseStep: the loop goes on along the swapped link.
ReverseBack ==
    /\ reversing # NULL /\ reversing[2] # TailOf(reversing[1])
    /\ SwapLinks(reversing[2])
    /\ reversing' = <<reversing[1], next'[reversing[2]]>>
    /\ UNCHANGED <<content, aborted>>

ReverseStep ==
    /\ reversing # NULL /\ reversing[2] # TailOf(reversing[1])
    /\ SwapLinks(reversing[2])
    /\ reversing' = <<reversing[1], prev'[reversing[2]]>>
    /\ UNCHANGED <<content, aborted>>

\* The two swaps after the loop.
ReverseEnd ==
    /\ reversing # NULL /\ reversing[2] = TailOf(reversing[1])
    /\ LET l     == reversing[1]
           first == next[HeadOf(l)]
           last  == prev[TailOf(l)]
       IN  /\ next' = [next EXCEPT ![HeadOf(l)] = last, ![first] = prev[last]]
           /\ prev' = [prev EXCEPT ![TailOf(l)] = first, ![last] = next[first]]
           /\ content' = [content EXCEPT ![l] =
                 [i \in 1 .. Len(@) |-> @[Len(@) + 1 - i]]]
    /\ reversing' = NULL
    /\ UNCHANGED aborted

-----------------------------------------------------------------------------
Reversing == ReverseStep \/ ReverseEnd

Operation ==
    /\ reversing = NULL /\ ~aborted
    /\ \E l \in Lists :
        \/ \E e \in Elem : \/ PushFront(l, e) \/ PushBack(l, e)
                           \/ \E i \in 1 .. Len(content[l]) + 1 : InsertBefore(l, i, e)
        \/ \E i \in Places(l) : Remove(l, i)
        \/ PopFront(l) \/ PopBack(l) \/ ReverseStart(l)
        \/ \E m \in Lists : \E a \in Places(l), b \in 1 .. Len(content[l]) + 1,
                               j \in 1 .. Len(content[m]) + 1 : Splice(l, a, b, m, j)

Next == Operation \/ Reversing

Spec == Init /\ [][Next]_vars

\* The loop of list_reverse runs on; a client need not call anything.
FairSpec == Spec /\ WF_vars(Reversing)

-----------------------------------------------------------------------------
(* Properties. *)

\* The links lead from node to node, a list being reversed is one that exists.
ListTypeOK ==
    /\ prev \in [Nodes -> Nodes \cup {NULL}]
    /\ next \in [Nodes -> Nodes \cup {NULL}]
    /\ content \in [Lists -> Seq(Elem)]
    /\ reversing \in (Lists \X Nodes) \cup {NULL}
    /\ aborted \in BOOLEAN

\* Whatever the sequence of calls was, the links of every list lead through
\* exactly its elements, in order from the head to the tail and back: an
\* insertion, removal, splice or reversal that forgets one of the links it must
\* change would leave one of the two directions behind.
Linked ==
    reversing = NULL => \A l \in Lists :
        /\ prev[HeadOf(l)] = NULL /\ next[TailOf(l)] = NULL
        /\ \A i \in 0 .. Len(content[l]) :
              next[At(l, i)] = At(l, i + 1) /\ prev[At(l, i + 1)] = At(l, i)

\* No assertion of list.c fails for a client that keeps to its comments.
AssertionsHold == ~aborted

\* The loop of list_reverse, which follows links that it is changing, ends.
ReverseEnds == reversing # NULL ~> reversing = NULL
=============================================================================
