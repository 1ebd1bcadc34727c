---------------------------- MODULE IntervalSet ----------------------------
(***************************************************************************)
(* The lists of intervals that stand for domains of variables (clingcon's  *)
(* interval.h): ascending, half open, neither touching nor empty.          *)
(*                                                                         *)
(* Undefined stands for what comes of a union that goes on from a position *)
(* unite() did not return, and for all that is computed from it.           *)
(***************************************************************************)
EXTENDS Integers, Sequences, SequencesExt

Interval(left, right) == [left |-> left, right |-> right]

Undefined == <<Interval(0, 0)>>

Larger(a, b) == IF a > b THEN a ELSE b
Smaller(a, b) == IF a < b THEN a ELSE b

(* intersect(): i runs through iv, j through the list; what j is past is   *)
(* erased, what ends inside j is inserted before it, and what is left when *)
(* iv ends is erased.                                                      *)
Intersect(list, iv) ==
    LET both(a, b) == Interval(Larger(a.left, b.left), Smaller(a.right, b.right))
        from[j \in 1 .. Len(list) + 1, i \in 1 .. Len(iv) + 1] ==
            CASE j > Len(list) \/ i > Len(iv) -> <<>>
              [] OTHER ->
                CASE iv[i].left >= list[j].right -> from[j + 1, i]
                  [] iv[i].right <= list[j].left -> from[j, i + 1]
                  [] OTHER -> <<both(list[j], iv[i])>> \o
                              (IF iv[i].right < list[j].right THEN from[j, i + 1] ELSE from[j + 1, i])
    IN IF Undefined \in {list, iv} THEN Undefined ELSE from[1, 1]

(* complement(): the gaps, from the left end of iv on.                     *)
Complement(list, iv) ==
    LET step(acc, j) ==
            [left |-> Smaller(j.right, iv.right),
             gaps |-> IF j.left <= acc.left THEN acc.gaps ELSE Append(acc.gaps, Interval(acc.left, j.left))]
        end == FoldLeft(step, [left |-> iv.left, gaps |-> <<>>], list)
    IN CASE list = Undefined -> Undefined
         [] end.left < iv.right -> Append(end.gaps, Interval(end.left, iv.right))
         [] OTHER -> end.gaps

(* fix(): interval j swallows those that it reaches.                       *)
Fix(list, j) ==
    LET beyond == {k \in j + 1 .. Len(list) : list[j].right < list[k].left}
        last == IF beyond = {} THEN Len(list) ELSE Min(beyond) - 1
        whole == Interval(list[j].left, Larger(list[j].right, list[last].right))
    IN SubSeq(list, 1, j - 1) \o <<whole>> \o SubSeq(list, last + 1, Len(list))

(* unite() of one interval, from a position on.  The position returned is  *)
(* where to go on; after push_back the function ends without a return.     *)
NoReturn == 0

UniteFrom(list, v, from) ==
    LET reached == {j \in from .. Len(list) : v.left <= list[j].right}
        j == Min(reached)
        merged == Interval(Smaller(v.left, list[j].left), Larger(v.right, list[j].right))
    IN CASE reached = {} -> [list |-> Append(list, v), at |-> NoReturn]
         [] OTHER -> [list |-> IF v.right < list[j].left THEN InsertAt(list, j, v)
                               ELSE Fix([list EXCEPT ![j] = merged], j),
                      at |-> j]

(* unite() of two lists goes on from the position that was returned, and   *)
(* without one anywhere.                                                   *)
Unite(list, iv) ==
    LET step(acc, v) ==
            IF acc.list = Undefined \/ acc.at = NoReturn THEN [list |-> Undefined, at |-> NoReturn]
            ELSE UniteFrom(acc.list, v, acc.at)
    IN IF Undefined \in {list, iv} THEN Undefined ELSE FoldLeft(step, [list |-> list, at |-> 1], iv).list

(* The values of a list.                                                   *)
ValuesOf(list) == UNION {list[j].left .. list[j].right - 1 : j \in DOMAIN list}

WellFormed(list) ==
    /\ \A j \in DOMAIN list : list[j].left < list[j].right
    /\ \A j \in 1 .. Len(list) - 1 : list[j].right < list[j + 1].left
=============================================================================
