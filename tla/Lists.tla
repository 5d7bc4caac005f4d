-------------------------------- MODULE Lists --------------------------------
(***************************************************************************)
(* List<Items> (List.cpp, of which each program has a copy): an array that *)
(* grows.  `items' are the elements, `allocated' the number of places, and *)
(* start_from the index of the first element for value, but not for        *)
(* update.                                                                 *)
(***************************************************************************)
EXTENDS Integers, Sequences

\* List(initial_size), with the assertion of the constructor.
CanCreate(initial_size) == initial_size > 0

NewList(initial_size) ==
  [items |-> <<>>, allocated |-> initial_size, start_from |-> 0]

\* int(allocated * 1.5)
AllocateMore(list) == [list EXCEPT !.allocated = (@ * 3) \div 2]

\* Mutant: the list grows when it is over-full already.
AppendTooLate(list, item) ==
  LET room == IF Len(list.items) > list.allocated THEN AllocateMore(list) ELSE list
  IN [room EXCEPT !.items = Append(@, item)]

AppendElement(list, item) ==
  LET room == IF Len(list.items) >= list.allocated THEN AllocateMore(list) ELSE list
  IN [room EXCEPT !.items = Append(@, item)]

Exists(list, query) == \E k \in DOMAIN list.items : list.items[k] = query

\* The assertions of value and update, and what they do if it holds.
InRange(list, i) == i - list.start_from \in 0 .. Len(list.items)-1

Value(list, i) == list.items[i - list.start_from + 1]

Update(list, i, item) == [list EXCEPT !.items[i + 1] = item]

\* No element lies behind the end of the array.
Fits(list) == Len(list.items) <= list.allocated
=============================================================================
