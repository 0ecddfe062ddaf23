-------------------------- MODULE MCRegionAllocator --------------------------
(* Instances of RegionAllocator: two threads, a region of three aligned blocks. *)
EXTENDS RegionAllocator

CONSTANTS t1, t2

\* A region of data, and one of headers in a process that goes on without.
Data == [strategy |-> "eFindLongest", tracking |-> "eRefCount", canFail |-> FALSE]
Headers == [strategy |-> "eFindFirst", tracking |-> "eExactRegion", canFail |-> TRUE]
DataAndHeaders == {Data, Headers}
OnlyData == {Data}

Whole(size) == [size |-> size, parts |-> {Span(0, size)}]
Split(first, second) ==
  [size |-> first + second, parts |-> {Span(0, first), Span(first, second)}]

\* One block with two messages, and two blocks of one message.
Short == {<<Split(1, 2)>>, <<Whole(1), Whole(2)>>}
=============================================================================
