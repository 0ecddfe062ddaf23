----------------------------- MODULE MCStfData ------------------------------
(* Two nodes: the parts of the first one lie in two regions next to each other, with gaps
   that UCX reads over and gaps that it does not; the second one has one part at most. *)
EXTENDS StfData, TLC

MCRegions == ("a" :> {{0}, {1, 2, 3, 4}}) @@ ("b" :> {{0}})
Place(start, len) == [start |-> start, len |-> len]
MCPlaces == ("a" :> {Place(0, 1), Place(1, 1), Place(1, 2), Place(2, 1), Place(4, 1)})
         @@ ("b" :> {Place(0, 1)})
MCParts == ("a" :> 3) @@ ("b" :> 1)
=============================================================================
