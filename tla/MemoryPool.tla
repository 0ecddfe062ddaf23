----------------------------- MODULE MemoryPool -----------------------------
(***************************************************************************)
(* What a memory region promises to the code that allocates from it: a     *)
(* block that is handed out overlaps no other block in use, the messages   *)
(* made from it lie inside it and do not overlap, and it becomes free when *)
(* the last of them has come back, not before and not later.               *)
(***************************************************************************)
EXTENDS Integers

CONSTANTS
  Size,   \* bytes of the region
  ALIGN

VARIABLES
  held,   \* the blocks in use
  out     \* the messages that have not come back

vars == <<held, out>>

Ranges == [start : 0..(Size - 1), len : 1..Size]
Bytes(r) == r.start..(r.start + r.len - 1)
Disjoint(a, b) == Bytes(a) \cap Bytes(b) = {}
Within(a, b) == Bytes(a) \subseteq Bytes(b)
Apart(S) == \A a, b \in S : a # b => Disjoint(a, b)
IsBlock(b) == b \in Ranges /\ b.start % ALIGN = 0 /\ b.len % ALIGN = 0 /\ b.start + b.len <= Size
MessagesOf(b, S) == {m \in S : Within(m, b)}

Init == held = {} /\ out = {}

\* A block, possibly with a message that takes all of it but the padding.
Take ==
  \E b \in held' \ held :
    /\ IsBlock(b)
    /\ \A h \in held : Disjoint(b, h)
    /\ held' = held \union {b}
    /\ out \subseteq out'
    /\ \A m \in out' \ out :
         m \in Ranges /\ m.start = b.start /\ m.len <= b.len /\ b.len - m.len < ALIGN
    /\ Apart(out' \ out)

\* Messages, in blocks that had none.
Make ==
  /\ held' = held
  /\ out \subseteq out'
  /\ Apart(out' \ out)
  /\ \A m \in out' \ out : m \in Ranges /\ \E b \in held : Within(m, b) /\ MessagesOf(b, out) = {}

GiveBack ==
  /\ out' \subseteq out
  /\ held' = held \ {b \in held : MessagesOf(b, out) # {} /\ MessagesOf(b, out') = {}}

Next == Take \/ Make \/ GiveBack

Spec == Init /\ [][Next]_vars
=============================================================================
