----------------------------- MODULE MCNetMode -----------------------------
\* NetMode with two addresses on each side, for TLC.
EXTENDS NetMode

Both == {"wifi", "lan"}
\* one kind of access point, edits in between; both kinds, without edits; and
\* both kinds with power cuts
Households ==
    {[kinds |-> {k}, edits |-> 2, cuts |-> 0] : k \in Both}
    \cup {[kinds |-> Both, edits |-> 0, cuts |-> n] : n \in {0, 2}}
\* both kinds and an edit in between
Mixed == {[kinds |-> Both, edits |-> 1, cuts |-> 0]}
=============================================================================
