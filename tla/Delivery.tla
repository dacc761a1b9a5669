------------------------------ MODULE Delivery ------------------------------
(***************************************************************************)
(* What a cipher that works on pieces promises to its user: what it hands  *)
(* out is the message, from its beginning and in order; nothing handed out *)
(* is taken back; and at the end it is all there.                          *)
(***************************************************************************)
EXTENDS Sequences, SequencesExt

VARIABLES message, out, done

Init == out = << >> /\ done = FALSE
Deliver == /\ ~done /\ IsPrefix(out, out') /\ IsPrefix(out', message)
           /\ UNCHANGED <<message, done>>
Finish  == ~done /\ done' /\ out' = message /\ UNCHANGED message
\* the same objects, reset, for the message once more
Again   == done /\ ~done' /\ out' = << >> /\ UNCHANGED message
Next == Deliver \/ Finish \/ Again
Spec == Init /\ [][Next]_<<message, out, done>>
=============================================================================
