------------------------------ MODULE MCLogin ------------------------------
(* The browser in two tabs, and a phone. *)
EXTENDS Login, TLC
CONSTANTS tab1, tab2, phone, browser, mobile, t1, t2, p1, p2
MCDeviceOf == tab1 :> browser @@ tab2 :> browser @@ phone :> mobile
\* one tab of each device: the devices may be exchanged
Exchange == tab1 :> phone @@ phone :> tab1 @@ browser :> mobile @@ mobile :> browser
Sym == Permutations({t1, t2}) \cup Permutations({p1, p2}) \cup {Exchange}
=============================================================================
