---------------------------- MODULE VersionedStore ----------------------------
(***************************************************************************)
(* What the document table promises: a URL has at most one document, a      *)
(* document is the list of its contents, and observing the content that is  *)
(* already there adds nothing.  One observation is one step.                *)
(***************************************************************************)
EXTENDS Sequences

CONSTANTS Urls, Contents

VARIABLE history    \* the contents each URL was seen with, oldest first

Latest(u) == history[u][Len(history[u])]

Observe(u, c) ==
    /\ history[u] = <<>> \/ Latest(u) # c
    /\ history' = [history EXCEPT ![u] = Append(@, c)]

Init == history = [u \in Urls |-> <<>>]

Next == \E u \in Urls, c \in Contents : Observe(u, c)

Spec == Init /\ [][Next]_history
=============================================================================
