--------------------------- MODULE MCPluginStart ---------------------------
(***************************************************************************)
(* TLC instance of PluginStart.  There are eight addresses.  The second    *)
(* image begins where the first ends, and the third ends where the address *)
(* space does, so that start + size is 0 there.                            *)
(***************************************************************************)
EXTENDS PluginStart, TLC

Image(start, size) == [start |-> start, size |-> size]

MCImages == {Image(2, 2), Image(4, 2), Image(6, 2)}

\* Not found; inside the first image; at the end of one and inside the next.
MCFound == {0, 3, 4, 6}

\* Evectors do not change after finaliseRequests and nothing that happens then looks at
\* them, so the kext is only loaded in runs in which nobody has kept elements.
Focus == image # NoImage => \A p \in Plugins : store[p] = EmptyVector /\ deleted[p] = {}

MCSpec ==
  /\ Init /\ [][Next /\ Focus']_vars
  /\ Fairness
=============================================================================
