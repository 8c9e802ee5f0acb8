------------------------ MODULE MCDiscoveryExecution ------------------------
(* Instances of DiscoveryExecution: a few plans over a few paths.  Preparation names  *)
(* a component by its first path and puts creations before moves before deletions.    *)
EXTENDS DiscoveryExecution

CONSTANTS e1, e2    \* the edits of the user

Plan(kind, id, component, source, destination) ==
    [kind |-> kind, id |-> id, component |-> component,
     source |-> source, destination |-> destination]
Creates(id, component, to) == Plan("create", id, component, None, to)
Moves(id, component, from, to) == Plan("move", id, component, from, to)
Deletes(id, component, from) == Plan("delete", id, component, from, None)

\* Operations that have nothing to do with each other.
Separate == {Moves(1, 1, 1, 2), Creates(2, 3, 3), Deletes(3, 4, 4)}
\* A creation where a page was, which moves to where another one was, which goes.
Chain == {Creates(1, 1, 1), Moves(2, 1, 1, 2), Deletes(3, 1, 2)}
\* The same towards the beginning of the directory.
ChainDown == {Creates(1, 1, 2), Moves(2, 1, 2, 1), Deletes(3, 1, 1)}
\* Two pages that change places.
Swap == {Moves(1, 1, 1, 2), Moves(2, 1, 2, 1)}

AllPlans == {Separate, Chain, ChainDown, Swap}
=============================================================================
