---------------------------- MODULE MCEventLoop ----------------------------
(***************************************************************************)
(* Instances of EventLoop for TLC: two peers, and scenarios that each let  *)
(* a few kinds of events meet.                                             *)
(***************************************************************************)
EXTENDS EventLoop, TLC

CONSTANTS p1, p2, a1, a2, local, o1, d1, d2, big

MCRank == (p1 :> 1) @@ (p2 :> 2)

MCPieces == (d1 :> 2) @@ (d2 :> 1) @@ (big :> 2)

\* Listen addresses: two public ones, or one that is not public.
MCAddrLists == {<<a1, a2>>, <<local>>}

Nothing == [k \in Kinds |-> 0]

Quiet == [budget |-> Nothing, env |-> {}, file |-> NoRecords, attached |-> FALSE,
          activated |-> Peer]

Allows(more) == [k \in Kinds |-> IF k \in DOMAIN more THEN more[k] ELSE 0]

MCScenarios == {
    \* connections that open, close and are turned away
    [Quiet EXCEPT !.budget = Allows([open |-> 3, verdict |-> 2])],
    \* addresses, failed writes and restarts
    [Quiet EXCEPT !.budget = Allows([open |-> 2, identify |-> 2, fault |-> 1])],
    [Quiet EXCEPT !.budget = Allows([open |-> 2, identify |-> 2, crash |-> 1])],
    \* a start with bootstrap peers, with a file to normalise
    [Quiet EXCEPT !.budget = Allows([open |-> 1, identify |-> 1]), !.file = (p1 :> local) @@ (p2 :> a2)],
    [Quiet EXCEPT !.file = Torn, !.env = {p2}, !.budget = Allows([relay |-> 1])],
    [Quiet EXCEPT !.file = Torn, !.budget = Allows([open |-> 1, identify |-> 1])],
    \* calls of handlers and of tasks
    [Quiet EXCEPT !.budget = Allows([onboard |-> 1, request |-> 1])],
    [Quiet EXCEPT !.budget = Allows([vote |-> 2])],
    [Quiet EXCEPT !.budget = Allows([open |-> 1, identify |-> 1]), !.activated = {}],
    \* storage
    [Quiet EXCEPT !.attached = TRUE, !.budget = Allows([put |-> 3, get |-> 1, crash |-> 1])],
    [Quiet EXCEPT !.budget = Allows([put |-> 1, get |-> 1])] }
=============================================================================
