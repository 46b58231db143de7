----------------------------- MODULE AcceptOnce -----------------------------
(***************************************************************************)
(* What the replay check promises to the rest of a node: a message is      *)
(* accepted near the time stamped on it, and not again before a window has *)
(* passed.  Nothing here says how the node remembers what it accepted.     *)
(***************************************************************************)
EXTENDS Integers

CONSTANT Window     \* replay_window_secs

VARIABLES
    now,    \* the clock of the node
    log     \* what this process has accepted: sender, nonce, stamp and time

vars == <<now, log>>

Init == now = 0 /\ log = {}

OnTime(e) == e.ts - Window <= e.at /\ e.at <= e.ts + Window

SameMessage(d, e) == d.from = e.from /\ d.nonce = e.nonce

Accept ==
    /\ log \subseteq log'
    /\ \A e \in log' \ log :
          /\ e.at = now /\ OnTime(e)
          /\ \A d \in log : SameMessage(d, e) => now - d.at > Window
    /\ UNCHANGED now

Tick == now' = now + 1 /\ UNCHANGED log

\* A process that starts again has no memory of its predecessor.
Restart == log' = {} /\ UNCHANGED now

Next == Accept \/ Tick \/ Restart

Spec == Init /\ [][Next]_vars

\* A message that is stamped no later than it is accepted, as every message of
\* a sender whose clock is not ahead, is accepted at most once by a process.
AtMostOnce ==
    \A d, e \in log :
        /\ SameMessage(d, e) /\ d.ts = e.ts
        /\ d.ts <= d.at /\ e.ts <= e.at
        => d.at = e.at
=============================================================================
