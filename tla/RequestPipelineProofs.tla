----------------------- MODULE RequestPipelineProofs -----------------------
(***************************************************************************)
(* Proofs about RequestPipeline for every number of peers, nonces, files   *)
(* and messages and every window and limit: the handlers implement         *)
(* AcceptOnce, the token bucket and the limiter of onboarding bound what   *)
(* they let through, the nonce cache forgets a recent nonce only under     *)
(* pressure, and the authority list only moves forward and stays signed.   *)
(***************************************************************************)
EXTENDS RequestPipeline, FiniteSetTheorems, WellFoundedInduction, TLAPS

-----------------------------------------------------------------------------
(* The replay check *)

Entries == [from : Peer, nonce : Nonces, ts : Nat, at : Nat]

Sighting(e) == [nonce |-> e.nonce, at |-> e.at]

\* What was accepted within the window is still in the bucket of its sender.
Remembered(r, l) ==
    \A e \in l :
        /\ e.at <= now
        /\ now - e.at <= ReplayWindow => Sighting(e) \in r.seen[e.from]

\* A step from log l to log l2 that AcceptOnce allows.
AcceptsFresh(l, l2) ==
    /\ l \subseteq l2
    /\ \A e \in l2 \ l :
          /\ e.at = now /\ AO!OnTime(e)
          /\ \A d \in l : AO!SameMessage(d, e) => now - d.at > ReplayWindow

ReplayInv ==
    /\ now \in Nat
    /\ todo \subseteq Messages /\ net \subseteq Messages /\ woken \subseteq Messages
    /\ replay \in ReplayStates
    /\ log \subseteq Entries
    /\ Remembered(replay, log)

\* The sweep and the pruning of a bucket forget nothing of the last window.
LEMMA SweepKeeps ==
    ASSUME NEW r \in ReplayStates, NEW t \in Nat, NEW p \in Peer
    PROVE  /\ Swept(r, t) \in ReplayStates
           /\ \A q \in Peer : Swept(r, t).seen[q] \subseteq r.seen[q]
           /\ \A q \in Peer : Live(r.seen[q], t) \subseteq Swept(r, t).seen[q]
           /\ Bucket(r, p, t) = Live(r.seen[p], t)
BY Zenon DEF ReplayStates, Swept, Live, Bucket

\* What check_common leaves behind is a replay state that holds everything the
\* last window saw, and the new nonce if it was admitted.
LEMMA CheckCommonKeeps ==
    ASSUME NEW r \in ReplayStates, NEW t \in Nat, NEW ts \in Nat, NEW p \in Peer,
           NEW nonce \in Nonces
    PROVE  /\ CheckCommon(r, p, nonce, ts, t) \in ReplayStates
           /\ \A q \in Peer : Live(r.seen[q], t) \subseteq CheckCommon(r, p, nonce, ts, t).seen[q]
           /\ Admits(r, p, nonce, ts, t) =>
                  [nonce |-> nonce, at |-> t] \in CheckCommon(r, p, nonce, ts, t).seen[p]
<1> DEFINE s == Swept(r, t)
           b == Bucket(r, p, t)
           new == IF Admits(r, p, nonce, ts, t) THEN b \cup {[nonce |-> nonce, at |-> t]} ELSE b
           c == CheckCommon(r, p, nonce, ts, t)
<1>1. s \in ReplayStates /\ b = Live(r.seen[p], t)
      /\ \A q \in Peer : Live(r.seen[q], t) \subseteq s.seen[q]
  BY Zenon, SweepKeeps
<1>2. b \in SUBSET Sightings
  BY Zenon, <1>1 DEF ReplayStates, Live
<1>3. new \in SUBSET Sightings
  BY <1>2 DEF Sightings
<1>4. CASE ~InWindow(ts, t)
  BY Zenon, <1>4 DEF CheckCommon, Admits, ReplayStates, Live
<1>5. CASE InWindow(ts, t)
  <2>1. c = [tracked |-> s.tracked \cup {p}, seen |-> [s.seen EXCEPT ![p] = new]]
    BY Zenon, <1>5 DEF CheckCommon
  <2> HIDE DEF s, b, c
  <2>2. c \in ReplayStates
    BY Zenon, <1>1, <1>3, <2>1 DEF ReplayStates
  <2>3. c.seen[p] = new /\ \A q \in Peer \ {p} : c.seen[q] = s.seen[q]
    BY Zenon, <1>1, <2>1 DEF ReplayStates
  <2>4. QED
    BY Zenon, <1>1, <2>2, <2>3 DEF c
<1>6. QED
  BY Zenon, <1>4, <1>5

\* One verification, whichever checks follow check_common: the entry it adds, if
\* any, is one that AcceptOnce allows, and is remembered like the others.
LEMMA VerifiedOnce ==
    ASSUME now \in Nat, NEW r \in ReplayStates, NEW l \in SUBSET Entries, Remembered(r, l),
           NEW p \in Peer, NEW m \in Messages, NEW checks,
           NEW v, v = Verified(r, p, m, now, checks)
    PROVE  /\ v.replay \in ReplayStates
           /\ l \cup Accepted(v, p, m) \in SUBSET Entries
           /\ Remembered(v.replay, l \cup Accepted(v, p, m))
           /\ AcceptsFresh(l, l \cup Accepted(v, p, m))
<1> DEFINE c == CheckCommon(r, p, m.nonce, m.ts, now)
           ok == Admits(r, p, m.nonce, m.ts, now)
           e == [from |-> p, nonce |-> m.nonce, ts |-> m.ts, at |-> now]
<1>1. m.nonce \in Nonces /\ m.ts \in Nat
  BY Zenon DEF Messages
<1>2. v.replay = c /\ (v.ok <=> ok /\ checks)
  BY Zenon DEF Verified
<1>3. /\ c \in ReplayStates
      /\ \A q \in Peer : Live(r.seen[q], now) \subseteq c.seen[q]
      /\ ok => Sighting(e) \in c.seen[p]
  BY Zenon, <1>1, CheckCommonKeeps DEF Sighting
<1>4. e \in Entries
  BY Zenon, <1>1 DEF Entries
<1>5. Accepted(v, p, m) \subseteq {e} /\ (Accepted(v, p, m) # {} => ok)
  BY <1>2 DEF Accepted, Entry
<1>6. \A d \in l : now - d.at <= ReplayWindow => Sighting(d) \in Live(r.seen[d.from], now)
  <2> SUFFICES ASSUME NEW d \in l, now - d.at <= ReplayWindow
               PROVE  Sighting(d) \in Live(r.seen[d.from], now)
    BY Zenon
  <2>1. d \in Entries /\ d.at <= now /\ Sighting(d) \in r.seen[d.from]
    BY Zenon DEF Remembered
  <2>2. Sighting(d).at = d.at /\ AbsDiff(now, d.at) = now - d.at
    BY Zenon, <2>1 DEF Sighting, AbsDiff, Entries
  <2>3. QED
    BY Zenon, <2>1, <2>2 DEF Live
<1>7. Remembered(c, l)
  <2>1. \A d \in l : d.from \in Peer /\ d.at <= now
    BY Zenon DEF Entries, Remembered
  <2>2. QED
    BY Zenon, <1>3, <1>6, <2>1 DEF Remembered
<1>8. ok => Remembered(c, l \cup {e})
  <2>1. ok => e.at <= now /\ Sighting(e) \in c.seen[e.from]
    BY <1>3
  <2>2. QED
    BY Zenon, <1>7, <2>1 DEF Remembered
<1>9. ok => /\ AO!OnTime(e)
            /\ \A d \in l : AO!SameMessage(d, e) => now - d.at > ReplayWindow
  <2> SUFFICES ASSUME ok
               PROVE  /\ AO!OnTime(e)
                      /\ \A d \in l : AO!SameMessage(d, e) => now - d.at > ReplayWindow
    BY Zenon
  <2>1. AbsDiff(now, m.ts) <= ReplayWindow
    BY Zenon DEF Admits, InWindow
  <2>2. AO!OnTime(e)
    BY <1>1, <2>1, GuardsAssumption DEF AO!OnTime, AbsDiff
  <2>3. \A x \in Live(r.seen[p], now) : x.nonce # m.nonce
    BY Zenon, SweepKeeps DEF Admits
  <2>4. \A d \in l : AO!SameMessage(d, e) => ~(now - d.at <= ReplayWindow)
    <3> SUFFICES ASSUME NEW d \in l, AO!SameMessage(d, e), now - d.at <= ReplayWindow
                 PROVE  FALSE
      BY Zenon
    <3>1. d.from = p /\ d.nonce = m.nonce
      BY Zenon DEF AO!SameMessage
    <3>2. Sighting(d) \in Live(r.seen[p], now)
      BY Zenon, <1>6, <3>1
    <3>3. Sighting(d).nonce = m.nonce
      BY Zenon, <3>1 DEF Sighting
    <3>4. QED
      BY Zenon, <2>3, <3>2, <3>3
  <2>5. \A d \in l : now - d.at \in Int
    BY DEF Entries
  <2>6. QED
    BY <2>2, <2>4, <2>5, GuardsAssumption
<1> HIDE DEF c, ok
<1>10. AcceptsFresh(l, l \cup Accepted(v, p, m))
  <2>1. \A x \in (l \cup Accepted(v, p, m)) \ l : x = e /\ ok
    BY Zenon, <1>5
  <2>2. e.at = now
    BY Zenon
  <2> HIDE DEF e
  <2>3. QED
    BY Zenon, <1>9, <2>1, <2>2 DEF AcceptsFresh
<1>11. Remembered(c, l \cup Accepted(v, p, m))
  <2>1. Accepted(v, p, m) = {} \/ (ok /\ Accepted(v, p, m) = {e})
    BY Zenon, <1>5
  <2>2. QED
    BY Zenon, <1>7, <1>8, <2>1
<1>12. QED
  BY Zenon, <1>2, <1>3, <1>4, <1>5, <1>10, <1>11

\* A handler that makes one verification is a step of AcceptOnce.
LEMMA OneVerification ==
    ASSUME ReplayInv, NEW p \in Peer, NEW m \in Messages, NEW checks,
           NEW v, v = Verified(replay, p, m, now, checks),
           replay' = v.replay, log' = log \cup Accepted(v, p, m),
           now' = now, todo' = todo, net' = net, woken' \subseteq Messages
    PROVE  ReplayInv' /\ AO!Accept
<1>1. /\ v.replay \in ReplayStates
      /\ log' \in SUBSET Entries
      /\ Remembered(v.replay, log')
      /\ AcceptsFresh(log, log')
  BY Zenon, VerifiedOnce DEF ReplayInv
<1>2. Remembered(replay, log)'
  BY Zenon, <1>1 DEF Remembered
<1>3. ReplayInv'
  BY Zenon, <1>1, <1>2 DEF ReplayInv
<1>4. QED
  BY Zenon, <1>1, <1>3 DEF AcceptsFresh, AO!Accept

\* Steps that leave the clock, the log and the replay state alone.
LEMMA NoVerification ==
    ASSUME ReplayInv, UNCHANGED <<now, log, replay>>,
           todo' \subseteq Messages, net' \subseteq Messages, woken' \subseteq Messages
    PROVE  ReplayInv' /\ UNCHANGED <<now, log>>
<1>1. Remembered(replay, log)'
  BY Zenon DEF ReplayInv, Remembered
<1>2. QED
  BY Zenon, <1>1 DEF ReplayInv

\* The message in the body of a message is a message.
LEMMA EmbeddedIsMessage ==
    ASSUME NEW m \in Messages, NEW kind \in Kinds
    PROVE  Embedded(m, kind) \in Messages
BY Zenon DEF Embedded, Messages, Nonces

\* Every handler takes at most one step of AcceptOnce.
LEMMA HandlersAccept ==
    ASSUME ReplayInv, NEW p \in Peer, NEW m \in net, Handle(p, m)
    PROVE  ReplayInv' /\ (AO!Accept \/ UNCHANGED <<now, log>>)
<1> m \in Messages /\ todo \subseteq Messages /\ net \subseteq Messages /\ woken \subseteq Messages
  BY Zenon DEF ReplayInv
<1>1. CASE GatewayRequest(p, m)
  BY Zenon, <1>1, OneVerification DEF GatewayRequest, VerifyGatewayRequest
<1>2. CASE GatewayResponse(p, m)
  BY Zenon, <1>2, OneVerification DEF GatewayResponse, OnlyVerifies, RestUnchanged, VerifyGatewayResponse
<1>3. CASE WebRequest(p, m)
  BY Zenon, <1>3, OneVerification DEF WebRequest, OnlyVerifies, RestUnchanged, VerifyWebRequest
<1>4. CASE WebResponse(p, m)
  BY Zenon, <1>4, OneVerification DEF WebResponse, OnlyVerifies, RestUnchanged, VerifyWebResponse
<1>5. CASE ConfigRequest(p, m)
  BY Zenon, <1>5, OneVerification DEF ConfigRequest, OnlyVerifies, RestUnchanged, VerifyConfigRequest
<1>6. CASE ConfigResponse(p, m)
  BY Zenon, <1>6, OneVerification DEF ConfigResponse, RestUnchanged, VerifyConfigResponse
<1>7. ASSUME NEW wrapped \in BOOLEAN, DirectRequest(p, m, wrapped)
      PROVE  ReplayInv' /\ AO!Accept
  <2> DEFINE v == VerifyRequest(replay, keys, p, m, now)
             c == Embedded(m, "config_request")
             w == VerifyConfigRequest(v.replay, keys, p, c, now)
             l == log \cup Accepted(v, p, m)
             embeds == v.ok /\ m.inner # NoNonce
  <2>1. /\ replay' = IF embeds THEN w.replay ELSE v.replay
        /\ log' = l \cup (IF embeds THEN Accepted(w, p, c) ELSE {})
        /\ UNCHANGED <<now, todo, net, woken>>
    BY Zenon, <1>7 DEF DirectRequest, RestUnchanged
  <2>2. CASE ~embeds
    <3>1. v = Verified(replay, p, m, now, KeyVerifies(keys, p, m) /\ ForUs(p, m))
      BY Zenon DEF VerifyRequest
    <3> HIDE DEF v, w, c, l, embeds
    <3>2. replay' = v.replay /\ log' = log \cup Accepted(v, p, m)
      BY Zenon, <2>1, <2>2 DEF l
    <3>3. QED
      BY Zenon, <2>1, <3>1, <3>2, OneVerification
  <2>3. CASE embeds
    <3>1. v = Verified(replay, p, m, now, KeyVerifies(keys, p, m) /\ ForUs(p, m))
      BY Zenon DEF VerifyRequest
    <3>2. w = Verified(v.replay, p, c, now, ForUs(p, c) /\ KeyVerifies(keys, p, c))
      BY Zenon DEF VerifyConfigRequest
    <3>3. c \in Messages
      BY Zenon, EmbeddedIsMessage DEF Kinds
    <3> HIDE DEF v, w, c
    <3>4. /\ v.replay \in ReplayStates /\ l \in SUBSET Entries
          /\ Remembered(v.replay, l) /\ AcceptsFresh(log, l)
      BY Zenon, <3>1, VerifiedOnce DEF ReplayInv
    <3>5. /\ w.replay \in ReplayStates /\ l \cup Accepted(w, p, c) \in SUBSET Entries
          /\ Remembered(w.replay, l \cup Accepted(w, p, c))
          /\ AcceptsFresh(l, l \cup Accepted(w, p, c))
      <4> now \in Nat
        BY Zenon DEF ReplayInv
      <4> HIDE DEF l
      <4> DEFINE r == v.replay
                 ok == ForUs(p, c) /\ KeyVerifies(keys, p, c)
      <4>1. w = Verified(r, p, c, now, ok) /\ r \in ReplayStates /\ l \in SUBSET Entries
            /\ Remembered(r, l)
        BY Zenon, <3>2, <3>4
      <4> HIDE DEF r, ok
      <4>2. QED
        BY Zenon, <3>3, <4>1, VerifiedOnce
    <3>6. replay' = w.replay /\ log' = l \cup Accepted(w, p, c)
      BY Zenon, <2>1, <2>3
    <3> HIDE DEF l
    <3>7. AcceptsFresh(log, log')
      <4> DEFINE Fresh(k, e) == /\ e.at = now /\ AO!OnTime(e)
                                /\ \A d \in k : AO!SameMessage(d, e) => now - d.at > ReplayWindow
      <4>1. log \subseteq l /\ \A e \in l \ log : Fresh(log, e)
        BY Zenon, <3>4 DEF AcceptsFresh
      <4>2. l \subseteq log' /\ \A e \in log' \ l : Fresh(l, e)
        BY Zenon, <3>5, <3>6 DEF AcceptsFresh
      <4>3. \A e \in log' \ l : Fresh(log, e)
        BY Zenon, <4>1, <4>2
      <4>4. log \subseteq log' /\ \A e \in log' \ log : Fresh(log, e)
        <5> HIDE DEF Fresh
        <5>1. QED
          BY Zenon, <4>1, <4>2, <4>3
      <4>5. QED
        BY Zenon, <4>4 DEF AcceptsFresh
    <3>8. Remembered(replay, log)'
      BY Zenon, <2>1, <3>5, <3>6 DEF Remembered
    <3>9. ReplayInv'
      BY Zenon, <2>1, <3>5, <3>6, <3>8 DEF ReplayInv
    <3>10. QED
      BY Zenon, <2>1, <3>7, <3>9 DEF AcceptsFresh, AO!Accept
  <2>4. QED
    BY Zenon, <2>2, <2>3
<1>8. CASE DirectResponse(p, m)
  <2>1. Embedded(m, "config_response") \in Messages
    BY Zenon, EmbeddedIsMessage DEF Kinds
  <2>2. woken' \subseteq Messages
    BY Zenon, <1>8, <2>1 DEF DirectResponse
  <2>3. QED
    BY Zenon, <1>8, <2>2, OneVerification DEF DirectResponse, RestUnchanged, VerifyResponseBytes
<1>9. CASE OnboardRequest(p, m)
  BY Zenon, <1>9, NoVerification DEF OnboardRequest
<1>10. QED
  BY Zenon, <1>1, <1>2, <1>3, <1>4, <1>5, <1>6, <1>7, <1>8, <1>9 DEF Handle

\* Every step of the node is a step of AcceptOnce or leaves what it speaks of
\* alone, and keeps the invariant.
LEMMA StepAccepts ==
    ASSUME ReplayInv, Next
    PROVE  ReplayInv' /\ (AO!Next \/ UNCHANGED <<now, log>>)
<1> todo \subseteq Messages /\ net \subseteq Messages /\ woken \subseteq Messages /\ now \in Nat
  BY Zenon DEF ReplayInv
<1>1. ASSUME NEW p \in Remote, NEW m \in net, Handle(p, m)
      PROVE  ReplayInv' /\ (AO!Next \/ UNCHANGED <<now, log>>)
  BY Zenon, <1>1, HandlersAccept DEF Remote, AO!Next
<1>2. ASSUME NEW p \in Remote, NEW c \in woken, PolicySynced(p, c)
      PROVE  ReplayInv' /\ (AO!Next \/ UNCHANGED <<now, log>>)
  <2>1. p \in Peer /\ c \in Messages /\ woken' \subseteq Messages
    BY Zenon, <1>2 DEF Remote, PolicySynced
  <2>2. QED
    BY Zenon, <1>2, <2>1, OneVerification DEF PolicySynced, RestUnchanged, VerifyConfigResponse, AO!Next
<1>3. ASSUME NEW m \in todo, Send(m)
      PROVE  ReplayInv' /\ (AO!Next \/ UNCHANGED <<now, log>>)
  <2>1. [m EXCEPT !.ts = now + @] \in Messages
    BY DEF Messages
  <2>2. todo' \subseteq Messages /\ net' \subseteq Messages /\ woken' \subseteq Messages
    BY Zenon, <1>3, <2>1 DEF Send
  <2>3. UNCHANGED <<now, log, replay>>
    BY Zenon, <1>3 DEF Send, security, history
  <2>4. QED
    BY Zenon, <2>2, <2>3, NoVerification
<1>4. CASE Tick
  <2>1. now' = now + 1 /\ UNCHANGED <<todo, net, woken, replay, log>>
    BY Zenon, <1>4 DEF Tick, security
  <2>2. \A e \in log : e.at \in Nat
    BY Zenon DEF ReplayInv, Entries
  <2>3. Remembered(replay, log)'
    BY <2>1, <2>2, GuardsAssumption DEF ReplayInv, Remembered
  <2>4. QED
    BY <2>1, <2>3 DEF ReplayInv, AO!Next, AO!Tick
<1>5. CASE Restart
  <2>1. log' = {} /\ replay' = NothingSeen /\ woken' = {} /\ UNCHANGED <<now, todo, net>>
    BY Zenon, <1>5 DEF Restart
  <2>2. NothingSeen \in ReplayStates
    BY Zenon DEF NothingSeen, ReplayStates
  <2>3. Remembered(replay, log)'
    BY Zenon, <2>1 DEF Remembered
  <2>4. QED
    BY Zenon, <2>1, <2>2, <2>3 DEF ReplayInv, AO!Next, AO!Restart
<1>6. ASSUME NEW p \in Remote, RegisterPeer(p) \/ QuarantinePeer(p)
      PROVE  ReplayInv' /\ UNCHANGED <<now, log>>
  BY Zenon, <1>6, NoVerification DEF RegisterPeer, QuarantinePeer, security, history
<1>7. CASE ReloadPolicy \/ Reconcile
  BY Zenon, <1>7, NoVerification DEF ReloadPolicy, Reconcile, security, history
<1>8. ASSUME NEW f \in Files, InstallFile(f)
      PROVE  ReplayInv' /\ UNCHANGED <<now, log>>
  BY Zenon, <1>8, NoVerification DEF InstallFile, security, history
<1>9. ASSUME NEW p \in Peer, ConfirmPeer(p, Required)
      PROVE  ReplayInv' /\ UNCHANGED <<now, log>>
  BY Zenon, <1>9, NoVerification DEF ConfirmPeer, security, history
<1>10. QED
  BY Zenon, <1>1, <1>2, <1>3, <1>4, <1>5, <1>6, <1>7, <1>8, <1>9 DEF Next

\* The messages of a scenario are messages.
LEMMA ReplayInvInit == Init => ReplayInv
<1> SUFFICES ASSUME Init PROVE ReplayInv
  BY Zenon
<1>1. todo \subseteq Messages
  BY Zenon, PipelineAssumption DEF Init
<1>2. NothingSeen \in ReplayStates
  BY Zenon DEF NothingSeen, ReplayStates
<1>3. QED
  BY Zenon, <1>1, <1>2 DEF Init, ReplayInv, Remembered

\* Next, or a step that changes nothing, keeps the invariant.
LEMMA ReplayInvStep ==
    ReplayInv /\ [Next]_vars => ReplayInv' /\ [AO!Next]_<<now, log>>
<1> SUFFICES ASSUME ReplayInv, [Next]_vars PROVE ReplayInv' /\ [AO!Next]_<<now, log>>
  BY Zenon
<1>1. CASE Next
  BY Zenon, <1>1, StepAccepts
<1>2. CASE UNCHANGED vars
  BY Zenon, <1>2, NoVerification DEF vars, security, history, ReplayInv
<1>3. QED
  BY Zenon, <1>1, <1>2

\* Refinement: with its buckets, caps, sweeps, keys and policies, and whatever
\* the messages, windows and limits are, the node implements AcceptOnce.
THEOREM NodeImplementsAcceptOnce == Spec => AcceptsOnce
<1>1. Init => AO!Init
  BY Zenon DEF Init, AO!Init
<1>2. QED
  BY <1>1, ReplayInvInit, ReplayInvStep, PTL DEF Spec, AcceptsOnce, AO!Spec, AO!vars

\* The acceptances of one message by a process are more than a window apart.
Apart ==
    \A d, e \in log :
        /\ AO!OnTime(e)
        /\ AO!SameMessage(d, e) /\ d.at < e.at => e.at - d.at > ReplayWindow

\* A step of AcceptOnce keeps the acceptances apart.
LEMMA ApartStep ==
    ASSUME ReplayInv, ReplayInv', Apart, [AO!Next]_<<now, log>>
    PROVE  Apart'
<1> now \in Nat /\ \A e \in log : e.at \in Nat /\ e.at <= now
  BY Zenon DEF ReplayInv, Remembered, Entries
<1>1. CASE AO!Accept
  <2> SUFFICES ASSUME NEW d \in log', NEW e \in log'
               PROVE  /\ AO!OnTime(e)
                      /\ AO!SameMessage(d, e) /\ d.at < e.at => e.at - d.at > ReplayWindow
    BY Zenon DEF Apart, AO!OnTime, AO!SameMessage
  <2>1. \A x \in log' \ log :
            /\ x.at = now /\ AO!OnTime(x)
            /\ \A y \in log : AO!SameMessage(y, x) => now - y.at > ReplayWindow
    BY Zenon, <1>1 DEF AO!Accept
  <2>2. CASE e \in log /\ d \in log
    BY Zenon, <2>2 DEF Apart
  <2>3. CASE e \in log /\ d \notin log
    BY <2>1, <2>3 DEF Apart
  <2>4. CASE e \notin log
    <3>1. e.at = now /\ AO!OnTime(e)
      BY Zenon, <2>1, <2>4
    <3>2. d \in log => (AO!SameMessage(d, e) => now - d.at > ReplayWindow)
      BY Zenon, <2>1, <2>4
    <3>3. d \notin log => d.at = now
      BY Zenon, <2>1
    <3>4. QED
      BY <3>1, <3>2, <3>3
  <2>5. QED
    BY Zenon, <2>2, <2>3, <2>4
<1>2. CASE AO!Tick \/ UNCHANGED <<now, log>>
  BY Zenon, <1>2 DEF AO!Tick, Apart, AO!OnTime, AO!SameMessage
<1>3. CASE AO!Restart
  BY Zenon, <1>3 DEF AO!Restart, Apart
<1>4. QED
  BY Zenon, <1>1, <1>2, <1>3 DEF AO!Next

\* A message stamped no later than it is accepted fits only one window.
LEMMA ApartMeansOnce ==
    ASSUME ReplayInv, Apart
    PROVE  AcceptedAtMostOnce
<1> SUFFICES ASSUME NEW d \in log, NEW e \in log, AO!SameMessage(d, e), d.ts = e.ts,
                    d.ts <= d.at, e.ts <= e.at
             PROVE  d.at = e.at
  BY Zenon DEF AcceptedAtMostOnce, AO!AtMostOnce
<1>1. d.at \in Nat /\ e.at \in Nat /\ d.ts \in Nat /\ e.ts \in Nat
  BY Zenon DEF ReplayInv, Entries
<1>2. d.at <= d.ts + ReplayWindow /\ e.at <= e.ts + ReplayWindow
  BY Zenon DEF Apart, AO!OnTime
<1>3. AO!SameMessage(e, d)
  BY Zenon DEF AO!SameMessage
<1>4. (d.at < e.at => e.at - d.at > ReplayWindow) /\ (e.at < d.at => d.at - e.at > ReplayWindow)
  BY Zenon, <1>3 DEF Apart
<1>5. QED
  BY <1>1, <1>2, <1>4, GuardsAssumption

\* A running node accepts a message of a sender whose clock is not ahead at
\* most once, for every window, cap and number of peers.
THEOREM MessagesAcceptedOnce == Spec => []AcceptedAtMostOnce
<1>1. Init => ReplayInv /\ Apart
  BY Zenon, ReplayInvInit DEF Init, Apart
<1>2. (ReplayInv /\ Apart) /\ [Next]_vars => (ReplayInv /\ Apart)'
  BY Zenon, ReplayInvStep, ApartStep
<1>3. ReplayInv /\ Apart => AcceptedAtMostOnce
  BY Zenon, ApartMeansOnce
<1>4. QED
  BY <1>1, <1>2, <1>3, PTL DEF Spec

-----------------------------------------------------------------------------
(* The token bucket *)

\* What was granted since a second, and what is left in the bucket, were both
\* paid for by a burst and the refills since; a peer that was looked at last
\* before a second has been granted nothing since.
Paid(p, b) ==
    \A t \in 0..now :
        IF t <= b.last
        THEN Since(granted, p, t) + b.tokens <= Burst + RefillRate * (b.last - t)
        ELSE Since(granted, p, t) = 0

Buckets == [tokens : 0..Burst, last : Int]

GateInv ==
    /\ now \in Time
    /\ gate \in [Peer -> Buckets]
    /\ granted \in [Peer -> Tallies]
    /\ \A p \in Peer : gate[p].last <= now /\ Paid(p, gate[p])

\* Multiplication by the refill rate, as far as the argument needs it.
LEMMA RateArithmetic ==
    ASSUME NEW a \in Nat, NEW b \in Nat
    PROVE  /\ RefillRate * (a + b) = RefillRate * a + RefillRate * b
           /\ RefillRate * a \in Nat
<1> RefillRate \in Nat
  BY Zenon, GuardsAssumption
<1>1. QED
  OBVIOUS

\* What was granted since a second is a number.
LEMMA SinceIsNumber ==
    ASSUME GateInv, NEW p \in Peer, NEW t \in 0..now
    PROVE  Since(granted, p, t) \in Int
<1>1. now \in Time /\ MaxTime \in Nat
  BY Zenon, PipelineAssumption DEF GateInv
<1>2. t \in Time
  BY <1>1 DEF Time
<1>3. granted[p] \in Tallies
  BY Zenon DEF GateInv
<1>4. granted[p].total \in Nat /\ granted[p].before[t] \in Nat
  BY Zenon, <1>2, <1>3 DEF Tallies
<1>5. QED
  BY <1>4 DEF Since

\* The bucket the limiter looks at is as good as the one that is stored.
LEMMA BucketIsPaid ==
    ASSUME GateInv, NEW p \in Peer
    PROVE  /\ BucketOf(p) \in Buckets
           /\ BucketOf(p).last <= now
           /\ BucketOf(p).last >= 0 \/ gate[p] = BucketOf(p)
           /\ Paid(p, BucketOf(p))
<1>1. CASE gate[p] # NoBucket
  BY Zenon, <1>1 DEF GateInv, BucketOf
<1>2. CASE gate[p] = NoBucket
  <2>1. BucketOf(p) = [tokens |-> Burst, last |-> now]
    BY Zenon, <1>2 DEF BucketOf, NewBucket
  <2>2. \A t \in 0..now : Since(granted, p, t) = 0
    BY <1>2 DEF GateInv, Paid, NoBucket
  <2>3. now \in Nat /\ Burst \in Nat
    BY GuardsAssumption DEF GateInv, Time
  <2>4. \A t \in 0..now : RefillRate * (now - t) \in Nat
    BY <2>3, RateArithmetic
  <2>5. Paid(p, BucketOf(p))
    BY <2>1, <2>2, <2>3, <2>4 DEF Paid
  <2>6. QED
    BY <2>1, <2>3, <2>5 DEF Buckets
<1>3. QED
  BY Zenon, <1>1, <1>2

\* A look at the bucket refills it, and takes a token for a granted request.
LEMMA AllowIsPaid ==
    ASSUME GateInv, NEW p \in Peer, NEW b, b = BucketOf(p), NEW n \in Int,
           n = IF Allows(b, now) THEN 1 ELSE 0
    PROVE  /\ Allow(b, now) \in Buckets
           /\ Allow(b, now).last = now
           /\ \A t \in 0..now :
                 Since(granted, p, t) + n + Allow(b, now).tokens
                     <= Burst + RefillRate * (now - t)
<1> DEFINE full == b.tokens + (now - b.last) * RefillRate
           x == Lesser(full, Burst)
<1>1. b \in Buckets /\ b.last <= now /\ Paid(p, b)
  BY Zenon, BucketIsPaid
<1>2. now \in Nat /\ Burst \in Nat /\ RefillRate \in Nat
  BY GuardsAssumption DEF GateInv, Time
<1>3. b.tokens \in 0..Burst /\ b.last \in Int
  BY Zenon, <1>1 DEF Buckets
<1>4. (now - b.last) * RefillRate \in Nat
  BY <1>1, <1>2, <1>3
<1>5. x \in 0..Burst /\ x <= full
  BY <1>2, <1>3, <1>4 DEF Lesser
<1>6. Refilled(b, now) = [tokens |-> x, last |-> now]
  BY Zenon, <1>1, <1>2, <1>3 DEF Refilled
<1>7. Allows(b, now) <=> x >= 1
  BY <1>6 DEF Allows
<1>8. Allow(b, now) = [tokens |-> x - n, last |-> now]
  <2> HIDE DEF x
  <2>1. QED
    BY <1>5, <1>6, <1>7 DEF Allow
<1>9. x - n \in 0..Burst
  <2> HIDE DEF x
  <2>1. QED
    BY <1>2, <1>5, <1>7
<1>10. \A t \in 0..now : Since(granted, p, t) + x <= Burst + RefillRate * (now - t)
  <2> SUFFICES ASSUME NEW t \in 0..now
               PROVE  Since(granted, p, t) + x <= Burst + RefillRate * (now - t)
    BY Zenon
  <2>1. Since(granted, p, t) \in Int
    BY Zenon, SinceIsNumber
  <2>2. CASE t <= b.last
    <3>1. Since(granted, p, t) + b.tokens <= Burst + RefillRate * (b.last - t)
      BY Zenon, <1>1, <2>2 DEF Paid
    <3>2. now - b.last \in Nat /\ b.last - t \in Nat
      <4> HIDE DEF x
      <4>1. QED
        BY <1>1, <1>2, <1>3, <2>2
    <3>3. (now - b.last) + (b.last - t) = now - t
      BY <1>2, <1>3
    <3>4. RefillRate * (now - t) = RefillRate * (now - b.last) + RefillRate * (b.last - t)
      <4> DEFINE i == now - b.last
                 j == b.last - t
      <4>1. i \in Nat /\ j \in Nat /\ i + j = now - t
        BY Zenon, <3>2, <3>3
      <4> HIDE DEF i, j
      <4>2. RefillRate * (i + j) = RefillRate * i + RefillRate * j
        BY Zenon, <4>1, RateArithmetic
      <4>3. RefillRate * (now - t) = RefillRate * i + RefillRate * j
        BY Zenon, <4>1, <4>2
      <4>4. QED
        BY Zenon, <4>3 DEF i, j
    <3>5. (now - b.last) * RefillRate = RefillRate * (now - b.last)
      BY <1>2, <1>3
    <3>6. RefillRate * (now - b.last) \in Nat /\ RefillRate * (b.last - t) \in Nat
      BY Zenon, <3>2, RateArithmetic
    <3> DEFINE u == RefillRate * (now - b.last)
               w == RefillRate * (b.last - t)
    <3>7. x <= b.tokens + u
      BY Zenon, <1>5, <3>5
    <3> HIDE DEF u, w, x
    <3>8. QED
      BY <1>2, <1>3, <1>5, <2>1, <3>1, <3>4, <3>6, <3>7 DEF u, w
  <2>3. CASE ~(t <= b.last)
    <3>1. Since(granted, p, t) = 0
      BY Zenon, <1>1, <2>3 DEF Paid
    <3>2. RefillRate * (now - t) \in Nat
      BY <1>2, RateArithmetic
    <3> HIDE DEF x
    <3>3. QED
      BY <1>2, <1>5, <3>1, <3>2
  <2>4. QED
    BY Zenon, <2>2, <2>3
<1> HIDE DEF x
<1>11. \A t \in 0..now : Since(granted, p, t) \in Int
  BY Zenon, SinceIsNumber
<1>12. QED
  BY <1>2, <1>5, <1>8, <1>9, <1>10, <1>11 DEF Buckets

\* The handler of gateway requests keeps every grant paid for.
LEMMA GatewayRequestIsPaid ==
    ASSUME GateInv, NEW p \in Peer, NEW m, GatewayRequest(p, m)
    PROVE  GateInv'
<1> DEFINE v == VerifyGatewayRequest(replay, keys, p, m, now)
           b == BucketOf(p)
           n == IF Allows(b, now) THEN 1 ELSE 0
<1>1. now' = now
  BY Zenon DEF GatewayRequest
<1>2. CASE ~v.ok
  <2>1. UNCHANGED <<now, gate, granted>>
    BY Zenon, <1>2 DEF GatewayRequest
  <2>2. QED
    BY Zenon, <2>1 DEF GateInv, Paid, Since
<1>3. CASE v.ok
  <2>1. /\ gate' = [gate EXCEPT ![p] = Allow(b, now)]
        /\ granted' = IF Allows(b, now) THEN CountOne(granted, p) ELSE granted
    BY Zenon, <1>3 DEF GatewayRequest
  <2>2. n \in Nat /\ Allow(b, now) \in Buckets /\ Allow(b, now).last = now
        /\ \A t \in 0..now : Since(granted, p, t) + n + Allow(b, now).tokens
                                 <= Burst + RefillRate * (now - t)
    BY AllowIsPaid
  <2>3. n = IF Allows(b, now) THEN 1 ELSE 0
    BY Zenon
  <2> HIDE DEF v, b, n
  <2>4. gate' \in [Peer -> Buckets] /\ gate'[p] = Allow(b, now)
        /\ \A q \in Peer \ {p} : gate'[q] = gate[q]
    BY Zenon, <2>1, <2>2 DEF GateInv
  <2>5. /\ granted' \in [Peer -> Tallies]
        /\ granted'[p].total = granted[p].total + n /\ granted'[p].before = granted[p].before
        /\ \A q \in Peer \ {p} : granted'[q] = granted[q]
    <3>1. granted \in [Peer -> Tallies] /\ granted[p] \in Tallies
      BY Zenon DEF GateInv
    <3>2. granted[p].total \in Nat
      BY Zenon, <3>1 DEF Tallies
    <3>3. CASE Allows(b, now)
      <4> DEFINE x == [granted[p] EXCEPT !.total = granted[p].total + 1]
      <4>1. granted' = [granted EXCEPT ![p] = x]
        BY Zenon, <2>1, <3>1, <3>3 DEF CountOne
      <4>2. x \in Tallies
        BY <3>1, <3>2 DEF Tallies
      <4>3. n = 1
        BY Zenon, <2>3, <3>3
      <4>4. x.total = granted[p].total + n /\ x.before = granted[p].before
        BY Zenon, <3>1, <4>3 DEF Tallies
      <4> HIDE DEF x
      <4>5. QED
        BY Zenon, <3>1, <4>1, <4>2, <4>4
    <3>4. CASE ~Allows(b, now)
      BY <2>1, <2>3, <3>1, <3>2, <3>4
    <3>5. QED
      BY Zenon, <3>3, <3>4
  <2>6. \A t \in 0..now : Since(granted, p, t)' = Since(granted, p, t) + n
    <3> SUFFICES ASSUME NEW t \in 0..now
                 PROVE  Since(granted, p, t)' = Since(granted, p, t) + n
      BY Zenon
    <3>1. t \in Time /\ granted[p] \in Tallies
      BY PipelineAssumption DEF GateInv, Time
    <3>2. granted[p].total \in Nat /\ granted[p].before[t] \in Nat
      BY Zenon, <3>1 DEF Tallies
    <3>3. QED
      BY <2>2, <2>5, <3>2 DEF Since
  <2>7. Paid(p, gate[p])'
    <3>1. \A t \in 0..now : Since(granted, p, t)' + gate'[p].tokens
                                <= Burst + RefillRate * (gate'[p].last - t) /\ t <= gate'[p].last
      BY <2>2, <2>4, <2>6
    <3>2. QED
      BY Zenon, <1>1, <3>1 DEF Paid, Since
  <2>8. \A q \in Peer \ {p} : Paid(q, gate[q])'
    BY <1>1, <2>4, <2>5 DEF GateInv, Paid, Since
  <2>9. \A q \in Peer : gate'[q].last <= now
    BY <2>2, <2>4 DEF GateInv, Time
  <2>10. QED
    BY Zenon, <1>1, <2>4, <2>5, <2>7, <2>8, <2>9 DEF GateInv
<1>4. QED
  BY Zenon, <1>2, <1>3

\* A second begins: nothing has been granted since.
LEMMA TickIsPaid ==
    ASSUME GateInv, Tick
    PROVE  GateInv'
<1>1. now < MaxTime /\ now' = now + 1 /\ gate' = gate /\ granted' = NextSecond(granted)
  BY Zenon DEF Tick
<1>2. now \in Nat /\ MaxTime \in Nat /\ now' \in Time
  BY <1>1, PipelineAssumption DEF GateInv, Time
<1>3. ASSUME NEW p \in Peer
      PROVE  /\ granted'[p] \in Tallies
             /\ granted'[p].total = granted[p].total
             /\ granted'[p].before[now + 1] = granted[p].total
             /\ \A t \in 0..now : granted'[p].before[t] = granted[p].before[t]
  <2>1. granted[p] \in Tallies /\ granted[p].total \in Nat /\ granted[p].before \in [Time -> Nat]
    BY Zenon DEF GateInv, Tallies
  <2>2. granted'[p] = [granted[p] EXCEPT !.before = [@ EXCEPT ![now + 1] = granted[p].total]]
    BY Zenon, <1>1 DEF NextSecond
  <2>3. granted'[p].before = [granted[p].before EXCEPT ![now + 1] = granted[p].total]
        /\ granted'[p].total = granted[p].total
    BY Zenon, <2>1, <2>2 DEF Tallies
  <2>4. granted'[p].before \in [Time -> Nat]
    BY Zenon, <1>1, <1>2, <2>1, <2>3
  <2>5. granted'[p] \in Tallies
    BY Zenon, <2>1, <2>2, <2>4 DEF Tallies
  <2>6. 0..now \subseteq Time
    BY <1>1, <1>2 DEF Time
  <2>7. QED
    BY <1>1, <1>2, <2>1, <2>3, <2>5, <2>6
<1>4. granted' \in [Peer -> Tallies]
  <2>1. granted' = [p \in Peer |-> granted'[p]]
    BY Zenon, <1>1 DEF NextSecond
  <2>2. QED
    BY Zenon, <1>3, <2>1
<1>5. ASSUME NEW p \in Peer
      PROVE  Paid(p, gate[p])'
  <2>1. Paid(p, gate[p]) /\ gate[p].last <= now /\ gate[p].last \in Int
    BY Zenon DEF GateInv, Buckets
  <2>2. \A t \in 0..now : Since(granted, p, t)' = Since(granted, p, t)
    BY Zenon, <1>3 DEF Since
  <2>3. granted[p].total \in Nat
    BY Zenon DEF GateInv, Tallies
  <2>4. (granted'[p].total - granted'[p].before[now + 1]) = 0
    BY <1>3, <2>3
  <2>5. ASSUME NEW t \in 0..now'
        PROVE  IF t <= gate[p].last
               THEN Since(granted, p, t)' + gate[p].tokens <= Burst + RefillRate * (gate[p].last - t)
               ELSE Since(granted, p, t)' = 0
    <3>1. CASE t \in 0..now
      BY Zenon, <2>1, <2>2, <3>1 DEF Paid
    <3>2. CASE t = now + 1
      <4>1. ~(t <= gate[p].last)
        BY <1>2, <2>1, <3>2
      <4>2. Since(granted, p, t)' = 0
        BY Zenon, <2>4, <3>2 DEF Since
      <4>3. QED
        BY Zenon, <4>1, <4>2
    <3>3. QED
      BY <1>1, <1>2, <3>1, <3>2
  <2>6. QED
    BY Zenon, <1>1, <2>5 DEF Paid, Since
<1>6. \A p \in Peer : gate'[p].last <= now'
  BY <1>1, <1>2 DEF GateInv, Buckets
<1>7. QED
  BY Zenon, <1>1, <1>2, <1>4, <1>5, <1>6 DEF GateInv

\* A process starts with full buckets and empty histories.
LEMMA FreshGateIsPaid ==
    ASSUME now \in Time, gate = [p \in Peer |-> NoBucket], granted = NoTally
    PROVE  GateInv
<1>1. Burst \in Nat /\ now \in Nat /\ MaxTime \in Nat
  BY GuardsAssumption, PipelineAssumption DEF Time
<1>2. NoBucket \in Buckets
  BY <1>1 DEF NoBucket, Buckets
<1>3. granted \in [Peer -> Tallies]
  BY Zenon DEF NoTally, Tallies
<1>4. \A p \in Peer, t \in 0..now : Since(granted, p, t) = 0
  BY <1>1 DEF NoTally, Since, Time
<1>5. \A p \in Peer : gate[p].last = -1
  BY Zenon DEF NoBucket
<1>6. QED
  BY <1>1, <1>2, <1>3, <1>4, <1>5 DEF GateInv, Paid

\* The same of the next state.
LEMMA FreshGateAgain ==
    (now \in Time)' /\ gate' = [p \in Peer |-> NoBucket] /\ granted' = NoTally => GateInv'
<1>1. now \in Time /\ gate = [p \in Peer |-> NoBucket] /\ granted = NoTally => GateInv
  BY Zenon, FreshGateIsPaid
<1>2. (now \in Time /\ gate = [p \in Peer |-> NoBucket] /\ granted = NoTally => GateInv)'
  BY <1>1, PTL
<1>3. QED
  BY Zenon, <1>2

\* The invariant of the token buckets is inductive.
LEMMA GateInvStep == GateInv /\ [Next]_vars => GateInv'
<1> SUFFICES ASSUME GateInv, [Next]_vars PROVE GateInv'
  BY Zenon
<1>1. ASSUME UNCHANGED <<now, gate, granted>> PROVE GateInv'
  BY Zenon, <1>1 DEF GateInv, Paid, Since
<1>2. ASSUME NEW p \in Remote, NEW m \in net, Handle(p, m) PROVE GateInv'
  <2>1. CASE GatewayRequest(p, m)
    BY Zenon, <2>1, GatewayRequestIsPaid DEF Remote
  <2>2. CASE GatewayResponse(p, m) \/ WebRequest(p, m) \/ WebResponse(p, m) \/ ConfigRequest(p, m)
    BY Zenon, <1>1, <2>2 DEF GatewayResponse, WebRequest, WebResponse, ConfigRequest, OnlyVerifies,
                      RestUnchanged
  <2>3. CASE ConfigResponse(p, m) \/ DirectResponse(p, m)
    BY Zenon, <1>1, <2>3 DEF ConfigResponse, DirectResponse, RestUnchanged
  <2>4. ASSUME NEW wrapped \in BOOLEAN, DirectRequest(p, m, wrapped) PROVE GateInv'
    BY Zenon, <1>1, <2>4 DEF DirectRequest, RestUnchanged
  <2>5. CASE OnboardRequest(p, m)
    BY Zenon, <1>1, <2>5 DEF OnboardRequest
  <2>6. QED
    BY Zenon, <1>2, <2>1, <2>2, <2>3, <2>4, <2>5 DEF Handle
<1>3. ASSUME NEW p \in Remote, NEW c \in woken, PolicySynced(p, c)
      PROVE  GateInv'
  BY Zenon, <1>1, <1>3 DEF PolicySynced, RestUnchanged
<1>4. ASSUME NEW m \in todo, Send(m) PROVE GateInv'
  BY Zenon, <1>1, <1>4 DEF Send, history
<1>5. CASE Tick
  BY Zenon, <1>5, TickIsPaid
<1>6. CASE Restart
  <2>1. (now \in Time)' /\ gate' = [p \in Peer |-> NoBucket] /\ granted' = NoTally
    BY Zenon, <1>6 DEF Restart, GateInv
  <2>2. QED
    BY Zenon, <2>1, FreshGateAgain
<1>7. ASSUME NEW p \in Remote, RegisterPeer(p) \/ QuarantinePeer(p) PROVE GateInv'
  BY Zenon, <1>1, <1>7 DEF RegisterPeer, QuarantinePeer, history
<1>8. CASE ReloadPolicy \/ Reconcile
  BY Zenon, <1>1, <1>8 DEF ReloadPolicy, Reconcile, history
<1>9. ASSUME NEW f \in Files, InstallFile(f) PROVE GateInv'
  BY Zenon, <1>1, <1>9 DEF InstallFile, history
<1>10. ASSUME NEW p \in Peer, ConfirmPeer(p, Required) PROVE GateInv'
  BY Zenon, <1>1, <1>10 DEF ConfirmPeer, history
<1>11. CASE UNCHANGED vars
  BY Zenon, <1>1, <1>11 DEF vars, history
<1>12. QED
  BY Zenon, <1>2, <1>3, <1>4, <1>5, <1>6, <1>7, <1>8, <1>9, <1>10, <1>11 DEF Next

LEMMA GateInvInit == Init => GateInv
<1>1. Init => now \in Time
  BY PipelineAssumption DEF Init, Time
<1>2. QED
  BY Zenon, <1>1, FreshGateIsPaid DEF Init

\* GatewayRateLimiter: whatever arrives and whenever, a peer is granted at most
\* a burst and the refills of the time that has passed.
THEOREM GatewayRateIsBounded == Spec => []GatewayRateBounded
<1>1. GateInv => GatewayRateBounded
  <2> SUFFICES ASSUME GateInv, NEW p \in Peer, NEW t \in 0..now
               PROVE  Since(granted, p, t) <= Burst + RefillRate * (now - t)
    BY Zenon DEF GatewayRateBounded
  <2> DEFINE b == gate[p]
             i == b.last - t
             j == now - b.last
  <2>1. Paid(p, b) /\ b.last <= now /\ b.last \in Int /\ b.tokens \in Nat
    BY DEF GateInv, Buckets
  <2>2. now \in Nat /\ Burst \in Nat /\ Since(granted, p, t) \in Int
    BY SinceIsNumber, GuardsAssumption DEF GateInv, Time
  <2>3. CASE t <= b.last
    <3>1. Since(granted, p, t) + b.tokens <= Burst + RefillRate * i
      BY Zenon, <2>1, <2>3 DEF Paid
    <3>2. i \in Nat /\ j \in Nat /\ i + j = now - t
      BY <2>1, <2>2, <2>3
    <3> HIDE DEF i, j
    <3>3. RefillRate * (i + j) = RefillRate * i + RefillRate * j
          /\ RefillRate * i \in Nat /\ RefillRate * j \in Nat
      BY Zenon, <3>2, RateArithmetic
    <3>4. RefillRate * (now - t) = RefillRate * i + RefillRate * j
      BY Zenon, <3>2, <3>3
    <3>5. QED
      BY <2>1, <2>2, <3>1, <3>3, <3>4
  <2>4. CASE ~(t <= b.last)
    <3>1. Since(granted, p, t) = 0
      BY Zenon, <2>1, <2>4 DEF Paid
    <3>2. now - t \in Nat
      BY <2>2
    <3>3. RefillRate * (now - t) \in Nat
      BY Zenon, <3>2, RateArithmetic
    <3>4. QED
      BY <2>2, <3>1, <3>3
  <2>5. QED
    BY Zenon, <2>3, <2>4
<1>2. QED
  BY <1>1, GateInvInit, GateInvStep, PTL DEF Spec

-----------------------------------------------------------------------------
(* The authority list *)

\* A staged peer has no role, unless the list that was read had it staged.
Staged(a, l) == \A p \in a.pending : a.allowed[p] = NoRole \/ p \in l.pending

\* The version and the supernodes of a list, up to repeats.
SameList(a, l) ==
    a.version = l.version /\ a.supernodes \in {l.supernodes, Canonical(l.supernodes)}

AuthInv ==
    /\ auth \in AuthorityStates /\ booted \in AuthorityStates /\ loaded \in AuthorityStates
    /\ file \in AuthorityStates \cup {NoFile}
    /\ Staged(auth, loaded)
    /\ SignedInForce

\* A later list in the sense of AuthorityAdvances.
Follows(a, b, l) ==
    \/ b.version > a.version
    \/ /\ b.version = a.version /\ Named(b) = Named(a)
       /\ \A p \in Peer : \/ GetRole(a, p) \in {NoRole, GetRole(b, p)}
                          \/ p \in l.pending \ b.pending /\ GetRole(b, p) = "Client"

\* To drop repeats a second time changes nothing, and no peer is lost.
LEMMA CanonicalList ==
    ASSUME NEW list \in Lists
    PROVE  /\ Canonical(list) \in Lists
           /\ Canonical(Canonical(list)) = Canonical(list)
           /\ \A p \in Peer : Canonical(list)[p] > 0 <=> list[p] > 0
<1>1. \A p \in Peer : Canonical(list)[p] \in Nat /\ (Canonical(list)[p] > 0 <=> list[p] > 0)
  BY DEF Canonical
<1>2. Canonical(list) \in Lists
  BY Zenon, <1>1 DEF Lists, Canonical
<1>3. Canonical(Canonical(list)) = Canonical(list)
  BY Zenon, <1>1 DEF Canonical
<1>4. QED
  BY Zenon, <1>1, <1>2, <1>3

\* A refresh keeps the list or takes a newer one that the root key has signed.
LEMMA RefreshFollows ==
    ASSUME NEW a \in AuthorityStates, NEW f \in AuthorityStates \cup {NoFile},
           NEW b, b = RefreshFromFile(a, f), NEW l
    PROVE  /\ b \in AuthorityStates /\ Follows(a, b, l)
           /\ b = a \/ SignatureVerifies(b)
BY Zenon DEF RefreshFromFile, UpdateState, Follows

\* A config bundle stages peers and leaves the rest of the list alone.
LEMMA BundleFollows ==
    ASSUME NEW l, NEW a \in AuthorityStates, Staged(a, l), NEW peers \in SUBSET Peer,
           NEW b, b = ApplyConfigBundle(a, peers)
    PROVE  /\ b \in AuthorityStates /\ Staged(b, l) /\ Follows(a, b, l)
           /\ SameList(a, l) => SameList(b, l)
<1>1. b \in AuthorityStates
  BY Zenon DEF ApplyConfigBundle, AuthorityStates
<1>2. /\ b.version = a.version /\ b.supernodes = a.supernodes /\ b.allowed = a.allowed
      /\ b.pending = a.pending \cup {p \in peers : a.allowed[p] = NoRole}
  BY Zenon DEF ApplyConfigBundle, AuthorityStates
<1>3. Staged(b, l)
  BY Zenon, <1>2 DEF Staged
<1>4. Named(b) = Named(a) /\ \A p : GetRole(b, p) = GetRole(a, p)
  BY Zenon, <1>2 DEF Named, GetRole
<1>5. QED
  BY Zenon, <1>1, <1>2, <1>3, <1>4 DEF Follows, SameList

\* A confirmation gives a role to a staged peer, which had none unless it was
\* staged in the list that was read, and drops repeats from the list.
LEMMA ConfirmationFollows ==
    ASSUME NEW l \in AuthorityStates, NEW a \in AuthorityStates, Staged(a, l), NEW p \in Peer,
           NEW n, NEW b, b = ConfirmPendingPeers(a, p, n)
    PROVE  /\ b \in AuthorityStates /\ Staged(b, l) /\ Follows(a, b, l)
           /\ SameList(a, l) => SameList(b, l)
<1>1. CASE ~(n >= Required /\ p \in a.pending)
  BY Zenon, <1>1 DEF ConfirmPendingPeers, Follows
<1>2. CASE n >= Required /\ p \in a.pending
  <2>1. b = [a EXCEPT !.pending = @ \ {p}, !.allowed[p] = "Client", !.supernodes = Canonical(@)]
    BY Zenon, <1>2 DEF ConfirmPendingPeers
  <2>2. /\ a.allowed \in [Peer -> Roles \cup {NoRole}] /\ a.pending \in SUBSET Peer
        /\ a.supernodes \in Lists /\ l.supernodes \in Lists /\ "Client" \in Roles
        /\ a.allowed[p] = NoRole \/ p \in l.pending
    BY Zenon, <1>2 DEF AuthorityStates, Staged, Roles
  <2>3. /\ b.version = a.version /\ b.supernodes = Canonical(a.supernodes)
        /\ b.signature = a.signature /\ b.policies = a.policies
        /\ b.allowed = [a.allowed EXCEPT ![p] = "Client"]
        /\ b.pending = a.pending \ {p}
    BY Zenon, <2>1 DEF AuthorityStates
  <2>4. b.allowed \in [Peer -> Roles \cup {NoRole}] /\ b.supernodes \in Lists
    BY Zenon, <2>2, <2>3, CanonicalList
  <2>5. b \in AuthorityStates
    BY Zenon, <2>1, <2>2, <2>3, <2>4 DEF AuthorityStates
  <2>6. b.allowed[p] = "Client" /\ \A q \in Peer \ {p} : b.allowed[q] = a.allowed[q]
    BY Zenon, <2>2, <2>3
  <2>7. Staged(b, l)
    BY Zenon, <2>2, <2>3, <2>6 DEF Staged
  <2>8. Named(b) = Named(a)
    BY Zenon, <2>2, <2>3, CanonicalList DEF Named
  <2>9. \A q \in Peer : \/ GetRole(a, q) \in {NoRole, GetRole(b, q)}
                        \/ q \in l.pending \ b.pending /\ GetRole(b, q) = "Client"
    BY Zenon, <2>2, <2>3, <2>6, <2>8 DEF GetRole
  <2>10. SameList(a, l) => SameList(b, l)
    BY Zenon, <2>2, <2>3, CanonicalList DEF SameList
  <2>11. QED
    BY Zenon, <2>3, <2>5, <2>7, <2>8, <2>9, <2>10 DEF Follows
<1>3. QED
  BY Zenon, <1>1, <1>2

\* What is left of a step that does not touch the list.
LEMMA AuthorityFrame ==
    ASSUME AuthInv, UNCHANGED <<auth, booted, loaded, file>>
    PROVE  AuthInv' /\ Follows(auth, auth', loaded)
BY Zenon DEF AuthInv, SignedInForce, Staged, Follows

LEMMA DefaultIsState == DefaultAuthority \in AuthorityStates
<1>1. [p \in Peer |-> 0] \in Lists
  BY DEF Lists
<1>2. 1 \in Nat
  OBVIOUS
<1>3. QED
  BY Zenon, <1>1, <1>2 DEF DefaultAuthority, AuthorityStates

\* A step of a running process moves the list forward; a restart begins anew.
LEMMA AuthorityStep ==
    ASSUME AuthInv, [Next]_vars
    PROVE  AuthInv' /\ (Restart \/ Follows(auth, auth', loaded))
<1>1. ASSUME NEW p \in Remote, NEW m \in net, Handle(p, m) PROVE UNCHANGED <<auth, booted, loaded, file>>
  <2>1. CASE GatewayRequest(p, m) \/ OnboardRequest(p, m)
    BY Zenon, <2>1 DEF GatewayRequest, OnboardRequest
  <2>2. CASE GatewayResponse(p, m) \/ WebRequest(p, m) \/ WebResponse(p, m) \/ ConfigRequest(p, m)
    BY Zenon, <2>2 DEF GatewayResponse, WebRequest, WebResponse, ConfigRequest, OnlyVerifies, RestUnchanged
  <2>3. CASE ConfigResponse(p, m) \/ DirectResponse(p, m)
    BY Zenon, <2>3 DEF ConfigResponse, DirectResponse, RestUnchanged
  <2>4. ASSUME NEW wrapped \in BOOLEAN, DirectRequest(p, m, wrapped)
        PROVE  UNCHANGED <<auth, booted, loaded, file>>
    BY Zenon, <2>4 DEF DirectRequest, RestUnchanged
  <2>5. QED
    BY Zenon, <1>1, <2>1, <2>2, <2>3, <2>4 DEF Handle
<1>2. ASSUME NEW p \in Remote, NEW c \in woken, PolicySynced(p, c)
      PROVE  AuthInv' /\ Follows(auth, auth', loaded)
  <2>1. UNCHANGED <<booted, loaded, file>> /\ (auth' = auth \/ auth' = ApplyConfigBundle(auth, Bundle))
    BY Zenon, <1>2 DEF PolicySynced, RestUnchanged
  <2>2. CASE auth' = auth
    BY Zenon, <2>1, <2>2, AuthorityFrame
  <2>3. CASE auth' = ApplyConfigBundle(auth, Bundle)
    <3>1. /\ auth' \in AuthorityStates /\ Staged(auth', loaded)
          /\ Follows(auth, auth', loaded)
          /\ SameList(auth, loaded) => SameList(auth', loaded)
      BY Zenon, <2>3, BundleFollows, PipelineAssumption DEF AuthInv
    <3>2. SignedInForce'
      BY Zenon, <2>1, <3>1 DEF AuthInv, SignedInForce, SameList
    <3>3. QED
      BY Zenon, <2>1, <3>1, <3>2 DEF AuthInv, Staged
  <2>4. QED
    BY Zenon, <2>1, <2>2, <2>3
<1>3. CASE Reconcile
  <2>1. /\ UNCHANGED <<booted, file>> /\ auth' = RefreshFromFile(auth, file)
        /\ loaded' = IF auth' = auth THEN loaded ELSE auth'
    BY Zenon, <1>3 DEF Reconcile
  <2>2. /\ auth' \in AuthorityStates /\ Follows(auth, auth', loaded)
        /\ auth' = auth \/ SignatureVerifies(auth')
    BY Zenon, <2>1, RefreshFollows DEF AuthInv
  <2>3. CASE auth' = auth
    BY Zenon, <2>1, <2>3, AuthorityFrame
  <2>4. CASE auth' # auth
    <3>1. loaded' = auth' /\ SignatureVerifies(auth')
      BY Zenon, <2>1, <2>2, <2>4
    <3>2. SignedInForce'
      BY Zenon, <3>1 DEF SignedInForce
    <3>3. Staged(auth, loaded)'
      BY Zenon, <3>1 DEF Staged
    <3>4. QED
      BY Zenon, <2>1, <2>2, <3>1, <3>2, <3>3 DEF AuthInv
  <2>5. QED
    BY Zenon, <2>3, <2>4
<1>4. ASSUME NEW p \in Peer, ConfirmPeer(p, Required)
      PROVE  AuthInv' /\ Follows(auth, auth', loaded)
  <2>1. UNCHANGED <<booted, loaded, file>> /\ auth' = ConfirmPendingPeers(auth, p, Required)
    BY Zenon, <1>4 DEF ConfirmPeer, history
  <2>2. /\ auth' \in AuthorityStates /\ Staged(auth', loaded) /\ Follows(auth, auth', loaded)
        /\ SameList(auth, loaded) => SameList(auth', loaded)
    BY Zenon, <2>1, ConfirmationFollows DEF AuthInv
  <2>3. SignedInForce'
    BY Zenon, <2>1, <2>2 DEF AuthInv, SignedInForce, SameList
  <2>4. QED
    BY Zenon, <2>1, <2>2, <2>3 DEF AuthInv, Staged
<1>5. ASSUME NEW f \in Files, InstallFile(f)
      PROVE  AuthInv' /\ Follows(auth, auth', loaded)
  <2>1. UNCHANGED <<auth, booted, loaded>> /\ file' = f
    BY Zenon, <1>5 DEF InstallFile, history
  <2>2. f \in AuthorityStates \cup {NoFile}
    BY Zenon, PipelineAssumption
  <2>3. SignedInForce'
    BY Zenon, <2>1 DEF AuthInv, SignedInForce
  <2>4. QED
    BY Zenon, <2>1, <2>2, <2>3 DEF AuthInv, Staged, Follows
<1>6. CASE Restart
  <2>1. file' = BootAuthority(file) /\ auth' = file' /\ booted' = file' /\ loaded' = file'
    BY Zenon, <1>6 DEF Restart
  <2>2. file' \in AuthorityStates
    BY Zenon, <2>1, DefaultIsState DEF BootAuthority, AuthInv
  <2>3. Staged(auth, loaded)'
    BY Zenon, <2>1 DEF Staged
  <2>4. SignedInForce'
    BY Zenon, <2>1 DEF SignedInForce
  <2>5. QED
    BY Zenon, <1>6, <2>1, <2>2, <2>3, <2>4 DEF AuthInv
<1>7. ASSUME NEW p \in Remote, RegisterPeer(p) \/ QuarantinePeer(p) PROVE UNCHANGED <<auth, booted, loaded, file>>
  BY Zenon, <1>7 DEF RegisterPeer, QuarantinePeer, history
<1>8. ASSUME NEW m \in todo, Send(m) PROVE UNCHANGED <<auth, booted, loaded, file>>
  BY Zenon, <1>8 DEF Send, history
<1>9. ASSUME Tick \/ ReloadPolicy \/ UNCHANGED vars PROVE UNCHANGED <<auth, booted, loaded, file>>
  BY Zenon, <1>9 DEF Tick, ReloadPolicy, vars, history
<1>10. QED
  BY Zenon, <1>1, <1>2, <1>3, <1>4, <1>5, <1>6, <1>7, <1>8, <1>9, AuthorityFrame DEF Next

\* The list a process starts with.
LEMMA AuthorityInit == Init => AuthInv
<1> SUFFICES ASSUME Init PROVE AuthInv
  BY Zenon
<1>1. PICK s \in Scenarios : file = BootAuthority(s.file)
  BY Zenon DEF Init
<1>2. s.file \in Files
  BY Zenon, PipelineAssumption
<1>3. file \in AuthorityStates
  BY Zenon, <1>1, <1>2, DefaultIsState, PipelineAssumption DEF BootAuthority
<1>4. auth = file /\ booted = file /\ loaded = file
  BY Zenon DEF Init
<1>5. QED
  BY Zenon, <1>3, <1>4 DEF AuthInv, SignedInForce, Staged

\* Refreshes, bundles and confirmations only ever move a running process
\* forward: to a newer list, or to more roles within the same one.  A role is
\* replaced only where the list that was read had the peer staged already.
THEOREM AuthorityNeverRegresses == Spec => AuthorityAdvances
<1> DEFINE Advance ==
        \/ Restart
        \/ auth'.version > auth.version
        \/ /\ auth'.version = auth.version
           /\ Named(auth') = Named(auth)
           /\ \A p \in Peer :
                 \/ GetRole(auth, p) \in {NoRole, GetRole(auth', p)}
                 \/ p \in loaded.pending \ auth'.pending /\ GetRole(auth', p) = "Client"
<1>1. AuthInv /\ [Next]_vars => AuthInv' /\ [Advance]_vars
  BY Zenon, AuthorityStep DEF Follows
<1>2. QED
  BY <1>1, AuthorityInit, PTL DEF Spec, AuthorityAdvances

\* Through any sequence of refreshes, bundles, confirmations and restarts, the
\* list in force is one that was read at startup or with the root signature,
\* and differs from it in version and supernodes by dropped repeats at most.
THEOREM ListInForceIsSigned == Spec => []SignedInForce
<1>1. AuthInv /\ [Next]_vars => AuthInv'
  BY Zenon, AuthorityStep
<1>2. AuthInv => SignedInForce
  BY Zenon DEF AuthInv
<1>3. QED
  BY <1>1, <1>2, AuthorityInit, PTL DEF Spec

-----------------------------------------------------------------------------
(* The policy *)

\* The peers of a config bundle decide nothing: enforce_peer asks verify_peer,
\* which looks at them, only after the authority has let the peer connect.
THEOREM BundlePeersDecideNothing ==
    ASSUME NEW q \in SUBSET Peer, NEW pol \in Policies, NEW a \in AuthorityStates,
           NEW p \in Peer, NEW peers \in SUBSET Peer
    PROVE  EnforcePeer(q, ApplyBundle(pol, peers), a, p) <=> Enforce(q, pol, a, p, "Connect")
<1>1. ApplyBundle(pol, peers).actions = pol.actions
  BY Zenon DEF ApplyBundle, Policies
<1>2. QED
  BY Zenon, <1>1 DEF EnforcePeer, Enforce, VerifyAccess, VerifyPeer

-----------------------------------------------------------------------------
(* The limiter of onboarding attempts *)

\* Every attempt let through since a second of the window is still remembered.
AttemptsKept(p) ==
    \A t \in 0..now :
        now - t < AttemptWindow =>
            \A k \in (passed[p].before[t] + 1)..passed[p].total :
                \E e \in attempts[p] : e.k = k /\ e.at >= t

OnboardInv ==
    /\ now \in Time
    /\ attempts \in [Peer -> SUBSET Instants]
    /\ passed \in [Peer -> Tallies]
    /\ \A p \in Peer : /\ IsFiniteSet(attempts[p])
                       /\ Cardinality(attempts[p]) <= MaxAttempts
                       /\ AttemptsKept(p)

\* RateLimiter::check keeps at most MaxAttempts instants, and all of the window.
LEMMA CheckedKeeps ==
    ASSUME NEW A \in SUBSET Instants, IsFiniteSet(A), Cardinality(A) <= MaxAttempts,
           NEW t \in Nat, NEW k \in Nat
    PROVE  /\ Checked(A, t, k) \in SUBSET Instants
           /\ IsFiniteSet(Checked(A, t, k))
           /\ Cardinality(Checked(A, t, k)) <= MaxAttempts
           /\ \A e \in A : t - e.at < AttemptWindow => e \in Checked(A, t, k)
           /\ Check(A, t) => [at |-> t, k |-> k] \in Checked(A, t, k)
<1> DEFINE R == Recent(A, t)
           i == [at |-> t, k |-> k]
<1>1. R \in SUBSET A /\ i \in Instants
  BY Zenon DEF Recent, Instants
<1>2. IsFiniteSet(R) /\ Cardinality(R) <= Cardinality(A)
  BY Zenon, <1>1, FS_Subset
<1>3. Cardinality(R) \in Nat /\ Cardinality(A) \in Nat /\ MaxAttempts \in Nat
  BY Zenon, <1>2, FS_CardinalityType, GuardsAssumption
<1>4. \A e \in A : t - e.at < AttemptWindow => e \in R
  BY Zenon DEF Recent
<1>5. CASE Check(A, t)
  <2>1. Cardinality(R) < MaxAttempts
    BY Zenon, <1>5 DEF Check
  <2>2. Checked(A, t, k) = R \cup {i}
    BY Zenon, <1>5 DEF Checked
  <2> HIDE DEF R, i
  <2>3. /\ IsFiniteSet(R \cup {i})
        /\ Cardinality(R \cup {i}) = IF i \in R THEN Cardinality(R) ELSE Cardinality(R) + 1
    BY Zenon, <1>2, FS_AddElement
  <2>4. Cardinality(R \cup {i}) <= MaxAttempts
    BY <1>3, <2>1, <2>3
  <2>5. QED
    BY Zenon, <1>1, <1>4, <2>2, <2>3, <2>4 DEF i
<1>6. CASE ~Check(A, t)
  <2>1. Checked(A, t, k) = R
    BY Zenon, <1>6 DEF Checked
  <2> HIDE DEF R
  <2>2. Cardinality(R) <= MaxAttempts
    BY <1>2, <1>3
  <2>3. QED
    BY Zenon, <1>1, <1>2, <1>4, <1>6, <2>1, <2>2
<1>7. QED
  BY Zenon, <1>5, <1>6

\* A tally has a number for every second that has begun.
LEMMA TallyNumbers ==
    ASSUME NEW tally \in [Peer -> Tallies], NEW p \in Peer, now \in Time
    PROVE  /\ now \in Nat /\ tally[p].total \in Nat
           /\ \A t \in 0..now : tally[p].before[t] \in Nat
<1>1. now \in Nat /\ MaxTime \in Nat /\ \A t \in 0..now : t \in Time
  BY PipelineAssumption DEF Time
<1>2. tally[p] \in Tallies
  BY Zenon
<1>3. tally[p].total \in Nat /\ tally[p].before \in [Time -> Nat]
  BY Zenon, <1>2 DEF Tallies
<1>4. QED
  BY Zenon, <1>1, <1>3

\* CountOne counts one for its peer, and changes nothing else.
LEMMA CountOneType ==
    ASSUME NEW tally \in [Peer -> Tallies], NEW p \in Peer
    PROVE  /\ CountOne(tally, p) \in [Peer -> Tallies]
           /\ CountOne(tally, p)[p].total = tally[p].total + 1
           /\ CountOne(tally, p)[p].before = tally[p].before
           /\ \A q \in Peer \ {p} : CountOne(tally, p)[q] = tally[q]
<1>1. tally[p] \in Tallies
  BY Zenon
<1>2. [tally[p] EXCEPT !.total = tally[p].total + 1] \in Tallies
  BY <1>1 DEF Tallies
<1>3. CountOne(tally, p) = [tally EXCEPT ![p] = [tally[p] EXCEPT !.total = tally[p].total + 1]]
  BY Zenon DEF CountOne
<1>4. QED
  BY Zenon, <1>1, <1>2, <1>3 DEF Tallies

\* verify_remote_identity: the limiter's part.
LEMMA OnboardKeepsAttempts ==
    ASSUME OnboardInv, NEW p \in Peer, NEW m, m.from = p, NEW via, OnboardRequest(via, m)
    PROVE  OnboardInv'
<1> DEFINE k == passed[p].total + 1
           A == attempts[p]
           B == Checked(A, now, k)
<1>1. /\ now' = now /\ attempts' = [attempts EXCEPT ![p] = B]
      /\ passed' = IF Check(A, now) THEN CountOne(passed, p) ELSE passed
  BY Zenon DEF OnboardRequest
<1>2. /\ now \in Time /\ attempts \in [Peer -> SUBSET Instants] /\ passed \in [Peer -> Tallies]
      /\ A \in SUBSET Instants /\ IsFiniteSet(A) /\ Cardinality(A) <= MaxAttempts
      /\ AttemptsKept(p)
  BY Zenon DEF OnboardInv
<1>3. /\ now \in Nat /\ passed[p].total \in Nat /\ k \in Nat
      /\ \A t \in 0..now : passed[p].before[t] \in Nat
  BY <1>2, TallyNumbers
<1>4. AttemptWindow \in Nat
  BY Zenon, GuardsAssumption
<1> HIDE DEF k, B, A
<1>5. /\ B \in SUBSET Instants /\ IsFiniteSet(B) /\ Cardinality(B) <= MaxAttempts
      /\ \A e \in A : now - e.at < AttemptWindow => e \in B
      /\ Check(A, now) => [at |-> now, k |-> k] \in B
  BY Zenon, <1>2, <1>3, CheckedKeeps DEF B
<1>6. /\ passed' \in [Peer -> Tallies]
      /\ \A q \in Peer \ {p} : passed'[q] = passed[q]
      /\ passed'[p].before = passed[p].before
      /\ passed'[p].total = passed[p].total \/ (Check(A, now) /\ passed'[p].total = k)
  BY Zenon, <1>1, <1>2, CountOneType DEF k
<1>7. attempts' \in [Peer -> SUBSET Instants] /\ attempts'[p] = B
      /\ \A q \in Peer \ {p} : attempts'[q] = attempts[q]
  BY Zenon, <1>1, <1>2, <1>5
<1>8. ASSUME NEW t \in 0..now, now - t < AttemptWindow,
             NEW j \in (passed'[p].before[t] + 1)..passed'[p].total
      PROVE  \E e \in B : e.k = j /\ e.at >= t
  <2>1. passed'[p].before[t] = passed[p].before[t] /\ passed[p].before[t] \in Nat
    BY Zenon, <1>3, <1>6
  <2>2. CASE j \in (passed[p].before[t] + 1)..passed[p].total
    <3>1. PICK e \in A : e.k = j /\ e.at >= t
      BY Zenon, <1>2, <1>8, <2>2 DEF AttemptsKept, A
    <3>2. e.at \in Nat
      BY Zenon, <1>2 DEF Instants
    <3>3. now - e.at < AttemptWindow
      BY <1>3, <1>4, <1>8, <3>1, <3>2
    <3>4. QED
      BY Zenon, <1>5, <3>1, <3>3
  <2>3. CASE Check(A, now) /\ j = k
    <3>1. [at |-> now, k |-> k].at >= t
      BY <1>3
    <3>2. QED
      BY Zenon, <1>5, <2>3, <3>1
  <2>4. j \in (passed[p].before[t] + 1)..passed[p].total \/ (Check(A, now) /\ j = k)
    BY <1>3, <1>6, <1>8, <2>1 DEF k
  <2>5. QED
    BY Zenon, <2>2, <2>3, <2>4
<1>9. AttemptsKept(p)'
  <2>1. \A t \in 0..now' : now' - t < AttemptWindow =>
            \A j \in (passed'[p].before[t] + 1)..passed'[p].total :
                \E e \in attempts'[p] : e.k = j /\ e.at >= t
    BY <1>1, <1>7, <1>8
  <2>2. QED
    BY Zenon, <2>1 DEF AttemptsKept
<1>10. \A q \in Peer \ {p} : AttemptsKept(q)'
  <2> SUFFICES ASSUME NEW q \in Peer \ {p} PROVE AttemptsKept(q)'
    BY Zenon
  <2>1. now' = now /\ passed'[q] = passed[q] /\ attempts'[q] = attempts[q]
    BY Zenon, <1>1, <1>6, <1>7
  <2>2. AttemptsKept(q)
    BY Zenon DEF OnboardInv
  <2>3. QED
    BY Zenon, <2>1, <2>2 DEF AttemptsKept
<1>11. \A q \in Peer : IsFiniteSet(attempts'[q]) /\ Cardinality(attempts'[q]) <= MaxAttempts
  BY Zenon, <1>5, <1>7 DEF OnboardInv
<1>12. QED
  BY Zenon, <1>1, <1>2, <1>6, <1>7, <1>9, <1>10, <1>11 DEF OnboardInv

\* A clock tick: nothing has happened yet in the second that begins.
LEMMA TickKeepsAttempts ==
    ASSUME OnboardInv, Tick
    PROVE  OnboardInv'
<1>1. now' = now + 1 /\ attempts' = attempts /\ passed' = NextSecond(passed) /\ now < MaxTime
  BY Zenon DEF Tick, security
<1>2. /\ now \in Nat /\ MaxTime \in Nat /\ now' \in Time /\ now + 1 \in Time
      /\ \A t \in 0..now : t \in Time /\ t # now + 1
  BY <1>1, PipelineAssumption DEF OnboardInv, Time
<1>3. AttemptWindow \in Nat
  BY Zenon, GuardsAssumption
<1>4. ASSUME NEW p \in Peer
      PROVE  /\ passed'[p] \in Tallies /\ passed'[p].total = passed[p].total
             /\ passed'[p].before[now + 1] = passed[p].total
             /\ \A t \in 0..now : passed'[p].before[t] = passed[p].before[t]
  <2>1. passed'[p] = [passed[p] EXCEPT !.before[now + 1] = passed[p].total]
    BY Zenon, <1>1 DEF NextSecond
  <2>2. passed[p] \in Tallies
    BY Zenon DEF OnboardInv
  <2>3. QED
    BY <1>2, <2>1, <2>2 DEF Tallies
<1>5. passed' \in [Peer -> Tallies]
  <2>1. passed' = [p \in Peer |-> passed'[p]]
    BY Zenon, <1>1 DEF NextSecond
  <2>2. QED
    BY Zenon, <1>4, <2>1
<1>6. ASSUME NEW p \in Peer PROVE AttemptsKept(p)'
  <2>1. AttemptsKept(p) /\ passed[p].total \in Nat
        /\ \A t \in 0..now : passed[p].before[t] \in Nat
    BY Zenon, TallyNumbers DEF OnboardInv
  <2>2. ASSUME NEW t \in 0..now', now' - t < AttemptWindow,
               NEW k \in (passed'[p].before[t] + 1)..passed'[p].total
        PROVE  \E e \in attempts'[p] : e.k = k /\ e.at >= t
    <3>1. CASE t = now + 1
      BY <1>4, <2>1, <2>2, <3>1
    <3>2. CASE t \in 0..now
      <4>1. now - t < AttemptWindow /\ k \in (passed[p].before[t] + 1)..passed[p].total
        BY <1>1, <1>2, <1>3, <1>4, <2>2, <3>2
      <4>2. QED
        BY Zenon, <1>1, <2>1, <3>2, <4>1 DEF AttemptsKept
    <3>3. QED
      BY <1>1, <1>2, <2>2, <3>1, <3>2
  <2>3. QED
    BY Zenon, <2>2 DEF AttemptsKept
<1>7. QED
  BY Zenon, <1>1, <1>2, <1>5, <1>6 DEF OnboardInv

\* A node that has just started has let nothing through.
LEMMA NoAttemptsKept ==
    /\ NoTally \in [Peer -> Tallies]
    /\ [p \in Peer |-> {}] \in [Peer -> SUBSET Instants]
    /\ IsFiniteSet({}) /\ Cardinality({}) <= MaxAttempts
    /\ \A p \in Peer, t \in Time : (NoTally[p].before[t] + 1)..NoTally[p].total = {}
<1>1. NoTally \in [Peer -> Tallies]
      /\ \A p \in Peer, t \in Time : (NoTally[p].before[t] + 1)..NoTally[p].total = {}
  BY DEF NoTally, Tallies
<1>2. IsFiniteSet({}) /\ Cardinality({}) <= MaxAttempts
  BY FS_EmptySet, GuardsAssumption
<1>3. QED
  BY Zenon, <1>1, <1>2

LEMMA OnboardInvFresh ==
    ASSUME now \in Time, attempts = [p \in Peer |-> {}], passed = NoTally
    PROVE  OnboardInv
<1>1. \A t \in 0..now : t \in Time
  BY PipelineAssumption DEF Time
<1>2. \A p \in Peer : AttemptsKept(p)
  BY Zenon, <1>1, NoAttemptsKept DEF AttemptsKept
<1>3. QED
  BY Zenon, <1>2, NoAttemptsKept DEF OnboardInv

LEMMA OnboardInvFreshNext ==
    ASSUME now' \in Time, attempts' = [p \in Peer |-> {}], passed' = NoTally
    PROVE  OnboardInv'
<1>1. \A t \in 0..now' : t \in Time
  BY PipelineAssumption DEF Time
<1>2. \A p \in Peer : AttemptsKept(p)'
  BY Zenon, <1>1, NoAttemptsKept DEF AttemptsKept
<1>3. QED
  BY Zenon, <1>2, NoAttemptsKept DEF OnboardInv

\* What the steps other than a clock tick, an onboarding and a restart leave alone.
onboarding == <<now, attempts, passed, cache, records>>

LEMMA OnboardingSteps ==
    ASSUME [Next]_vars
    PROVE  \/ \E p \in Peer, m \in net : OnboardRequest(p, m)
           \/ Tick
           \/ Restart
           \/ UNCHANGED onboarding
<1> USE DEF onboarding
<1>1. ASSUME NEW p \in Remote, NEW m \in net, Handle(p, m)
      PROVE  OnboardRequest(p, m) \/ UNCHANGED onboarding
  <2>1. CASE GatewayRequest(p, m)
    BY Zenon, <2>1 DEF GatewayRequest
  <2>2. CASE GatewayResponse(p, m) \/ WebRequest(p, m) \/ WebResponse(p, m) \/ ConfigRequest(p, m)
    BY Zenon, <2>2 DEF GatewayResponse, WebRequest, WebResponse, ConfigRequest, OnlyVerifies,
                       RestUnchanged
  <2>3. CASE ConfigResponse(p, m) \/ DirectResponse(p, m)
    BY Zenon, <2>3 DEF ConfigResponse, DirectResponse, RestUnchanged
  <2>4. ASSUME NEW wrapped \in BOOLEAN, DirectRequest(p, m, wrapped)
        PROVE  UNCHANGED onboarding
    BY Zenon, <2>4 DEF DirectRequest, RestUnchanged
  <2>5. QED
    BY Zenon, <1>1, <2>1, <2>2, <2>3, <2>4 DEF Handle
<1>2. ASSUME NEW p \in Remote, NEW c \in woken, PolicySynced(p, c)
      PROVE  UNCHANGED onboarding
  BY Zenon, <1>2 DEF PolicySynced, RestUnchanged
<1>3. ASSUME NEW m \in todo, Send(m) PROVE UNCHANGED onboarding
  BY Zenon, <1>3 DEF Send, security, history
<1>4. ASSUME NEW p \in Remote, RegisterPeer(p) \/ QuarantinePeer(p)
      PROVE  UNCHANGED onboarding
  BY Zenon, <1>4 DEF RegisterPeer, QuarantinePeer, security, history
<1>5. CASE ReloadPolicy \/ Reconcile
  BY Zenon, <1>5 DEF ReloadPolicy, Reconcile, security, history
<1>6. ASSUME NEW f \in Files, InstallFile(f) PROVE UNCHANGED onboarding
  BY Zenon, <1>6 DEF InstallFile, security, history
<1>7. ASSUME NEW p \in Peer, ConfirmPeer(p, Required) PROVE UNCHANGED onboarding
  BY Zenon, <1>7 DEF ConfirmPeer, security, history
<1>8. CASE UNCHANGED vars
  BY Zenon, <1>8 DEF vars, security, history
<1>9. Remote \subseteq Peer
  BY Zenon DEF Remote
<1>10. QED
  <2> HIDE DEF onboarding
  <2>1. QED
    BY Zenon, <1>1, <1>2, <1>3, <1>4, <1>5, <1>6, <1>7, <1>8, <1>9 DEF Next

LEMMA OnboardInvStep == ReplayInv /\ OnboardInv /\ [Next]_vars => OnboardInv'
<1> SUFFICES ASSUME ReplayInv, OnboardInv, [Next]_vars PROVE OnboardInv'
  BY Zenon
<1>1. ASSUME NEW p \in Peer, NEW m \in net, OnboardRequest(p, m) PROVE OnboardInv'
  <2>1. m.from \in Peer
    BY Zenon DEF ReplayInv, Messages
  <2>2. QED
    BY Zenon, <1>1, <2>1, OnboardKeepsAttempts
<1>2. CASE Tick
  BY Zenon, <1>2, TickKeepsAttempts
<1>3. CASE Restart
  <2>1. now' \in Time /\ attempts' = [p \in Peer |-> {}] /\ passed' = NoTally
    BY Zenon, <1>3 DEF Restart, OnboardInv
  <2>2. QED
    BY Zenon, <2>1, OnboardInvFreshNext
<1>4. CASE UNCHANGED onboarding
  <2>1. now' = now /\ attempts' = attempts /\ passed' = passed
    BY Zenon, <1>4 DEF onboarding
  <2>2. QED
    BY <2>1 DEF OnboardInv, AttemptsKept
<1>5. QED
  BY Zenon, <1>1, <1>2, <1>3, <1>4, OnboardingSteps

LEMMA OnboardInvInit == Init => OnboardInv
<1>1. Init => now \in Time
  BY PipelineAssumption DEF Init, Time
<1>2. QED
  BY Zenon, <1>1, OnboardInvFresh DEF Init

\* As many numbers as a finite set has elements, at most.
LEMMA NumberedSubset ==
    ASSUME NEW A, IsFiniteSet(A), NEW a \in Nat, NEW b \in Nat,
           \A j \in (a + 1)..b : \E e \in A : e.k = j
    PROVE  b - a <= Cardinality(A)
<1> DEFINE J == (a + 1)..b
           f == [j \in J |-> CHOOSE e \in A : e.k = j]
<1>1. f \in Injection(J, A)
  <2>1. \A j \in J : f[j] \in A /\ f[j].k = j
    BY Zenon
  <2>2. f \in [J -> A]
    BY Zenon, <2>1
  <2> HIDE DEF f, J
  <2>3. \A i, j \in J : f[i] = f[j] => i = j
    BY Zenon, <2>1
  <2>4. QED
    BY Zenon, <2>2, <2>3 DEF Injection, IsInjective
<1>2. IsFiniteSet(J) /\ Cardinality(J) = IF a + 1 > b THEN 0 ELSE b - (a + 1) + 1
  BY FS_Interval
<1> HIDE DEF f, J
<1>3. Cardinality(J) <= Cardinality(A)
  BY Zenon, <1>1, <1>2, FS_Injection DEF ExistsInjection
<1>4. Cardinality(A) \in Nat
  BY Zenon, FS_CardinalityType
<1>5. QED
  BY <1>2, <1>3, <1>4

\* RateLimiter::check: whatever arrives and whenever, at most MaxAttempts of a
\* peer's onboarding attempts get past it in a window.
THEOREM OnboardRateIsBounded == Spec => []OnboardRateBounded
<1>1. OnboardInv => OnboardRateBounded
  <2> SUFFICES ASSUME OnboardInv, NEW p \in Peer, NEW t \in 0..now, now - t < AttemptWindow
               PROVE  Since(passed, p, t) <= MaxAttempts
    BY Zenon DEF OnboardRateBounded
  <2>1. passed[p].total \in Nat /\ passed[p].before[t] \in Nat
    BY Zenon, TallyNumbers DEF OnboardInv
  <2>2. IsFiniteSet(attempts[p]) /\ Cardinality(attempts[p]) <= MaxAttempts
    BY Zenon DEF OnboardInv
  <2>3. \A j \in (passed[p].before[t] + 1)..passed[p].total : \E e \in attempts[p] : e.k = j
    BY Zenon DEF OnboardInv, AttemptsKept
  <2>4. passed[p].total - passed[p].before[t] <= Cardinality(attempts[p])
    BY Zenon, <2>1, <2>2, <2>3, NumberedSubset
  <2>5. Cardinality(attempts[p]) \in Nat /\ MaxAttempts \in Nat
    BY Zenon, <2>2, FS_CardinalityType, GuardsAssumption
  <2>6. QED
    BY <2>1, <2>2, <2>4, <2>5 DEF Since
<1>2. QED
  BY <1>1, ReplayInvInit, ReplayInvStep, OnboardInvInit, OnboardInvStep, PTL DEF Spec

-----------------------------------------------------------------------------
(* The cache of onboarding nonces *)

\* The entry of the i-th recording.
Recording(recs, i) == [nonce |-> recs[i].nonce, at |-> recs[i].at, k |-> i]

CacheInv ==
    /\ now \in Nat
    /\ records \in Seq([nonce : Nonces, at : Nat])
    /\ cache \in SUBSET Recordings
    /\ IsFiniteSet(cache) /\ Cardinality(cache) <= MaxCacheSize
    /\ \A e \in cache : e.k \in 1..Len(records) /\ e = Recording(records, e.k)
    /\ \A i \in 1..Len(records) :
          Len(records) - i < MaxCacheSize /\ now - records[i].at < NonceTtl =>
              Recording(records, i) \in cache
    /\ NonceRepeatsNeedPressure

\* A set of natural numbers that is not empty has a least element.
LEMMA LeastNumber ==
    ASSUME NEW T \in SUBSET Nat, T # {}
    PROVE  \E x \in T : \A y \in T : x <= y
<1> DEFINE R == {ss \in Nat \X Nat : ss[1] < ss[2]}
<1>1. IsWellFoundedOn(R, Nat)
  BY Zenon, NatLessThanWellFounded DEF OpToRel
<1>2. \A x, y \in Nat : y < x => <<y, x>> \in R
  BY Zenon
<1> HIDE DEF R
<1>3. PICK x \in T : \A y \in T : ~(<<y, x>> \in R)
  BY Zenon, <1>1, WFMin
<1>4. x \in Nat /\ \A y \in T : y \in Nat
  BY Zenon
<1>5. \A y \in T : ~(y < x)
  BY Zenon, <1>2, <1>3, <1>4
<1>6. \A y \in T : x <= y
  BY <1>4, <1>5
<1>7. QED
  BY Zenon, <1>6

LEMMA OldestExists ==
    ASSUME NEW c \in SUBSET Recordings, c # {}
    PROVE  \E o \in c : o \in Oldest(c)
<1> DEFINE T == {e.k : e \in c}
<1>1. T \in SUBSET Nat /\ T # {}
  BY Zenon DEF Recordings
<1>2. PICK x \in T : \A y \in T : x <= y
  BY Zenon, <1>1, LeastNumber
<1>3. PICK o \in c : o.k = x
  BY Zenon, <1>2
<1>4. \A f \in c : o.k <= f.k
  BY Zenon, <1>2, <1>3
<1>5. QED
  BY Zenon, <1>4 DEF Oldest

\* An oldest entry that is not too old is in a cache that is not full.
LEMMA OldestNumber ==
    ASSUME NEW c \in SUBSET Recordings, IsFiniteSet(c), NEW n \in Nat,
           \A e \in c : e.k \in 1..n,
           \A e, f \in c : e.k = f.k => e = f,
           NEW o \in Oldest(c)
    PROVE  Cardinality(c) <= n - o.k + 1
<1> DEFINE J == o.k..n
           g == [e \in c |-> e.k]
<1>1. o \in c /\ o.k \in 1..n /\ \A f \in c : o.k <= f.k
  BY Zenon DEF Oldest
<1>2. \A e \in c : e.k \in J
  BY <1>1
<1>3. IsFiniteSet(J) /\ Cardinality(J) = IF o.k > n THEN 0 ELSE n - o.k + 1
  BY <1>1, FS_Interval
<1> HIDE DEF J
<1>4. g \in [c -> J]
  BY Zenon, <1>2
<1>5. \A e, f \in c : g[e] = g[f] => e = f
  BY Zenon
<1> HIDE DEF g
<1>6. g \in Injection(c, J)
  BY Zenon, <1>4, <1>5 DEF Injection, IsInjective
<1>7. Cardinality(c) <= Cardinality(J)
  BY Zenon, <1>3, <1>6, FS_Injection DEF ExistsInjection
<1>8. QED
  BY <1>1, <1>3, <1>7

\* NonceCache::record stays within MaxCacheSize, and keeps all but its oldest
\* entries: those that MaxCacheSize recordings have come after.
LEMMA RecordKeeps ==
    ASSUME NEW old \in SUBSET Recordings, IsFiniteSet(old), Cardinality(old) <= MaxCacheSize,
           NEW n \in Nat, \A e \in old : e.k \in 1..n,
           \A e, f \in old : e.k = f.k => e = f,
           NEW nonce \in Nonces, NEW t \in Nat, Records(old, nonce, t)
    PROVE  /\ Record(old, nonce, t, n + 1) \subseteq
                  old \cup {[nonce |-> nonce, at |-> t, k |-> n + 1]}
           /\ [nonce |-> nonce, at |-> t, k |-> n + 1] \in Record(old, nonce, t, n + 1)
           /\ IsFiniteSet(Record(old, nonce, t, n + 1))
           /\ Cardinality(Record(old, nonce, t, n + 1)) <= MaxCacheSize
           /\ \A e \in old : t - e.at < NonceTtl /\ n + 1 - e.k < MaxCacheSize =>
                  e \in Record(old, nonce, t, n + 1)
<1> DEFINE new == [nonce |-> nonce, at |-> t, k |-> n + 1]
           u == Unexpired(old, t)
           room == IF Cardinality(u) >= MaxCacheSize THEN u \ Oldest(u) ELSE u
<1>1. Record(old, nonce, t, n + 1) = room \cup {new}
  BY Zenon DEF Record
<1>2. u \in SUBSET old /\ \A e \in old : t - e.at < NonceTtl => e \in u
  BY Zenon DEF Unexpired
<1>3. IsFiniteSet(u) /\ Cardinality(u) <= Cardinality(old)
  BY Zenon, <1>2, FS_Subset
<1>4. Cardinality(u) \in Nat /\ Cardinality(old) \in Nat /\ MaxCacheSize \in Nat /\ MaxCacheSize # 0
  BY Zenon, <1>3, FS_CardinalityType, GuardsAssumption
<1> HIDE DEF u
<1>5. u \in SUBSET Recordings /\ (\A e \in u : e.k \in 1..n)
      /\ \A e, f \in u : e.k = f.k => e = f
  BY Zenon, <1>2
<1>6. /\ room \in SUBSET u /\ IsFiniteSet(room) /\ Cardinality(room) + 1 <= MaxCacheSize
      /\ Cardinality(room) \in Nat
      /\ \A e \in u : n + 1 - e.k < MaxCacheSize => e \in room
  <2>1. CASE Cardinality(u) >= MaxCacheSize
    <3>1. room = u \ Oldest(u)
      BY Zenon, <2>1
    <3>2. PICK o \in u : o \in Oldest(u)
      <4>1. u # {}
        BY <1>4, <2>1, FS_EmptySet
      <4>2. QED
        BY Zenon, <1>5, <4>1, OldestExists
    <3>3. IsFiniteSet(u \ {o}) /\ Cardinality(u \ {o}) = Cardinality(u) - 1
      BY Zenon, <1>3, FS_RemoveElement
    <3> HIDE DEF room
    <3>4. room \in SUBSET (u \ {o})
      BY Zenon, <3>1, <3>2
    <3>5. IsFiniteSet(room) /\ Cardinality(room) <= Cardinality(u \ {o})
      BY Zenon, <3>3, <3>4, FS_Subset
    <3>6. Cardinality(room) \in Nat
      BY Zenon, <3>5, FS_CardinalityType
    <3>7. ASSUME NEW e \in u, n + 1 - e.k < MaxCacheSize PROVE e \in room
      <4>1. SUFFICES ASSUME e \in Oldest(u) PROVE FALSE
        BY Zenon, <3>1
      <4>2. Cardinality(u) <= n - e.k + 1
        BY Zenon, <1>3, <1>5, <4>1, OldestNumber
      <4>3. e.k \in Nat
        BY <1>5
      <4>4. QED
        BY <1>4, <2>1, <3>7, <4>2, <4>3
    <3>8. Cardinality(room) + 1 <= MaxCacheSize
      BY <1>3, <1>4, <3>3, <3>5, <3>6
    <3>9. QED
      BY Zenon, <3>4, <3>5, <3>6, <3>7, <3>8
  <2>2. CASE ~(Cardinality(u) >= MaxCacheSize)
    <3>1. room = u
      BY Zenon, <2>2
    <3>2. Cardinality(u) + 1 <= MaxCacheSize
      BY <1>4, <2>2
    <3>3. QED
      BY Zenon, <1>3, <1>4, <3>1, <3>2
  <2>3. QED
    BY Zenon, <2>1, <2>2
<1> HIDE DEF room, new
<1>7. /\ IsFiniteSet(room \cup {new})
      /\ Cardinality(room \cup {new}) = IF new \in room THEN Cardinality(room) ELSE Cardinality(room) + 1
  BY Zenon, <1>6, FS_AddElement
<1>8. Cardinality(room \cup {new}) <= MaxCacheSize
  BY <1>4, <1>6, <1>7
<1>9. QED
  BY Zenon, <1>1, <1>2, <1>6, <1>7, <1>8 DEF new

LEMMA RecordedAt ==
    ASSUME NEW s \in Seq([nonce : Nonces, at : Nat]), NEW i \in 1..Len(s)
    PROVE  s[i].at \in Nat
<1> DEFINE S == [nonce : Nonces, at : Nat]
<1>1. \A r \in S : r.at \in Nat
  BY Zenon
<1> HIDE DEF S
<1>2. s \in Seq(S)
  BY Zenon DEF S
<1>3. s[i] \in S
  BY ONLY s \in Seq(S), i \in 1..Len(s), <1>2
<1>4. QED
  BY Zenon, <1>1, <1>3

\* A recording appended to the history: what NonceRepeatsNeedPressure says of it.
LEMMA OnboardKeepsCache ==
    ASSUME CacheInv, NEW p \in Peer, NEW m \in Messages, OnboardRequest(p, m)
    PROVE  CacheInv'
<1> DEFINE n == Len(records)
           r == [nonce |-> m.nonce, at |-> now]
           fresh == Check(attempts[m.from], now) /\ AbsDiff(now, m.ts) <= NonceTtl
           new == Records(cache, m.nonce, now)
<1>1. /\ now' = now
      /\ cache' = IF fresh THEN Record(cache, m.nonce, now, n + 1) ELSE cache
      /\ records' = IF fresh /\ new THEN Append(records, r) ELSE records
  BY Zenon DEF OnboardRequest
<1>2. /\ now \in Nat /\ records \in Seq([nonce : Nonces, at : Nat]) /\ n \in Nat
      /\ cache \in SUBSET Recordings /\ IsFiniteSet(cache) /\ Cardinality(cache) <= MaxCacheSize
      /\ \A e \in cache : e.k \in 1..n /\ e = Recording(records, e.k)
      /\ m.nonce \in Nonces
  BY DEF CacheInv, Messages
<1>3. NonceTtl \in Nat /\ MaxCacheSize \in Nat
  BY Zenon, GuardsAssumption
<1> HIDE DEF fresh, new
<1>4. CASE ~fresh
  <2>1. now' = now /\ cache' = cache /\ records' = records
    BY Zenon, <1>1, <1>4
  <2>2. QED
    BY Zenon, <2>1 DEF CacheInv, Recording, NonceRepeatsNeedPressure
<1>5. CASE fresh /\ ~new
  <2>1. now' = now /\ cache' = Unexpired(cache, now) /\ records' = records
    BY Zenon, <1>1, <1>5 DEF Record, new
  <2>2. cache' \in SUBSET cache /\ \A e \in cache : now - e.at < NonceTtl => e \in cache'
    BY Zenon, <2>1 DEF Unexpired
  <2>3. IsFiniteSet(cache') /\ Cardinality(cache') <= Cardinality(cache)
    BY Zenon, <1>2, <2>2, FS_Subset
  <2>4. Cardinality(cache') <= MaxCacheSize
    BY <1>2, <1>3, <2>3, FS_CardinalityType
  <2>5. ASSUME NEW i \in 1..Len(records),
               Len(records) - i < MaxCacheSize, now - records[i].at < NonceTtl
        PROVE  Recording(records, i) \in cache'
    <3>1. Recording(records, i) \in cache
      BY Zenon, <2>5 DEF CacheInv
    <3>2. Recording(records, i).at = records[i].at
      BY Zenon DEF Recording
    <3>3. QED
      BY Zenon, <2>2, <2>5, <3>1, <3>2
  <2>6. \A i : Recording(records', i) = Recording(records, i)
    BY Zenon, <2>1 DEF Recording
  <2>7. NonceRepeatsNeedPressure'
    BY Zenon, <2>1 DEF CacheInv, NonceRepeatsNeedPressure
  <2>8. \A e \in cache' : e.k \in 1..Len(records) /\ e = Recording(records', e.k)
    BY Zenon, <1>2, <2>2, <2>6
  <2>9. \A i \in 1..Len(records) :
            Len(records) - i < MaxCacheSize /\ now - records[i].at < NonceTtl =>
                Recording(records', i) \in cache'
    BY Zenon, <2>5, <2>6
  <2>10. cache' \in SUBSET Recordings
    BY Zenon, <1>2, <2>2
  <2>11. QED
    BY Zenon, <1>2, <2>1, <2>3, <2>4, <2>7, <2>8, <2>9, <2>10 DEF CacheInv
<1>6. CASE fresh /\ new
  <2>1. now' = now /\ cache' = Record(cache, m.nonce, now, n + 1) /\ records' = Append(records, r)
    BY Zenon, <1>1, <1>6
  <2>2. /\ records' \in Seq([nonce : Nonces, at : Nat]) /\ Len(records') = n + 1
        /\ records'[n + 1] = r
        /\ \A i \in 1..n : records'[i] = records[i]
    BY <1>2, <2>1
  <2>3. /\ \A i \in 1..n : Recording(records', i) = Recording(records, i)
        /\ Recording(records', n + 1) = [nonce |-> m.nonce, at |-> now, k |-> n + 1]
    BY <2>2 DEF Recording
  <2>4. \A e, f \in cache : e.k = f.k => e = f
    BY Zenon, <1>2
  <2> HIDE DEF n, r
  <2>5. /\ cache' \subseteq cache \cup {Recording(records', n + 1)} /\ Recording(records', n + 1) \in cache'
        /\ IsFiniteSet(cache') /\ Cardinality(cache') <= MaxCacheSize
        /\ \A e \in cache : now - e.at < NonceTtl /\ n + 1 - e.k < MaxCacheSize => e \in cache'
    <3>1. Records(cache, m.nonce, now)
      BY Zenon, <1>6 DEF new
    <3>2. \A e \in cache : e.k \in 1..n
      BY Zenon, <1>2
    <3>3. Recording(records', n + 1) = [nonce |-> m.nonce, at |-> now, k |-> n + 1]
      BY Zenon, <2>3
    <3>4. n \in Nat /\ now \in Nat /\ m.nonce \in Nonces /\ cache \in SUBSET Recordings
          /\ IsFiniteSet(cache) /\ Cardinality(cache) <= MaxCacheSize
      BY Zenon, <1>2
    <3> DEFINE nonce == m.nonce
               C == Record(cache, nonce, now, n + 1)
               N == [nonce |-> nonce, at |-> now, k |-> n + 1]
    <3> HIDE DEF nonce
    <3>5. /\ C \subseteq cache \cup {N} /\ N \in C
          /\ IsFiniteSet(C) /\ Cardinality(C) <= MaxCacheSize
          /\ \A e \in cache : now - e.at < NonceTtl /\ n + 1 - e.k < MaxCacheSize => e \in C
      BY Zenon, <2>4, <3>1, <3>2, <3>4, RecordKeeps DEF nonce
    <3>6. cache' = C /\ Recording(records', n + 1) = N
      BY Zenon, <2>1, <3>3 DEF nonce
    <3> HIDE DEF C, N
    <3>7. QED
      BY Zenon, <3>5, <3>6
  <2>6. Recording(records', n + 1) \in Recordings /\ Recording(records', n + 1).k = n + 1 /\ n + 1 \in 1..(n + 1)
    BY <1>2, <2>3 DEF Recordings
  <2>7. \A e \in cache' : e.k \in 1..Len(records') /\ e = Recording(records', e.k)
    <3> SUFFICES ASSUME NEW e \in cache'
                 PROVE  e.k \in 1..(n + 1) /\ e = Recording(records', e.k)
      BY Zenon, <2>2
    <3>1. CASE e \in cache
      <4>1. e.k \in 1..n /\ e = Recording(records, e.k)
        BY Zenon, <1>2, <3>1
      <4>2. e.k \in 1..(n + 1)
        BY <1>2, <4>1
      <4>3. QED
        BY Zenon, <2>3, <4>1, <4>2
    <3>2. CASE e = Recording(records', n + 1)
      BY Zenon, <2>6, <3>2
    <3>3. QED
      BY Zenon, <2>5, <3>1, <3>2
  <2>8. ASSUME NEW i \in 1..Len(records'), Len(records') - i < MaxCacheSize,
               now' - records'[i].at < NonceTtl
        PROVE  Recording(records', i) \in cache'
    <3>1. i \in 1..(n + 1) /\ n + 1 - i < MaxCacheSize /\ now - records'[i].at < NonceTtl
      <4>1. Len(records') = n + 1 /\ now' = now
        BY Zenon, <2>1, <2>2
      <4>2. now \in Nat /\ n \in Nat /\ NonceTtl \in Nat /\ MaxCacheSize \in Nat
            /\ records'[i].at \in Nat
        BY Zenon, <1>2, <1>3, <2>2, RecordedAt
      <4>3. QED
        BY ONLY <2>8, <4>1, <4>2, i \in 1..Len(records')
    <3>2. CASE i = n + 1
      BY Zenon, <2>5, <3>2
    <3>3. CASE i \in 1..n
      <4>1. n - i < MaxCacheSize
        <5>1. n \in Nat /\ MaxCacheSize \in Nat /\ i \in 1..n /\ n + 1 - i < MaxCacheSize
          BY Zenon, <1>2, <1>3, <3>1, <3>3
        <5>2. QED
          BY ONLY <5>1
      <4>2. records'[i] = records[i] /\ Recording(records', i) = Recording(records, i)
        BY Zenon, <2>2, <2>3, <3>3
      <4>3. Recording(records, i) \in cache
        BY Zenon, <3>1, <3>3, <4>1, <4>2 DEF CacheInv, n
      <4>4. Recording(records, i).at = records[i].at /\ Recording(records, i).k = i
        BY Zenon DEF Recording
      <4>5. now - Recording(records, i).at < NonceTtl /\ n + 1 - Recording(records, i).k < MaxCacheSize
        BY Zenon, <3>1, <4>2, <4>4
      <4>6. QED
        BY Zenon, <2>5, <4>2, <4>3, <4>5
    <3>4. QED
      BY <1>2, <3>1, <3>2, <3>3
  <2>9. NonceRepeatsNeedPressure'
    <3> SUFFICES ASSUME NEW i \in 1..(n + 1), NEW j \in 1..(n + 1), i < j,
                        records'[i].nonce = records'[j].nonce
                 PROVE  records'[j].at - records'[i].at >= NonceTtl \/ j - i > MaxCacheSize
      BY Zenon, <2>2 DEF NonceRepeatsNeedPressure
    <3>1. i \in 1..n /\ records'[i] = records[i]
      <4>1. n \in Nat
        BY Zenon, <1>2
      <4>2. i \in 1..n
        BY <4>1
      <4>3. QED
        BY Zenon, <2>2, <4>2
    <3>2. CASE j \in 1..n
      <4>1. records'[j] = records[j]
        BY Zenon, <2>2, <3>2
      <4>2. QED
        BY Zenon, <3>1, <3>2, <4>1 DEF CacheInv, NonceRepeatsNeedPressure, n
    <3>3. CASE j = n + 1
      <4>1. records'[j].at = now /\ records'[j].nonce = m.nonce
        BY <2>2, <3>3 DEF r
      <4>2. CASE Recording(records, i) \in cache
        <5>1. Recording(records, i).nonce = m.nonce /\ Recording(records, i).at = records[i].at
          BY Zenon, <3>1, <4>1 DEF Recording
        <5>2. ~(now - Recording(records, i).at < NonceTtl)
          BY Zenon, <1>6, <4>2, <5>1 DEF new, Records, Unexpired
        <5>3. records[i].at \in Nat
          BY Zenon, <3>1, RecordedAt DEF CacheInv, n
        <5>4. now \in Nat /\ NonceTtl \in Nat /\ records'[i].at = records[i].at
          BY Zenon, <1>2, <1>3, <3>1
        <5>5. QED
          BY ONLY <4>1, <5>1, <5>2, <5>3, <5>4
      <4>3. CASE ~(Recording(records, i) \in cache)
        <5>1. ~(n - i < MaxCacheSize) \/ ~(now - records[i].at < NonceTtl)
          BY Zenon, <3>1, <4>3 DEF CacheInv, n
        <5>2. records[i].at \in Nat
          BY Zenon, <3>1, RecordedAt DEF CacheInv, n
        <5>3. /\ now \in Nat /\ NonceTtl \in Nat /\ records'[i].at = records[i].at
              /\ n \in Nat /\ MaxCacheSize \in Nat /\ i \in 1..n
          BY Zenon, <1>2, <1>3, <3>1
        <5>4. QED
          BY ONLY <3>3, <4>1, <5>1, <5>2, <5>3
      <4>4. QED
        BY Zenon, <4>2, <4>3
    <3>4. n \in Nat
      BY Zenon, <1>2
    <3>5. j \in 1..n \/ j = n + 1
      BY ONLY j \in 1..(n + 1), <3>4
    <3>6. QED
      BY Zenon, <3>2, <3>3, <3>5
  <2>10. cache' \in SUBSET Recordings
    BY Zenon, <1>2, <2>5, <2>6
  <2>11. QED
    <3>1. \A i \in 1..Len(records') :
              Len(records') - i < MaxCacheSize /\ now' - records'[i].at < NonceTtl =>
                  Recording(records', i) \in cache'
      BY Zenon, <2>8
    <3>2. now' \in Nat
      BY Zenon, <1>2, <2>1
    <3>3. QED
      BY Zenon, <2>2, <2>5, <2>7, <2>9, <2>10, <3>1, <3>2 DEF CacheInv
<1>7. QED
  BY Zenon, <1>4, <1>5, <1>6

\* As time passes, fewer recordings are recent.
LEMMA TickKeepsCache ==
    ASSUME CacheInv, Tick
    PROVE  CacheInv'
<1>1. now' = now + 1 /\ cache' = cache /\ records' = records
  BY Zenon DEF Tick, security
<1>2. now \in Nat /\ NonceTtl \in Nat /\ \A i \in 1..Len(records) : records[i].at \in Nat
  BY Zenon, GuardsAssumption, RecordedAt DEF CacheInv
<1>3. \A i \in 1..Len(records) : now + 1 - records[i].at < NonceTtl => now - records[i].at < NonceTtl
  BY <1>2
<1>4. \A i \in 1..Len(records) :
          Len(records) - i < MaxCacheSize /\ now + 1 - records[i].at < NonceTtl =>
              Recording(records, i) \in cache
  BY Zenon, <1>3 DEF CacheInv
<1>5. now + 1 \in Nat
  BY <1>2
<1>6. \A i \in 1..Len(records') :
          Len(records') - i < MaxCacheSize /\ now' - records'[i].at < NonceTtl =>
              Recording(records', i) \in cache'
  <2> SUFFICES ASSUME NEW i \in 1..Len(records), Len(records) - i < MaxCacheSize,
                      now' - records[i].at < NonceTtl
               PROVE  Recording(records, i) \in cache
    BY Zenon, <1>1
  <2>1. now + 1 - records[i].at < NonceTtl
    BY <1>1, <1>2
  <2>2. QED
    BY Zenon, <1>4, <2>1
<1>7. NonceRepeatsNeedPressure'
  BY Zenon, <1>1 DEF CacheInv, NonceRepeatsNeedPressure
<1>8. /\ records' \in Seq([nonce : Nonces, at : Nat])
      /\ cache' \in SUBSET Recordings
      /\ IsFiniteSet(cache') /\ Cardinality(cache') <= MaxCacheSize
      /\ \A e \in cache' : e.k \in 1..Len(records') /\ e = Recording(records', e.k)
  BY Zenon, <1>1 DEF CacheInv
<1>9. now' \in Nat
  BY Zenon, <1>1, <1>5
<1>10. QED
  BY Zenon, <1>6, <1>7, <1>8, <1>9 DEF CacheInv

LEMMA NothingRecorded ==
    /\ <<>> \in Seq([nonce : Nonces, at : Nat]) /\ 1..Len(<<>>) = {}
    /\ IsFiniteSet({}) /\ Cardinality({}) <= MaxCacheSize
<1>1. IsFiniteSet({}) /\ Cardinality({}) <= MaxCacheSize
  BY FS_EmptySet, GuardsAssumption
<1>2. QED
  BY <1>1

LEMMA CacheInvStep == ReplayInv /\ CacheInv /\ [Next]_vars => CacheInv'
<1> SUFFICES ASSUME ReplayInv, CacheInv, [Next]_vars PROVE CacheInv'
  BY Zenon
<1>1. ASSUME NEW p \in Peer, NEW m \in net, OnboardRequest(p, m) PROVE CacheInv'
  <2>1. m \in Messages
    BY Zenon DEF ReplayInv
  <2>2. QED
    BY Zenon, <1>1, <2>1, OnboardKeepsCache
<1>2. CASE Tick
  BY Zenon, <1>2, TickKeepsCache
<1>3. CASE Restart
  <2>1. now' \in Nat /\ cache' = {} /\ records' = <<>>
    BY Zenon, <1>3 DEF Restart, CacheInv
  <2>2. NonceRepeatsNeedPressure'
    BY Zenon, <2>1, NothingRecorded DEF NonceRepeatsNeedPressure
  <2>3. QED
    BY Zenon, <2>1, <2>2, NothingRecorded DEF CacheInv
<1>4. CASE UNCHANGED onboarding
  <2>1. now' = now /\ cache' = cache /\ records' = records
    BY Zenon, <1>4 DEF onboarding
  <2>2. QED
    BY Zenon, <2>1 DEF CacheInv, Recording, NonceRepeatsNeedPressure
<1>5. QED
  BY Zenon, <1>1, <1>2, <1>3, <1>4, OnboardingSteps

LEMMA CacheInvInit == Init => CacheInv
<1> SUFFICES ASSUME Init PROVE CacheInv
  BY Zenon
<1>1. now \in Nat /\ cache = {} /\ records = <<>>
  BY Zenon DEF Init
<1>2. NonceRepeatsNeedPressure
  BY Zenon, <1>1, NothingRecorded DEF NonceRepeatsNeedPressure
<1>3. QED
  BY Zenon, <1>1, <1>2, NothingRecorded DEF CacheInv

\* NonceCache: a nonce comes back only when it has expired or MaxCacheSize
\* recordings have come after it.
THEOREM NonceRepeatsAreRare == Spec => []NonceRepeatsNeedPressure
<1>1. CacheInv => NonceRepeatsNeedPressure
  BY Zenon DEF CacheInv
<1>2. QED
  BY <1>1, CacheInvInit, ReplayInvInit, ReplayInvStep, CacheInvStep, PTL DEF Spec

-----------------------------------------------------------------------------
(* Types *)

RestInv ==
    /\ keys \in SUBSET Peer
    /\ policy \in Policies
    /\ quarantined \in SUBSET Peer
    /\ budget \in Nat
    /\ gate \in [Peer -> TokenBuckets \cup {NoBucket}]

\* A bucket that is looked at is stored with the time of the look.
LEMMA StoredBucket ==
    ASSUME GateInv, NEW p \in Peer
    PROVE  Allow(BucketOf(p), now) \in TokenBuckets
<1> DEFINE b == BucketOf(p)
           n == IF Allows(b, now) THEN 1 ELSE 0
           c == Allow(b, now)
<1>1. n \in Int
  OBVIOUS
<1>2. c \in Buckets /\ c.last = now
  BY Zenon, <1>1, AllowIsPaid
<1>3. now \in Nat /\ Burst \in Nat
  BY GuardsAssumption DEF GateInv, Time
<1> HIDE DEF c
<1>4. c \in TokenBuckets
  BY <1>2, <1>3 DEF Buckets, TokenBuckets
<1>5. QED
  BY Zenon, <1>4 DEF c

LEMMA BundleType ==
    ASSUME NEW pol \in Policies
    PROVE  ApplyBundle(pol, Bundle) \in Policies
BY Zenon, PipelineAssumption DEF ApplyBundle, Policies

LEMMA RestInvStep == GateInv /\ RestInv /\ [Next]_vars => RestInv'
<1> SUFFICES ASSUME GateInv, RestInv, [Next]_vars PROVE RestInv'
  BY Zenon
<1> DEFINE rest == <<keys, policy, quarantined, budget, gate>>
<1>1. ASSUME UNCHANGED rest PROVE RestInv'
  BY Zenon, <1>1 DEF RestInv
<1>2. Change => budget' \in Nat
  BY DEF RestInv, Change
<1>3. ASSUME NEW p \in Peer, NEW m, GatewayRequest(p, m) PROVE RestInv'
  <2>1. UNCHANGED <<keys, policy, quarantined, budget>>
    BY Zenon, <1>3 DEF GatewayRequest
  <2>2. gate' = [gate EXCEPT ![p] = Allow(BucketOf(p), now)] \/ gate' = gate
    BY Zenon, <1>3 DEF GatewayRequest
  <2>3. gate' \in [Peer -> TokenBuckets \cup {NoBucket}]
    BY Zenon, <2>2, StoredBucket DEF RestInv
  <2>4. QED
    BY Zenon, <2>1, <2>3 DEF RestInv
<1>4. ASSUME NEW p, NEW m,
             policy' = policy \/ policy' = ApplyBundle(policy, Bundle), RestUnchanged
      PROVE  RestInv'
  <2>1. UNCHANGED <<keys, quarantined, budget, gate>>
    BY Zenon, <1>4 DEF RestUnchanged
  <2>2. policy' \in Policies
    BY Zenon, <1>4, BundleType DEF RestInv
  <2>3. QED
    BY Zenon, <2>1, <2>2 DEF RestInv
<1>5. ASSUME NEW p \in Remote, NEW m \in net, Handle(p, m) PROVE RestInv'
  <2>1. CASE GatewayRequest(p, m)
    BY Zenon, <1>3, <2>1 DEF Remote
  <2>2. CASE GatewayResponse(p, m) \/ WebRequest(p, m) \/ WebResponse(p, m) \/ ConfigRequest(p, m)
    BY Zenon, <1>4, <2>2 DEF GatewayResponse, WebRequest, WebResponse, ConfigRequest, OnlyVerifies
  <2>3. CASE ConfigResponse(p, m) \/ DirectResponse(p, m)
    BY Zenon, <1>4, <2>3 DEF ConfigResponse, DirectResponse
  <2>4. ASSUME NEW wrapped \in BOOLEAN, DirectRequest(p, m, wrapped) PROVE RestInv'
    BY Zenon, <1>4, <2>4 DEF DirectRequest
  <2>5. CASE OnboardRequest(p, m)
    <3>1. UNCHANGED <<policy, quarantined, budget, gate>>
      BY Zenon, <2>5 DEF OnboardRequest
    <3>2. keys' = keys \cup {p} \/ keys' = keys
      BY Zenon, <2>5 DEF OnboardRequest
    <3>3. QED
      BY Zenon, <3>1, <3>2 DEF RestInv, Remote
  <2>6. QED
    BY Zenon, <1>5, <2>1, <2>2, <2>3, <2>4, <2>5 DEF Handle
<1>6. ASSUME NEW p \in Remote, NEW c \in woken, PolicySynced(p, c) PROVE RestInv'
  BY Zenon, <1>4, <1>6 DEF PolicySynced
<1>7. ASSUME NEW m \in todo, Send(m) PROVE RestInv'
  BY Zenon, <1>1, <1>7 DEF Send, security
<1>8. CASE Tick
  BY Zenon, <1>1, <1>8 DEF Tick, security
<1>9. ASSUME NEW p \in Remote, RegisterPeer(p) PROVE RestInv'
  BY Zenon, <1>9 DEF RegisterPeer, RestInv, Remote
<1>10. ASSUME NEW p \in Remote, QuarantinePeer(p) PROVE RestInv'
  BY Zenon, <1>2, <1>10 DEF QuarantinePeer, RestInv, Remote, security
<1>11. CASE ReloadPolicy
  BY Zenon, <1>2, <1>11, PipelineAssumption DEF ReloadPolicy, RestInv
<1>12. ASSUME NEW f \in Files, InstallFile(f) PROVE RestInv'
  BY Zenon, <1>2, <1>12 DEF InstallFile, RestInv, security
<1>13. CASE Reconcile
  BY Zenon, <1>1, <1>13 DEF Reconcile, security
<1>14. ASSUME NEW p \in Peer, ConfirmPeer(p, Required) PROVE RestInv'
  BY Zenon, <1>2, <1>14 DEF ConfirmPeer, RestInv, security
<1>15. CASE Restart
  <2>1. budget' \in Nat /\ keys' = {} /\ policy' = PolicyFile /\ quarantined' = {}
        /\ gate' = [p \in Peer |-> NoBucket]
    BY Zenon, <1>2, <1>15 DEF Restart
  <2>2. QED
    BY Zenon, <2>1, PipelineAssumption DEF RestInv
<1>16. CASE UNCHANGED vars
  BY Zenon, <1>1, <1>16 DEF vars, security
<1>17. QED
  BY Zenon, <1>5, <1>6, <1>7, <1>8, <1>9, <1>10, <1>11, <1>12, <1>13, <1>14, <1>15, <1>16 DEF Next

LEMMA RestInvInit == Init => RestInv
<1> SUFFICES ASSUME Init PROVE RestInv
  BY Zenon
<1>1. budget \in Nat
  BY Zenon, PipelineAssumption DEF Init
<1>2. QED
  BY Zenon, <1>1, PipelineAssumption DEF Init, RestInv

PipelineInv == ReplayInv /\ GateInv /\ AuthInv /\ OnboardInv /\ CacheInv /\ RestInv

\* The caps of the nonce cache, the limiter and the buckets hold in every state.
THEOREM PipelineTypes == Spec => []PipelineTypeOK
<1>1. Init => PipelineInv
  BY Zenon, ReplayInvInit, GateInvInit, AuthorityInit, OnboardInvInit, CacheInvInit, RestInvInit
     DEF PipelineInv
<1>2. PipelineInv /\ [Next]_vars => PipelineInv'
  <2> SUFFICES ASSUME PipelineInv, [Next]_vars PROVE PipelineInv'
    BY Zenon
  <2>1. AuthInv'
    BY Zenon, AuthorityStep DEF PipelineInv
  <2>2. QED
    BY Zenon, <2>1, ReplayInvStep, GateInvStep, OnboardInvStep, CacheInvStep, RestInvStep
       DEF PipelineInv
<1>3. PipelineInv => PipelineTypeOK
  <2> SUFFICES ASSUME PipelineInv PROVE PipelineTypeOK
    BY Zenon
  <2>1. \A p \in Peer : gate[p].tokens <= Burst
    <3>1. \A p \in Peer : gate[p] \in Buckets
      BY Zenon DEF PipelineInv, GateInv
    <3>2. Burst \in Nat
      BY Zenon, GuardsAssumption
    <3>3. \A b \in Buckets : b.tokens <= Burst
      BY ONLY <3>2 DEF Buckets
    <3>4. QED
      BY Zenon, <3>1, <3>3
  <2>2. QED
    BY Zenon, <2>1 DEF PipelineInv, PipelineTypeOK, ReplayInv, GateInv, AuthInv, OnboardInv,
                       CacheInv, RestInv
<1>4. QED
  BY <1>1, <1>2, <1>3, PTL DEF Spec
=============================================================================
