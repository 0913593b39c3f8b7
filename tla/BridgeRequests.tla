---- MODULE BridgeRequests ----
(***************************************************************************)
(* Requests to the bridge from their arrival to the end of their response: *)
(* the compatibility gate shared by all of them (bridge-server.mjs), the   *)
(* handler's steps in their order (responses-proxy.mjs) and the relay.     *)
(* What is decided on the content of a request is a choice between going   *)
(* on and an error; the certification gate's decision is                   *)
(* CertificationStore's RequestAllowed.                                    *)
(***************************************************************************)
EXTENDS CompatibilityGate, ResponsesRelay

CONSTANT Followed    \* bound: the other requests leave the model when admitted

ASSUME FollowedAssumption == Followed \subseteq Requests

VARIABLE pc    \* what the handler of each request awaits

vars == <<gateVars, relayVars, pc>>

Places == {"idle", "gate", "body", "certification", "credential", "relay"}

TypeOK == GateTypeOK /\ RelayTypeOK /\ pc \in [Requests -> Places]

Init == GateInit /\ RelayInit /\ pc = [r \in Requests |-> "idle"]

Settled(r) == relay[r].stage = "settled"
Refused(here) == [Error(Off, here) EXCEPT !.stage = "settled"]
Refuse(r) == Set(r, Refused(Here(r))) /\ pc' = [pc EXCEPT ![r] = "relay"]
Await(r, place) == pc' = [pc EXCEPT ![r] = place] /\ UNCHANGED relayVars

\* Once no inspection runs, those who waited are admitted or refused together.
Decide(waiting) ==
  IF gate'.stage # "off"
  THEN /\ pc' = [r \in Requests |-> IF r \in waiting THEN "gate" ELSE pc[r]]
       /\ UNCHANGED <<relay>>
  ELSE /\ pc' = [r \in Requests |-> IF r \notin waiting THEN pc[r]
                   ELSE IF gate'.status = "compatible" THEN "body" ELSE "relay"]
       /\ relay' = [r \in Requests |-> IF r \in waiting /\ gate'.status # "compatible"
                                       THEN Refused(Here(r)) ELSE relay[r]]
Waiting == {r \in Requests : pc[r] = "gate"}

\* A request on a new connection.
Arrive(r) ==
  /\ pc[r] = "idle"
  /\ Inspect /\ Watch
  /\ Decide(Waiting \cup {r})
  /\ UNCHANGED client
\* The connection is used again.
Reuse(r) ==
  /\ \/ Settled(r) /\ ~relay[r].echo
     \/ pc[r] = "body" /\ r \notin Followed
  /\ pc' = [pc EXCEPT ![r] = "idle"]
  /\ relay' = [relay EXCEPT ![r] = Off] /\ client' = [client EXCEPT ![r] = "here"]
  /\ UNCHANGED gateVars
\* The interval of the gate.
Tick == Inspect /\ Watch /\ gate' # gate /\ UNCHANGED <<relayVars, pc>>
Inspection == InspectionStep /\ Decide(Waiting) /\ UNCHANGED client
Update == Replace /\ UNCHANGED <<relayVars, pc>>

\* The relay begins when nothing is left to await.
Ask(r, kind) == Start(r, kind) /\ pc' = [pc EXCEPT ![r] = "relay"]
Remember(r, kind, place) ==
  Set(r, [Off EXCEPT !.kind = kind]) /\ pc' = [pc EXCEPT ![r] = place]

\* The body is read and decoded, the model resolved.
Body(r) ==
  /\ pc[r] = "body" /\ r \in Followed
  /\ \/ Refuse(r)
     \/ Ask(r, "native")
     \/ \E kind \in Kinds \ {"native"} : Remember(r, kind, "certification")
  /\ UNCHANGED gateVars

\* externalRequestGate, then the projection of the request.
Certification(r) ==
  /\ pc[r] = "certification"
  /\ \/ Refuse(r)
     \/ relay[r].kind \in {"external", "probe"} /\ Await(r, "credential")
     \/ relay[r].kind \in {"side", "mlx"} /\ Ask(r, relay[r].kind)
  /\ UNCHANGED gateVars

Credential(r) ==
  /\ pc[r] = "credential"
  /\ Refuse(r) \/ Ask(r, relay[r].kind)
  /\ UNCHANGED gateVars

Relay(r) ==
  /\ RelayStep(r)
  /\ pc[r] # "idle" /\ r \in Followed
  /\ UNCHANGED <<gateVars, pc>>

Request(r) ==
  Arrive(r) \/ Reuse(r) \/ Body(r) \/ Certification(r) \/ Credential(r) \/ Relay(r)
Next == Tick \/ Inspection \/ Update \/ \E r \in Requests : Request(r)

Spec == Init /\ [][Next]_vars

(***************************************************************************)
(* Inspections are bounded by their own timeouts, the handler's steps by   *)
(* the server's request timeout and those of the store and the key chain,  *)
(* a relay by its total timer.  Neither the upstream nor the client nor an *)
(* idle timer, which every chunk winds up again, is relied on.             *)
(***************************************************************************)
Fairness ==
  /\ WF_vars(Inspection) /\ WF_vars(Tick)
  /\ \A r \in Requests :
       /\ WF_vars(Body(r)) /\ WF_vars(Certification(r)) /\ WF_vars(Credential(r))
       /\ WF_vars(TotalTimeout(r) /\ UNCHANGED <<gateVars, pc>>)

FairSpec == Spec /\ Fairness

(***************************************************************************)
(* Properties                                                              *)
(***************************************************************************)
\* A request that joins an inspection of others is still admitted only on an
\* executable that was in place since that inspection began, that was itself
\* what the probes ran, and that this release supports
\* (runtime-compatibility.mjs, inspect).
AdmittedOnFreshLook ==
  [][\A r \in Requests : pc[r] # "body" /\ pc'[r] = "body"
       => gate'.observed \in recent' \ unfit /\ ~Latched']_vars

\* Late errors of a destroyed upstream, timers and the client's close change
\* nothing after the first outcome, neither on the wire nor in the usage
\* (responses-proxy.mjs, fail and finish).
SettledOnce ==
  [][\A r \in Requests : Settled(r) /\ Settled(r)' =>
       /\ relay'[r].head = relay[r].head /\ relay'[r].tail = relay[r].tail
       /\ relay'[r].usage = relay[r].usage]_vars

\* A client that stayed is never cut off from a response the bridge rewrites:
\* it gets a status, the response, or a failed event, unless the model's own
\* terminal event had already told it (responses-proxy.mjs, writeChunk).
NeverCut ==
  \A r \in Requests : Settled(r) /\ Here(r) /\ relay[r].tail = "reset" =>
    relay[r].mode = "plain" \/ relay[r].terminal

\* A success that ends cleanly was read to the upstream's own end, and only
\* one a client took to its end counts as measured (tokenUsageObserver).
OutcomeTruthful ==
  \A r \in Requests :
    /\ relay[r].head = "ok" /\ relay[r].tail = "clean" => relay[r].sent = "complete"
    /\ relay[r].usage = "counted" => relay[r].head = "ok" /\ relay[r].tail = "clean"

\* The upstream is paused only while the client still owes a drain, which
\* resumes it: back-pressure cannot stall a response (writeChunk, drain).
PausedOnlyWhileFull == \A r \in Requests : relay[r].paused => relay[r].full

\* Whatever the upstream and the client do, every request is refused or its
\* response settles (admitModelRequest, handleResponses, relayUpstream).
EveryRequestSettles ==
  \A r \in Requests : pc[r] = "gate" ~>
    Settled(r) \/ (r \notin Followed /\ pc[r] = "body")
====
