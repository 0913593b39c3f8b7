------------------------ MODULE BridgeRequestsProofs ------------------------
(***************************************************************************)
(* Proofs about BridgeRequests for any number of requests, replacements of *)
(* the executable, failures and chunks.  GateInv says what an inspection   *)
(* knows at each of its stages; Sound what a relay's closure and what was  *)
(* written to its client say of each other.                                *)
(***************************************************************************)
EXTENDS BridgeRequests, TLAPS

-----------------------------------------------------------------------------
(* The compatibility gate.                                                 *)

(* Identities are those of executables that have been in place.            *)
Seen == /\ unfit \subseteq 0 .. binary
        /\ gate.observed \leq binary /\ gate.before \leq binary /\ gate.probed \leq binary

(* What the running inspection read was in place since it began, and the   *)
(* probed executable came no earlier than the first reading.               *)
Recently ==
    /\ Pending => binary \in recent
    /\ gate.stage \in {"probes", "after"} => gate.before \in recent
    /\ gate.stage = "after" => gate.before \leq gate.probed

(* An open gate stands on an executable that this release supports, and the *)
(* cheap check runs on an open gate only.                                   *)
Supported == /\ gate.status = "compatible" => gate.observed \notin unfit
             /\ gate.stage = "identity" => gate.status = "compatible"
             /\ Pending => ~Latched

GateInv == GateTypeOK /\ Seen /\ Recently /\ Supported

LEMMA GateStarts == GateInit => GateInv
  BY GateAssumption DEF GateInit, GateInv, GateTypeOK, Seen, Recently, Supported, Pending,
     Latched, Versions, Statuses, Stages

LEMMA ReplaceKeepsGate == GateInv /\ Replace => GateInv'
  BY GateAssumption DEF Replace, GateInv, GateTypeOK, Seen, Recently, Supported, Pending,
     Latched, Versions, Statuses, Stages

LEMMA InspectKeepsGate == GateInv /\ Inspect /\ Watch => GateInv'
<1> SUFFICES ASSUME GateInv, Inspect, Watch PROVE GateInv'
  OBVIOUS
<1> USE GateAssumption DEF GateInv, GateTypeOK, Seen, Recently, Supported, Pending, Latched,
        Versions, Statuses, Stages
<1>1. UNCHANGED <<binary, unfit, failures>>
  BY DEF Inspect
<1>2. CASE Latched \/ Pending
  BY <1>1, <1>2 DEF Inspect, Watch
<1>3. CASE ~(Latched \/ Pending) /\ gate.status = "compatible"
  <2>1. gate' = [gate EXCEPT !.stage = "identity"] /\ recent' = {binary}
    BY <1>3 DEF Inspect, Watch
  <2> QED BY <1>1, <1>3, <2>1
<1>4. CASE ~(Latched \/ Pending) /\ gate.status # "compatible"
  <2>1. gate' = [gate EXCEPT !.stage = "before", !.status = "checking"] /\ recent' = {binary}
    BY <1>4 DEF Inspect, Watch
  <2> QED BY <1>1, <1>4, <2>1
<1> QED BY <1>2, <1>3, <1>4

(* An inspection that concludes with an open gate has seen one executable   *)
(* throughout, and a supported one.                                         *)
LEMMA InspectionKeepsGate ==
  ASSUME GateInv, InspectionStep
  PROVE  /\ GateInv'
         /\ gate'.stage = "off" /\ gate'.status = "compatible"
              => gate'.observed \in recent' \ unfit'
         /\ UNCHANGED unfit
<1> USE GateAssumption DEF GateInv, GateTypeOK, Seen, Recently, Supported, Pending, Latched,
        Versions, Statuses, Stages, Conclude, Concluded, Verdict
<1>1. CASE ReadIdentity
  <2>1. UNCHANGED <<binary, unfit, failures, recent>> /\ gate.status = "compatible"
    BY <1>1 DEF ReadIdentity
  <2>2. CASE binary = gate.observed
    BY <1>1, <2>1, <2>2 DEF ReadIdentity
  <2>3. CASE binary # gate.observed
    BY <1>1, <2>1, <2>3 DEF ReadIdentity
  <2> QED BY <2>2, <2>3
<1>2. CASE ReadBefore
  <2>1. /\ UNCHANGED <<binary, unfit, failures, recent>> /\ gate.stage = "before"
        /\ gate' = [gate EXCEPT !.stage = "probes", !.before = binary]
    BY <1>2 DEF ReadBefore
  <2>2. /\ gate'.stage = "probes" /\ gate'.before = binary /\ gate'.status = gate.status
        /\ gate'.observed = gate.observed /\ gate'.probed = gate.probed
    BY <2>1
  <2>3. GateTypeOK'
    BY <2>1
  <2> QED BY <2>1, <2>2, <2>3
<1>3. CASE Probe
  <2>1. /\ UNCHANGED <<binary, unfit, failures, recent>> /\ gate.stage = "probes"
        /\ gate' = [gate EXCEPT !.stage = "after", !.probed = binary]
    BY <1>3 DEF Probe
  <2>2. /\ gate'.stage = "after" /\ gate'.probed = binary /\ gate'.status = gate.status
        /\ gate'.observed = gate.observed /\ gate'.before = gate.before
    BY <2>1
  <2>3. GateTypeOK'
    BY <2>1
  <2> QED BY <2>1, <2>2, <2>3
<1>4. CASE ReadAfter BY <1>4 DEF ReadAfter
<1>5. CASE CheckFails BY <1>5 DEF CheckFails
<1> QED BY <1>1, <1>2, <1>3, <1>4, <1>5 DEF InspectionStep

-----------------------------------------------------------------------------
(* One relay.                                                              *)

Closures ==
  [kind : Kinds, stage : {"off", "asked", "flowing", "settled"},
   mode : {"none", "plain", "whole", "frames", "error"},
   unread : 0 .. MaxUnread, sent : {"open", "complete", "cut"},
   paused : BOOLEAN, full : BOOLEAN, held : BOOLEAN, terminal : BOOLEAN,
   head : {"none", "ok", "error"}, tail : {"open", "clean", "failed", "reset"},
   total : BOOLEAN, echo : BOOLEAN, usage : {"none", "counted", "unavailable"}]

(* Nothing is concluded before the response settles; only an unchanged or a *)
(* filtered answer reaches the client before that.                          *)
Unsettled(s) ==
    /\ s.stage # "settled" => s.tail = "open" /\ s.usage = "none" /\ ~s.echo
    /\ s.stage \in {"off", "asked"} => s.head = "none"
    /\ s.stage = "flowing" =>
         /\ s.mode # "none"
         /\ s.head = "none" \/ (s.head = "ok" /\ s.mode \in {"plain", "frames"})

Outcome(s) ==
    /\ s.head = "ok" /\ s.tail = "clean" => s.sent = "complete"
    /\ s.usage = "counted" => s.head = "ok" /\ s.tail = "clean"

Uncut(s, here) ==
    s.stage = "settled" /\ here /\ s.tail = "reset" => s.mode = "plain" \/ s.terminal

Sound(s, here) ==
    s \in Closures /\ Unsettled(s) /\ Outcome(s) /\ Uncut(s, here) /\ (s.paused => s.full)

LEMMA OffSound ==
  ASSUME NEW here \in BOOLEAN, NEW kind \in Kinds
  PROVE  Sound([Off EXCEPT !.kind = kind], here) /\ Sound(Off, here) /\ Sound(Refused(here), here)
<1>1. Off \in Closures /\ [Off EXCEPT !.kind = kind] \in Closures /\ Refused(here) \in Closures
  <2>1. Off \in Closures
    BY RelayAssumption DEF Off, Closures, Kinds
  <2>2. [Off EXCEPT !.kind = kind] \in Closures
    BY <2>1 DEF Closures
  <2>3. Off.head = "none"
    BY DEF Off
  <2>4. Error(Off, here) \in Closures
    BY <2>1, <2>3 DEF Error, Closures
  <2>5. Refused(here) \in Closures
    BY <2>4 DEF Refused, Closures
  <2> QED BY <2>1, <2>2, <2>5
<1>2. Sound(Off, here)
  BY <1>1 DEF Sound, Unsettled, Outcome, Uncut, Off
<1>3. Sound([Off EXCEPT !.kind = kind], here)
  BY <1>1 DEF Sound, Unsettled, Outcome, Uncut, Off
<1>4. Sound(Refused(here), here)
  BY <1>1 DEF Sound, Unsettled, Outcome, Uncut, Off, Refused, Error
<1> QED BY <1>2, <1>3, <1>4

(* The end of a response leaves what was written as it is.                  *)
LEMMA Finishes ==
  ASSUME NEW s \in Closures, NEW success \in BOOLEAN
  PROVE  LET f == Finish(s, success) IN
         /\ f \in Closures
         /\ f.stage = "settled" /\ ~f.paused
         /\ f.head = s.head /\ f.tail = s.tail /\ f.mode = s.mode
         /\ f.sent = s.sent /\ f.terminal = s.terminal
         /\ f.usage \in {s.usage, IF success THEN "counted" ELSE "unavailable"}
<1>1. /\ Finish(s, success).stage = "settled" /\ ~Finish(s, success).paused
      /\ Finish(s, success).head = s.head /\ Finish(s, success).tail = s.tail
      /\ Finish(s, success).mode = s.mode /\ Finish(s, success).sent = s.sent
      /\ Finish(s, success).terminal = s.terminal
      /\ Finish(s, success).usage \in {s.usage, IF success THEN "counted" ELSE "unavailable"}
  BY DEF Finish, Closures
<1>2. Finish(s, success) \in Closures
  <2>1. PICK usage \in {s.usage, IF success THEN "counted" ELSE "unavailable"} :
          Finish(s, success) =
            [s EXCEPT !.stage = "settled", !.total = FALSE, !.paused = FALSE, !.full = FALSE,
                      !.unread = 0, !.held = FALSE, !.usage = usage]
    BY DEF Finish
  <2>2. usage \in {"none", "counted", "unavailable"} /\ 0 \in 0 .. MaxUnread
    BY RelayAssumption DEF Closures
  <2> QED BY <2>1, <2>2 DEF Closures
<1> QED BY <1>1, <1>2

LEMMA FailedSound ==
  ASSUME NEW here \in BOOLEAN, NEW s, Sound(s, here), s.stage # "off"
  PROVE  /\ Sound(Failed(s, here), here)
         /\ Failed(s, here).stage = "settled"
<1>1. CASE s.stage = "settled"
  BY <1>1 DEF Failed, Sound, Closures, Unsettled, Outcome, Uncut
<1>2. CASE s.stage # "settled"
  <2> DEFINE t == FailureTold(s, here)
             f == Finish(t, FALSE)
  <2>1. /\ t \in Closures /\ t.usage = "none"
        /\ t.head = "ok" => t.tail # "clean"
        /\ here /\ t.tail = "reset" => t.mode = "plain" \/ t.terminal
    BY <1>2 DEF FailureTold, Error, Sound, Closures, Unsettled
  <2>2. Failed(s, here) = [f EXCEPT !.echo = TRUE]
    BY <1>2 DEF Failed
  <2>3. /\ f \in Closures /\ f.stage = "settled" /\ ~f.paused
        /\ f.head = t.head /\ f.tail = t.tail /\ f.mode = t.mode
        /\ f.terminal = t.terminal /\ f.usage \in {t.usage, "unavailable"}
    BY <2>1, Finishes
  <2> HIDE DEF f, t
  <2>4. [f EXCEPT !.echo = TRUE] \in Closures
    BY <2>3 DEF Closures
  <2> QED BY <2>1, <2>2, <2>3, <2>4 DEF Sound, Unsettled, Outcome, Uncut, Closures
<1> QED BY <1>1, <1>2

LEMMA AnsweredSound ==
  ASSUME NEW here \in BOOLEAN, NEW s, Sound(s, here), s.stage = "asked",
         NEW mode \in ModesOf(s.kind)
  PROVE  Sound(Answered(s, mode, here), here)
BY RelayAssumption DEF Sound, Closures, Unsettled, Outcome, Uncut, Answered, ModesOf, Kinds

LEMMA EndedSound ==
  ASSUME NEW here \in BOOLEAN, NEW s, Sound(s, here), s.stage = "flowing", s.sent = "complete"
  PROVE  Sound(Ended(s, here), here)
<1>1. CASE here
  <2> DEFINE t == [s EXCEPT !.head = "ok", !.tail = "clean"]
             f == Finish(t, TRUE)
  <2>1. /\ t \in Closures /\ t.usage = "none" /\ t.sent = "complete"
        /\ t.head = "ok" /\ t.tail = "clean"
    BY DEF Sound, Closures, Unsettled
  <2>2. /\ f \in Closures /\ f.stage = "settled" /\ ~f.paused /\ f.sent = "complete"
        /\ f.head = "ok" /\ f.tail = "clean"
    BY <2>1, Finishes
  <2>3. Ended(s, here) = f
    BY <1>1 DEF Ended
  <2> HIDE DEF f, t
  <2> QED BY <2>2, <2>3 DEF Sound, Unsettled, Outcome, Uncut
<1>2. CASE ~here
  <2> DEFINE t == [s EXCEPT !.tail = "reset"]
             f == Finish(t, FALSE)
  <2>1. t \in Closures /\ t.usage = "none" /\ t.tail = "reset"
    BY DEF Sound, Closures, Unsettled
  <2>2. /\ f \in Closures /\ f.stage = "settled" /\ ~f.paused /\ f.tail = "reset"
        /\ f.usage \in {"none", "unavailable"}
    BY <2>1, Finishes
  <2>3. Ended(s, here) = f
    BY <1>2 DEF Ended
  <2> HIDE DEF f, t
  <2> QED BY <1>2, <2>2, <2>3 DEF Sound, Unsettled, Outcome, Uncut
<1> QED BY <1>1, <1>2

LEMMA WrittenSound ==
  ASSUME NEW here \in BOOLEAN, NEW s, Sound(s, here), s.stage = "flowing",
         s.mode \in {"plain", "frames"}, NEW t \in Written(s, here)
  PROVE  Sound(t, here) /\ t.stage = "flowing"
<1>1. CASE ~here BY <1>1 DEF Written
<1>2. CASE here
  <2>1. PICK full \in {s.full, TRUE} :
          t = [s EXCEPT !.head = "ok", !.full = full, !.paused = @ \/ full]
    BY <1>2 DEF Written
  <2>2. full \in BOOLEAN /\ (s.paused => full)
    BY DEF Sound, Closures
  <2>3. t \in Closures
    BY <2>1, <2>2 DEF Sound, Closures
  <2>4. /\ t.stage = "flowing" /\ t.mode = s.mode /\ t.head = "ok" /\ t.full = full
        /\ t.paused = (s.paused \/ full) /\ t.tail = s.tail /\ t.usage = s.usage
        /\ t.echo = s.echo
    BY <2>1 DEF Sound, Closures
  <2> QED BY <2>2, <2>3, <2>4 DEF Sound, Unsettled, Outcome, Uncut
<1> QED BY <1>1, <1>2

LEMMA TakenSound ==
  ASSUME NEW here \in BOOLEAN, NEW s, Sound(s, here), s.stage = "flowing",
         NEW t \in Taken(s, here)
  PROVE  Sound(t, here) /\ t.stage = "flowing"
<1>1. CASE s.mode = "plain" BY <1>1, WrittenSound DEF Taken
<1>2. CASE s.mode \in {"whole", "error"}
  <2>1. t = [s EXCEPT !.held = TRUE]
    BY <1>2 DEF Taken
  <2> QED BY <1>2, <2>1 DEF Sound, Closures, Unsettled, Outcome, Uncut
<1>3. CASE s.mode = "frames"
  <2>1. CASE t = [s EXCEPT !.held = TRUE]
    BY <2>1 DEF Sound, Closures, Unsettled, Outcome, Uncut
  <2>2. CASE \E terminal \in BOOLEAN : t \in Written([s EXCEPT !.terminal = @ \/ terminal], here)
    <3>1. PICK terminal \in BOOLEAN : t \in Written([s EXCEPT !.terminal = @ \/ terminal], here)
      BY <2>2
    <3>2. Sound([s EXCEPT !.terminal = @ \/ terminal], here)
      BY DEF Sound, Closures, Unsettled, Outcome, Uncut
    <3>3. /\ [s EXCEPT !.terminal = @ \/ terminal].stage = "flowing"
          /\ [s EXCEPT !.terminal = @ \/ terminal].mode = "frames"
      BY <1>3 DEF Sound, Closures
    <3> QED BY <3>1, <3>2, <3>3, WrittenSound
  <2> QED BY <1>3, <2>1, <2>2 DEF Taken
<1>4. s.mode \in {"plain", "whole", "frames", "error"} BY DEF Sound, Closures, Unsettled
<1> QED BY <1>1, <1>2, <1>3, <1>4

-----------------------------------------------------------------------------
(* The steps of a relay.                                                   *)

RelaysSound == \A r \in Requests : Sound(relay[r], Here(r))

RelayInv == RelayTypeOK /\ RelaysSound

(* A relay step leaves every other relay alone, keeps its own sound, and    *)
(* once settled changes neither what was written nor what was reported.     *)
Steady(r) ==
    /\ RelayInv'
    /\ \A q \in Requests \ {r} : relay'[q] = relay[q] /\ client'[q] = client[q]
    /\ Settled(r) => /\ relay'[r].head = relay[r].head /\ relay'[r].tail = relay[r].tail
                     /\ relay'[r].usage = relay[r].usage
    /\ relay[r].stage = "off" => relay'[r].stage = "off"

LEMMA SetSteady ==
  ASSUME RelayInv, NEW r \in Requests, NEW s, Set(r, s), Sound(s, Here(r)),
         Settled(r) => /\ s.head = relay[r].head /\ s.tail = relay[r].tail
                       /\ s.usage = relay[r].usage,
         relay[r].stage = "off" => s.stage = "off"
  PROVE  Steady(r)
<1>1. relay' = [relay EXCEPT ![r] = s] /\ client' = client
  BY DEF Set
<1>2. s \in Closures
  BY DEF Sound
<1>3. RelayTypeOK'
  BY <1>1, <1>2 DEF RelayInv, RelayTypeOK, Closures
<1>4. relay'[r] = s /\ \A q \in Requests \ {r} : relay'[q] = relay[q]
  BY <1>1 DEF RelayInv, RelayTypeOK
<1>5. RelaysSound'
  BY <1>1, <1>4 DEF RelayInv, RelaysSound, Here
<1> QED BY <1>1, <1>3, <1>4, <1>5 DEF Steady, RelayInv

LEMMA FailSteady ==
  ASSUME RelayInv, NEW r \in Requests, Fail(r), relay[r].stage # "off"
  PROVE  Steady(r)
<1>1. Sound(relay[r], Here(r)) /\ Here(r) \in BOOLEAN
  BY DEF RelayInv, RelaysSound, Here
<1>2. Sound(Failed(relay[r], Here(r)), Here(r)) /\ Failed(relay[r], Here(r)).stage = "settled"
  BY <1>1, FailedSound
<1>3. Settled(r) => Failed(relay[r], Here(r)) = [relay[r] EXCEPT !.echo = FALSE]
  BY DEF Failed, Settled
<1>4. Settled(r) => /\ Failed(relay[r], Here(r)).head = relay[r].head
                    /\ Failed(relay[r], Here(r)).tail = relay[r].tail
                    /\ Failed(relay[r], Here(r)).usage = relay[r].usage
  BY <1>1, <1>3 DEF Sound, Closures
<1> QED BY <1>2, <1>4, SetSteady DEF Fail

LEMMA RelaySteady ==
  ASSUME RelayInv, NEW r \in Requests, RelayStep(r)
  PROVE  Steady(r)
<1>1. Sound(relay[r], Here(r)) /\ Here(r) \in BOOLEAN /\ relay[r] \in Closures
  BY DEF RelayInv, RelaysSound, Here, Sound
<1>2. CASE Answer(r)
  <2>1. CASE \E mode \in ModesOf(relay[r].kind) : Set(r, Answered(relay[r], mode, Here(r)))
    <3>1. PICK mode \in ModesOf(relay[r].kind) : Set(r, Answered(relay[r], mode, Here(r)))
      BY <2>1
    <3>2. relay[r].stage = "asked"
      BY <1>2 DEF Answer, Asked
    <3>3. Sound(Answered(relay[r], mode, Here(r)), Here(r))
      BY <1>1, <3>2, AnsweredSound
    <3>4. Answered(relay[r], mode, Here(r)).stage = "flowing"
      BY <1>1 DEF Answered, Closures
    <3> QED BY <3>1, <3>2, <3>3, <3>4, SetSteady DEF Settled
  <2>2. CASE Fail(r)
    BY <1>2, <2>2, FailSteady DEF Answer, Asked
  <2> QED BY <1>2, <2>1, <2>2 DEF Answer
<1>3. CASE Send(r)
  <2> DEFINE t == [relay[r] EXCEPT !.unread = @ + 1]
  <2>1. relay[r].stage = "flowing" /\ relay[r].unread < MaxUnread /\ Set(r, t)
    BY <1>3 DEF Send, Flowing
  <2>2. t \in Closures
    BY <1>1, <2>1, RelayAssumption DEF Closures
  <2>3. Sound(t, Here(r)) /\ t.stage = "flowing"
    BY <1>1, <2>1, <2>2 DEF Sound, Unsettled, Outcome, Uncut, Closures
  <2> QED BY <2>1, <2>3, SetSteady DEF Settled
<1>4. CASE Complete(r)
  <2>1. PICK sent \in {"complete", "cut"} :
          /\ Set(r, [relay[r] EXCEPT !.sent = sent])
          /\ relay[r].stage = "flowing" /\ relay[r].sent = "open"
    BY <1>4 DEF Complete, Flowing
  <2> DEFINE t == [relay[r] EXCEPT !.sent = sent]
  <2>2. t \in Closures
    BY <1>1 DEF Closures
  <2>3. Sound(t, Here(r)) /\ t.stage = "flowing"
    BY <1>1, <2>1, <2>2 DEF Sound, Unsettled, Outcome, Uncut, Closures
  <2> QED BY <2>1, <2>3, SetSteady DEF Settled
<1>5. CASE Read(r)
  <2>1. relay[r].stage = "flowing" /\ relay[r].unread > 0
    BY <1>5 DEF Read, Flowing
  <2>2. CASE \E s \in Taken([relay[r] EXCEPT !.unread = @ - 1], Here(r)) : Set(r, s)
    <3> DEFINE t == [relay[r] EXCEPT !.unread = @ - 1]
    <3>1. PICK s \in Taken(t, Here(r)) : Set(r, s)
      BY <2>2
    <3>2. t \in Closures
      BY <1>1, <2>1, RelayAssumption DEF Closures
    <3>3. Sound(t, Here(r)) /\ t.stage = "flowing"
      BY <1>1, <2>1, <3>2 DEF Sound, Unsettled, Outcome, Uncut, Closures
    <3>4. Sound(s, Here(r)) /\ s.stage = "flowing"
      BY <1>1, <3>1, <3>3, TakenSound
    <3> QED BY <2>1, <3>1, <3>4, SetSteady DEF Settled
  <2>3. CASE Fail(r)
    BY <2>1, <2>3, FailSteady
  <2> QED BY <1>5, <2>2, <2>3 DEF Read
<1>6. CASE Drain(r)
  <2> DEFINE t == Drained(relay[r])
  <2>1. relay[r].stage = "flowing" /\ Set(r, t)
    BY <1>6 DEF Drain, Flowing
  <2>2. t \in Closures /\ ~t.paused
    BY <1>1 DEF Closures, Drained
  <2>3. Sound(t, Here(r)) /\ t.stage = "flowing"
    BY <1>1, <2>1, <2>2 DEF Sound, Unsettled, Outcome, Uncut, Closures, Drained
  <2> QED BY <2>1, <2>3, SetSteady DEF Settled
<1>7. CASE End(r)
  <2>1. relay[r].stage = "flowing" /\ relay[r].sent = "complete"
    BY <1>7 DEF End, Flowing
  <2>2. CASE Set(r, Ended(relay[r], Here(r)))
    <3>1. Sound(Ended(relay[r], Here(r)), Here(r))
      BY <1>1, <2>1, EndedSound
    <3>2. Ended(relay[r], Here(r)).stage = "settled"
      BY <1>1 DEF Ended, Finish, Closures
    <3> QED BY <2>1, <2>2, <3>1, <3>2, SetSteady DEF Settled
  <2>3. CASE Fail(r)
    BY <2>1, <2>3, FailSteady
  <2> QED BY <1>7, <2>2, <2>3 DEF End
<1>8. CASE Broken(r)
  <2>1. relay[r].stage # "off"
    BY <1>1, <1>8 DEF Broken, Asked, Flowing, Sound, Unsettled
  <2> QED BY <1>8, <2>1, FailSteady DEF Broken
<1>9. CASE HeadersTimeout(r) \/ IdleTimeout(r) \/ TotalTimeout(r)
  BY <1>9, FailSteady DEF HeadersTimeout, IdleTimeout, TotalTimeout, Active, Asked, Flowing
<1>10. CASE Leave(r)
  <2>1. /\ client' = [client EXCEPT ![r] = "leaving"] /\ relay' = relay
        /\ \A q \in Requests \ {r} : client'[q] = client[q]
        /\ client'[r] = "leaving"
    BY <1>10 DEF Leave, RelayInv, RelayTypeOK
  <2>2. RelayTypeOK'
    BY <2>1 DEF RelayInv, RelayTypeOK
  <2>3. Sound(relay[r], FALSE)
    BY <1>1 DEF Sound, Uncut
  <2>4. RelaysSound'
    BY <2>1, <2>3 DEF RelayInv, RelaysSound, Here
  <2> QED BY <2>1, <2>2, <2>4 DEF Steady, RelayInv
<1>11. CASE Closed(r)
  <2> DEFINE t == [relay[r] EXCEPT !.tail = "reset"]
             f == Finish(t, FALSE)
             g == [f EXCEPT !.echo = TRUE]
  <2>1. relay' = [relay EXCEPT ![r] = g] /\ client' = [client EXCEPT ![r] = "gone"]
        /\ relay[r].stage \in {"asked", "flowing"}
    BY <1>11 DEF Closed, Active, Asked, Flowing
  <2>2. t \in Closures /\ t.usage = "none" /\ t.tail = "reset"
    BY <1>1, <2>1 DEF Closures, Sound, Unsettled
  <2>3. /\ f \in Closures /\ f.stage = "settled" /\ ~f.paused /\ f.tail = "reset"
        /\ f.usage \in {"none", "unavailable"}
    BY <2>2, Finishes
  <2> HIDE DEF f, t
  <2>4. g \in Closures /\ g.stage = "settled"
    BY <2>3 DEF Closures
  <2>5. Sound(g, FALSE)
    BY <2>3, <2>4 DEF Sound, Unsettled, Outcome, Uncut, Closures
  <2> HIDE DEF g
  <2>6. /\ relay'[r] = g /\ client'[r] = "gone"
        /\ \A q \in Requests \ {r} : relay'[q] = relay[q] /\ client'[q] = client[q]
    BY <2>1 DEF RelayInv, RelayTypeOK
  <2>7. RelayTypeOK'
    BY <2>1, <2>4 DEF RelayInv, RelayTypeOK, Closures
  <2>8. RelaysSound'
    BY <2>5, <2>6 DEF RelayInv, RelaysSound, Here
  <2> QED BY <2>1, <2>4, <2>6, <2>7, <2>8 DEF Steady, RelayInv, Settled
<1> QED BY <1>2, <1>3, <1>4, <1>5, <1>6, <1>7, <1>8, <1>9, <1>10, <1>11 DEF RelayStep
-----------------------------------------------------------------------------
(* The requests.                                                           *)

(* A request is not asked of an upstream before its handler relays it.      *)
NotYet == \A r \in Requests : pc[r] # "relay" => relay[r].stage = "off"

RequestInv == TypeOK /\ GateInv /\ RelaysSound /\ NotYet

Admits ==
    \A r \in Requests : pc[r] # "body" /\ pc'[r] = "body"
      => gate'.observed \in recent' \ unfit /\ ~Latched'

Settles ==
    \A r \in Requests : Settled(r) /\ Settled(r)' =>
      /\ relay'[r].head = relay[r].head /\ relay'[r].tail = relay[r].tail
      /\ relay'[r].usage = relay[r].usage

LEMMA RequestsStart == Init => RequestInv
<1> SUFFICES ASSUME Init PROVE RequestInv
  OBVIOUS
<1>1. GateInv
  BY GateStarts DEF Init
<1>2. relay = [r \in Requests |-> Off] /\ client = [r \in Requests |-> "here"]
      /\ pc = [r \in Requests |-> "idle"]
  BY DEF Init, RelayInit
<1>3. Off \in Closures /\ \A here \in BOOLEAN : Sound(Off, here)
  BY OffSound DEF Sound, Kinds
<1>4. RelayTypeOK
  BY <1>2, <1>3 DEF RelayTypeOK, Closures
<1>5. RelaysSound
  BY <1>2, <1>3 DEF RelaysSound, Here
<1>6. NotYet
  BY <1>2 DEF NotYet, Off
<1> QED BY <1>1, <1>2, <1>4, <1>5, <1>6 DEF RequestInv, TypeOK, GateInv, Places

(* Those who wait are admitted or refused together.                         *)
LEMMA Decides ==
  ASSUME RequestInv, NEW waiting \in SUBSET Requests, Decide(waiting), UNCHANGED client,
         \A r \in waiting : relay[r].stage = "off"
  PROVE  /\ RelayInv' /\ NotYet' /\ pc' \in [Requests -> Places]
         /\ \A r \in Requests : pc[r] # "body" /\ pc'[r] = "body"
               => gate'.stage = "off" /\ gate'.status = "compatible"
         /\ Settles
<1>1. CASE gate'.stage # "off"
  <2>1. relay' = relay /\ client' = client
        /\ pc' = [r \in Requests |-> IF r \in waiting THEN "gate" ELSE pc[r]]
    BY <1>1 DEF Decide
  <2>2. RelayInv'
    BY <2>1 DEF RequestInv, TypeOK, RelayInv, RelayTypeOK, RelaysSound, Here
  <2> QED BY <2>1, <2>2 DEF RequestInv, TypeOK, NotYet, Places, Settles
<1>2. CASE gate'.stage = "off"
  <2>1. /\ client' = client
        /\ pc' = [r \in Requests |-> IF r \notin waiting THEN pc[r]
                   ELSE IF gate'.status = "compatible" THEN "body" ELSE "relay"]
        /\ relay' = [r \in Requests |-> IF r \in waiting /\ gate'.status # "compatible"
                                       THEN Refused(Here(r)) ELSE relay[r]]
    BY <1>2 DEF Decide
  <2>2. \A r \in Requests : Sound(Refused(Here(r)), Here(r)) /\ Sound(relay[r], Here(r))
    BY OffSound DEF Here, RequestInv, RelaysSound, Kinds
  <2>3. \A r \in Requests : Sound(relay'[r], Here(r)')
    BY <2>1, <2>2 DEF Here
  <2>4. RelayTypeOK'
    BY <2>1, <2>3 DEF RequestInv, TypeOK, RelayTypeOK, Sound, Closures
  <2>5. RelayInv'
    BY <2>3, <2>4 DEF RelayInv, RelaysSound
  <2>6. NotYet' /\ pc' \in [Requests -> Places]
    BY <2>1 DEF RequestInv, TypeOK, NotYet, Places
  <2>7. Settles
    BY <2>1 DEF Settles, Settled
  <2> QED BY <1>2, <2>1, <2>5, <2>6, <2>7
<1> QED BY <1>1, <1>2

(* The handler of one request goes on, or refuses it.                       *)
LEMMA HandlerSteps ==
  ASSUME RequestInv, NEW r \in Requests, NEW s, NEW place \in Places \ {"body"},
         relay[r].stage = "off", Set(r, s), Sound(s, Here(r)),
         pc' = [pc EXCEPT ![r] = place], place # "relay" => s.stage = "off",
         UNCHANGED gateVars
  PROVE  RequestInv' /\ Admits /\ Settles
<1>1. RelayInv
  BY DEF RequestInv, TypeOK, RelayInv
<1>2. relay' = [relay EXCEPT ![r] = s] /\ client' = client
  BY DEF Set
<1>3. relay'[r] = s /\ \A q \in Requests \ {r} : relay'[q] = relay[q]
  BY <1>1, <1>2 DEF RelayInv, RelayTypeOK
<1>4. RelayTypeOK'
  BY <1>1, <1>2 DEF RelayInv, RelayTypeOK, Sound, Closures
<1>5. RelaysSound'
  BY <1>1, <1>2, <1>3 DEF RelayInv, RelaysSound, Here
<1>6. GateInv'
  BY DEF RequestInv, GateInv, GateTypeOK, Seen, Recently, Supported, Pending, Latched, gateVars
<1>7. pc' \in [Requests -> Places] /\ NotYet'
  BY <1>3 DEF RequestInv, TypeOK, NotYet
<1>8. Admits /\ Settles
  BY <1>3 DEF Admits, Settles, Settled, RequestInv, TypeOK
<1> QED BY <1>4, <1>5, <1>6, <1>7, <1>8 DEF RequestInv, TypeOK, GateInv

LEMMA RefuseSteps ==
  ASSUME RequestInv, NEW r \in Requests, relay[r].stage = "off", Refuse(r), UNCHANGED gateVars
  PROVE  RequestInv' /\ Admits /\ Settles
<1>1. Sound(Refused(Here(r)), Here(r))
  BY OffSound DEF Here, Kinds
<1> QED BY <1>1, HandlerSteps DEF Refuse, Places

LEMMA AskSteps ==
  ASSUME RequestInv, NEW r \in Requests, relay[r].stage = "off", NEW kind \in Kinds,
         Ask(r, kind), UNCHANGED gateVars
  PROVE  RequestInv' /\ Admits /\ Settles
<1> DEFINE s == IF Here(r) THEN [Off EXCEPT !.kind = kind, !.stage = "asked", !.total = TRUE]
                ELSE [Off EXCEPT !.stage = "settled", !.tail = "reset"]
<1>1. Off \in Closures
  BY OffSound DEF Sound, Kinds
<1>2. s \in Closures
  BY <1>1 DEF Closures
<1>3. Sound(s, Here(r))
  BY <1>2 DEF Sound, Unsettled, Outcome, Uncut, Off
<1>4. Set(r, s) /\ pc' = [pc EXCEPT ![r] = "relay"]
  BY DEF Ask, Start
<1> HIDE DEF s
<1> QED BY <1>3, <1>4, HandlerSteps DEF Places

LEMMA RememberSteps ==
  ASSUME RequestInv, NEW r \in Requests, relay[r].stage = "off", NEW kind \in Kinds,
         Remember(r, kind, "certification"), UNCHANGED gateVars
  PROVE  RequestInv' /\ Admits /\ Settles
<1>1. Sound([Off EXCEPT !.kind = kind], Here(r))
  BY OffSound DEF Here
<1>2. [Off EXCEPT !.kind = kind].stage = "off"
  BY DEF Off
<1> QED BY <1>1, <1>2, HandlerSteps DEF Remember, Places

(* Every step keeps the invariant, admits on a fresh look only and leaves   *)
(* what is settled alone.                                                   *)
LEMMA StepKeeps ==
  ASSUME RequestInv, Next
  PROVE  RequestInv' /\ Admits /\ Settles
<1>1. CASE Tick
  <2>1. GateInv' /\ UNCHANGED <<relay, client, pc>>
    BY <1>1, InspectKeepsGate DEF Tick, RequestInv, relayVars
  <2> QED BY <2>1 DEF RequestInv, TypeOK, RelayTypeOK, GateInv, RelaysSound, Here, NotYet,
             Admits, Settles
<1>2. CASE Inspection
  <2>1. /\ GateInv' /\ UNCHANGED unfit
        /\ gate'.stage = "off" /\ gate'.status = "compatible"
              => gate'.observed \in recent' \ unfit'
    BY <1>2, InspectionKeepsGate DEF Inspection, RequestInv
  <2>2. \A r \in Waiting : relay[r].stage = "off"
    BY DEF Waiting, RequestInv, NotYet
  <2>3. Waiting \in SUBSET Requests
    BY DEF Waiting
  <2>4. Decide(Waiting) /\ UNCHANGED client
    BY <1>2 DEF Inspection
  <2>5. /\ RelayInv' /\ NotYet' /\ pc' \in [Requests -> Places] /\ Settles
        /\ \A r \in Requests : pc[r] # "body" /\ pc'[r] = "body"
               => gate'.stage = "off" /\ gate'.status = "compatible"
    BY <2>2, <2>3, <2>4, Decides
  <2>6. Admits
    BY <2>1, <2>5 DEF Admits, Latched
  <2> QED BY <2>1, <2>5, <2>6 DEF RequestInv, TypeOK, GateInv, RelayInv
<1>3. CASE Update
  <2>1. GateInv' /\ UNCHANGED <<relay, client, pc>>
    BY <1>3, ReplaceKeepsGate DEF Update, RequestInv, relayVars
  <2> QED BY <2>1 DEF RequestInv, TypeOK, RelayTypeOK, GateInv, RelaysSound, Here, NotYet,
             Admits, Settles
<1>4. ASSUME NEW r \in Requests, Arrive(r)
      PROVE  RequestInv' /\ Admits /\ Settles
  <2>1. GateInv'
    BY <1>4, InspectKeepsGate DEF Arrive, RequestInv
  <2>2. \A q \in Waiting \cup {r} : relay[q].stage = "off"
    BY <1>4 DEF Waiting, RequestInv, NotYet, Arrive
  <2>3. (Waiting \cup {r}) \in SUBSET Requests
    BY DEF Waiting
  <2>4. Decide(Waiting \cup {r}) /\ UNCHANGED client
    BY <1>4 DEF Arrive
  <2>5. /\ RelayInv' /\ NotYet' /\ pc' \in [Requests -> Places] /\ Settles
        /\ \A q \in Requests : pc[q] # "body" /\ pc'[q] = "body"
               => gate'.stage = "off" /\ gate'.status = "compatible"
    BY <2>2, <2>3, <2>4, Decides
  <2>6. ~(gate'.stage = "off" /\ gate'.status = "compatible")
    BY <1>4 DEF Arrive, Inspect, Latched, Pending, RequestInv, TypeOK, GateTypeOK, Statuses,
       Stages
  <2>7. Admits
    BY <2>5, <2>6 DEF Admits
  <2> QED BY <2>1, <2>5, <2>7 DEF RequestInv, TypeOK, GateInv, RelayInv
<1>5. ASSUME NEW r \in Requests, Reuse(r)
      PROVE  RequestInv' /\ Admits /\ Settles
  <2>1. /\ pc' = [pc EXCEPT ![r] = "idle"] /\ UNCHANGED gateVars
        /\ relay' = [relay EXCEPT ![r] = Off] /\ client' = [client EXCEPT ![r] = "here"]
    BY <1>5 DEF Reuse
  <2>2. Off \in Closures /\ Sound(Off, TRUE) /\ Off.stage = "off"
    BY OffSound DEF Sound, Kinds, Off
  <2>3. /\ relay'[r] = Off /\ client'[r] = "here" /\ pc'[r] = "idle"
        /\ \A q \in Requests \ {r} :
             relay'[q] = relay[q] /\ client'[q] = client[q] /\ pc'[q] = pc[q]
    BY <2>1 DEF RequestInv, TypeOK, RelayTypeOK
  <2>4. RelayTypeOK'
    BY <2>1, <2>2 DEF RequestInv, TypeOK, RelayTypeOK, Closures
  <2>5. RelaysSound'
    BY <2>2, <2>3 DEF RequestInv, RelaysSound, Here
  <2>6. NotYet' /\ pc' \in [Requests -> Places]
    BY <2>1, <2>2, <2>3 DEF RequestInv, NotYet, TypeOK, Places
  <2>7. Admits /\ Settles
    BY <2>2, <2>3 DEF Admits, Settles, Settled
  <2>8. GateInv'
    BY <2>1 DEF RequestInv, GateInv, GateTypeOK, Seen, Recently, Supported, Pending, Latched,
       gateVars
  <2> QED BY <2>4, <2>5, <2>6, <2>7, <2>8 DEF RequestInv, TypeOK, GateInv
<1>6. ASSUME NEW r \in Requests, Body(r)
      PROVE  RequestInv' /\ Admits /\ Settles
  <2>1. relay[r].stage = "off" /\ UNCHANGED gateVars
    BY <1>6 DEF Body, RequestInv, NotYet
  <2>2. "native" \in Kinds
    BY DEF Kinds
  <2> QED BY <1>6, <2>1, <2>2, RefuseSteps, AskSteps, RememberSteps DEF Body
<1>7. ASSUME NEW r \in Requests, Certification(r)
      PROVE  RequestInv' /\ Admits /\ Settles
  <2>1. relay[r].stage = "off" /\ UNCHANGED gateVars /\ relay[r].kind \in Kinds
    BY <1>7 DEF Certification, RequestInv, NotYet, TypeOK, RelayTypeOK
  <2>2. CASE Await(r, "credential")
    <3>1. UNCHANGED <<relay, client>> /\ pc' = [pc EXCEPT ![r] = "credential"]
      BY <2>2 DEF Await, relayVars
    <3>2. GateInv'
      BY <2>1 DEF RequestInv, GateInv, GateTypeOK, Seen, Recently, Supported, Pending, Latched,
         gateVars
    <3> QED BY <2>1, <3>1, <3>2 DEF RequestInv, TypeOK, RelayTypeOK, GateInv, RelaysSound, Here,
               NotYet, Places, Admits, Settles
  <2> QED BY <1>7, <2>1, <2>2, RefuseSteps, AskSteps DEF Certification
<1>8. ASSUME NEW r \in Requests, Credential(r)
      PROVE  RequestInv' /\ Admits /\ Settles
  <2>1. relay[r].stage = "off" /\ UNCHANGED gateVars /\ relay[r].kind \in Kinds
    BY <1>8 DEF Credential, RequestInv, NotYet, TypeOK, RelayTypeOK
  <2> QED BY <1>8, <2>1, RefuseSteps, AskSteps DEF Credential
<1>9. ASSUME NEW r \in Requests, Relay(r)
      PROVE  RequestInv' /\ Admits /\ Settles
  <2>1. RelayStep(r) /\ UNCHANGED <<gateVars, pc>>
    BY <1>9 DEF Relay
  <2>2. Steady(r)
    BY <2>1, RelaySteady DEF RequestInv, TypeOK, RelayInv
  <2>3. GateInv' /\ pc' = pc
    BY <2>1 DEF RequestInv, GateInv, GateTypeOK, Seen, Recently, Supported, Pending, Latched,
       gateVars
  <2>4. NotYet'
    BY <2>2, <2>3 DEF Steady, RequestInv, NotYet
  <2>5. Admits /\ Settles
    BY <2>2, <2>3 DEF Steady, Admits, Settles, Settled
  <2> QED BY <2>2, <2>3, <2>4, <2>5 DEF RequestInv, TypeOK, GateInv, Steady, RelayInv
<1> QED BY <1>1, <1>2, <1>3, <1>4, <1>5, <1>6, <1>7, <1>8, <1>9 DEF Next, Request

LEMMA StutterKeeps == RequestInv /\ UNCHANGED vars => RequestInv'
BY DEF vars, gateVars, relayVars, RequestInv, TypeOK, RelayTypeOK, GateInv, GateTypeOK, Seen,
   Recently, Supported, Pending, Latched, RelaysSound, Here, NotYet

-----------------------------------------------------------------------------
(* The inductive invariant: an inspection knows what it has seen, a relay's *)
(* closure agrees with what its client was told, and nothing is asked of an *)
(* upstream before its handler relays (inspect, relayUpstream).             *)
THEOREM RequestsHold == Spec => []RequestInv
<1>1. RequestInv /\ [Next]_vars => RequestInv'
  BY StepKeeps, StutterKeeps
<1> QED BY RequestsStart, <1>1, PTL DEF Spec

(* The state of the gate, the relays and the handlers stays well typed.     *)
THEOREM RequestsTyped == Spec => []TypeOK
<1>1. RequestInv => TypeOK
  BY DEF RequestInv
<1> QED BY RequestsHold, <1>1, PTL

(* However many requests share an inspection and whenever Codex is replaced, *)
(* a request is admitted on a look at the executable that was in place       *)
(* (runtime-compatibility.mjs, inspect).                                     *)
THEOREM RequestsAdmittedFresh == Spec => AdmittedOnFreshLook
<1>1. RequestInv /\ [Next]_vars
        => [\A r \in Requests : pc[r] # "body" /\ pc'[r] = "body"
              => gate'.observed \in recent' \ unfit /\ ~Latched']_vars
  BY StepKeeps DEF Admits
<1> QED BY RequestsHold, <1>1, PTL DEF Spec, AdmittedOnFreshLook

(* For any number of requests and chunks, timers, late errors and the        *)
(* client's close change nothing about a response that has settled           *)
(* (responses-proxy.mjs, fail and finish).                                   *)
THEOREM ResponsesSettleOnce == Spec => SettledOnce
<1>1. RequestInv /\ [Next]_vars
        => [\A r \in Requests : Settled(r) /\ Settled(r)' =>
              /\ relay'[r].head = relay[r].head /\ relay'[r].tail = relay[r].tail
              /\ relay'[r].usage = relay[r].usage]_vars
  BY StepKeeps DEF Settles
<1> QED BY RequestsHold, <1>1, PTL DEF Spec, SettledOnce

(* A client that stayed is never cut off without an outcome, unless the       *)
(* answer is passed on unchanged or had told it already (fail).               *)
THEOREM ClientsNeverCut == Spec => []NeverCut
<1>1. RequestInv => NeverCut
  BY DEF RequestInv, RelaysSound, Sound, Uncut, NeverCut, Settled
<1> QED BY RequestsHold, <1>1, PTL

(* A clean success was read to the upstream's own end, and only such a one    *)
(* is measured (finish, tokenUsageObserver).                                  *)
THEOREM OutcomesTruthful == Spec => []OutcomeTruthful
<1>1. RequestInv => OutcomeTruthful
  BY DEF RequestInv, RelaysSound, Sound, Outcome, OutcomeTruthful
<1> QED BY RequestsHold, <1>1, PTL

(* Back-pressure pauses the upstream only while a drain is owed (writeChunk). *)
THEOREM PausesAreOwed == Spec => []PausedOnlyWhileFull
<1>1. RequestInv => PausedOnlyWhileFull
  BY DEF RequestInv, RelaysSound, Sound, PausedOnlyWhileFull
<1> QED BY RequestsHold, <1>1, PTL
=============================================================================
