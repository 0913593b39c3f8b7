---- MODULE ResponsesRelay ----
(***************************************************************************)
(* How the bridge relays upstream responses to its clients (relayUpstream  *)
(* of responses-proxy.mjs): upstream events, three timers, the client and  *)
(* back-pressure race to settle each response.  relay[r] is the closure of *)
(* the call made for request r, with what was written to the client.       *)
(*                                                                         *)
(* A response is passed on as it comes (plain), collected and validated    *)
(* whole, rewritten frame by frame, or read only to classify a local       *)
(* failure (error).  Which frames are released is FunctionStream's.        *)
(***************************************************************************)
EXTENDS Naturals

CONSTANTS Requests,
          MaxUnread    \* chunks the upstream is ahead of the reader

ASSUME RelayAssumption == MaxUnread \in Nat \ {0}

VARIABLES relay, client

relayVars == <<relay, client>>

\* side: native searches for an external model, voice calls and reviews;
\* probe: certification traffic.  A compaction is an external request.
Kinds == {"native", "side", "external", "probe", "mlx"}
ModesOf(kind) ==
  CASE kind = "native" -> {"plain"}
    [] kind = "side" -> {"whole"}
    [] kind \in {"external", "probe"} -> {"plain", "whole", "frames"}
    [] kind = "mlx" -> {"whole", "frames", "error"}
Metered(kind) == kind \in {"external", "mlx"}

Off == [kind |-> "native", stage |-> "off", mode |-> "none",
        unread |-> 0, sent |-> "open", paused |-> FALSE, full |-> FALSE,
        held |-> FALSE, terminal |-> FALSE, head |-> "none", tail |-> "open",
        total |-> FALSE, echo |-> FALSE, usage |-> "none"]

RelayInit == relay = [r \in Requests |-> Off] /\ client = [r \in Requests |-> "here"]

RelayTypeOK ==
  /\ client \in [Requests -> {"here", "leaving", "gone"}]
  /\ relay \in [Requests ->
       [kind : Kinds, stage : {"off", "asked", "flowing", "settled"},
        mode : {"none", "plain", "whole", "frames", "error"},
        unread : 0 .. MaxUnread, sent : {"open", "complete", "cut"},
        paused : BOOLEAN, full : BOOLEAN, held : BOOLEAN, terminal : BOOLEAN,
        head : {"none", "ok", "error"}, tail : {"open", "clean", "failed", "reset"},
        total : BOOLEAN, echo : BOOLEAN, usage : {"none", "counted", "unavailable"}]]

Here(r) == client[r] = "here"
Asked(r) == relay[r].stage = "asked"
Flowing(r) == relay[r].stage = "flowing"
Active(r) == Asked(r) \/ Flowing(r)
Set(r, state) == relay' = [relay EXCEPT ![r] = state] /\ UNCHANGED client

(***************************************************************************)
(* Settling                                                                *)
(***************************************************************************)
\* finish(): the timers are cleared and the usage is reported.
Finish(s, success) ==
  [s EXCEPT !.stage = "settled", !.total = FALSE, !.paused = FALSE, !.full = FALSE,
            !.unread = 0, !.held = FALSE,
            !.usage = IF Metered(s.kind) THEN (IF success THEN "counted" ELSE "unavailable") ELSE @]

\* sendProxyError(): a status while no headers went out, else a reset.
Error(s, here) ==
  CASE ~here -> [s EXCEPT !.tail = "reset"]
    [] here /\ s.head # "none" -> [s EXCEPT !.tail = "reset"]
    [] OTHER -> [s EXCEPT !.head = "error", !.tail = "clean"]

\* What fail() writes.
FailureTold(s, here) ==
  IF s.mode = "frames" /\ s.head = "ok" /\ here /\ ~s.terminal
  THEN [s EXCEPT !.tail = "failed"]
  ELSE Error(s, here)
\* Fault: a second event may settle the response again.
MutFailed(s, here) == [Finish(FailureTold(s, here), FALSE) EXCEPT !.echo = s.stage # "settled"]
\* fail(): nothing after the first outcome; destroying the upstream makes it
\* report an error of its own later.
Failed(s, here) ==
  IF s.stage = "settled" THEN [s EXCEPT !.echo = FALSE]
  ELSE [Finish(FailureTold(s, here), FALSE) EXCEPT !.echo = TRUE]
Fail(r) == Set(r, Failed(relay[r], Here(r)))

(***************************************************************************)
(* The upstream                                                            *)
(***************************************************************************)
\* Nothing is asked for a client that has left.
Start(r, kind) ==
  Set(r, IF Here(r) THEN [Off EXCEPT !.kind = kind, !.stage = "asked", !.total = TRUE]
         ELSE [Off EXCEPT !.stage = "settled", !.tail = "reset"])

\* Fault: the headers of every answer go out at once.
MutAnswered(s, mode, here) ==
  [s EXCEPT !.stage = "flowing", !.mode = mode, !.head = IF here THEN "ok" ELSE @]
\* The headers are accepted; only an unchanged answer commits them at once.
Answered(s, mode, here) ==
  [s EXCEPT !.stage = "flowing", !.mode = mode,
            !.head = IF mode = "plain" /\ here THEN "ok" ELSE @]

\* Fault: the headers stop the total timer with their own.
MutAnswer(r) ==
  /\ Asked(r)
  /\ \E mode \in ModesOf(relay[r].kind) :
       Set(r, [Answered(relay[r], mode, Here(r)) EXCEPT !.total = FALSE])
Answer(r) ==
  /\ Asked(r)
  /\ \/ \E mode \in ModesOf(relay[r].kind) : Set(r, Answered(relay[r], mode, Here(r)))
     \/ relay[r].kind # "native" /\ Fail(r)    \* status, type or encoding refused

Send(r) ==
  /\ Flowing(r) /\ relay[r].sent = "open" /\ relay[r].unread < MaxUnread
  /\ Set(r, [relay[r] EXCEPT !.unread = @ + 1])
Complete(r) ==
  /\ Flowing(r) /\ relay[r].sent = "open"
  /\ \E sent \in {"complete", "cut"} : Set(r, [relay[r] EXCEPT !.sent = sent])

(***************************************************************************)
(* Reading and writing                                                     *)
(***************************************************************************)
\* writeChunk(): nothing for a client that is gone; a full client pauses the
\* upstream.
Written(s, here) ==
  IF ~here THEN {s}
  ELSE {[s EXCEPT !.head = "ok", !.full = full, !.paused = @ \/ full] : full \in {s.full, TRUE}}

\* The states after a data event that is accepted.
Taken(s, here) ==
  CASE s.mode = "plain" -> Written(s, here)
    [] s.mode \in {"whole", "error"} -> {[s EXCEPT !.held = TRUE]}
    [] s.mode = "frames" ->
         {[s EXCEPT !.held = TRUE]}
           \cup UNION {Written([s EXCEPT !.terminal = @ \/ terminal], here) : terminal \in BOOLEAN}

\* Fault: the upstream is read although it has nothing to read.
MutRead(r) ==
  /\ Flowing(r) /\ ~relay[r].paused
  /\ \E s \in Taken([relay[r] EXCEPT !.unread = @ - 1], Here(r)) : Set(r, s)
Read(r) ==
  /\ Flowing(r) /\ relay[r].unread > 0 /\ ~relay[r].paused
  /\ \/ \E s \in Taken([relay[r] EXCEPT !.unread = @ - 1], Here(r)) : Set(r, s)
     \/ relay[r].mode \in {"whole", "frames"} /\ Fail(r)    \* too large, or refused

\* Fault: a drain does not resume the upstream.
MutDrained(s) == [s EXCEPT !.full = FALSE]
Drained(s) == [s EXCEPT !.full = FALSE, !.paused = FALSE]
Drain(r) == Flowing(r) /\ relay[r].full /\ Here(r) /\ Set(r, Drained(relay[r]))

\* Fault: the client is not looked at when the answer ends.
MutEnded(s, here) == Finish([s EXCEPT !.tail = IF here THEN "clean" ELSE "reset"], TRUE)
\* The end of an answer that was read to its end and accepted.
Ended(s, here) ==
  IF here THEN Finish([s EXCEPT !.head = "ok", !.tail = "clean"], TRUE)
  ELSE Finish([s EXCEPT !.tail = "reset"], FALSE)
End(r) ==
  /\ Flowing(r) /\ relay[r].sent = "complete" /\ relay[r].unread = 0 /\ ~relay[r].paused
  /\ \/ relay[r].mode # "error" /\ Set(r, Ended(relay[r], Here(r)))
     \/ relay[r].mode # "plain" /\ Fail(r)    \* invalid, incomplete, or a classified failure

\* The connection breaks, or reports that it was destroyed.
Broken(r) ==
  /\ \/ Asked(r)
     \/ Flowing(r) /\ relay[r].sent = "cut"
     \/ relay[r].echo
  /\ Fail(r)

(***************************************************************************)
(* Timers and the client                                                   *)
(***************************************************************************)
HeadersTimeout(r) == Asked(r) /\ Fail(r)
IdleTimeout(r) == Flowing(r) /\ Fail(r)
TotalTimeout(r) == Active(r) /\ relay[r].total /\ Fail(r)

Leave(r) ==
  /\ Here(r) /\ relay[r].tail = "open"
  /\ client' = [client EXCEPT ![r] = "leaving"]
  /\ UNCHANGED relay
\* onClientAbort(), or the close of a response that was not ended.
Closed(r) ==
  /\ Active(r) /\ client[r] = "leaving"
  /\ relay' = [relay EXCEPT ![r] = [Finish([@ EXCEPT !.tail = "reset"], FALSE) EXCEPT !.echo = TRUE]]
  /\ client' = [client EXCEPT ![r] = "gone"]

RelayStep(r) ==
  \/ Answer(r) \/ Send(r) \/ Complete(r) \/ Read(r) \/ Drain(r) \/ End(r) \/ Broken(r)
  \/ HeadersTimeout(r) \/ IdleTimeout(r) \/ TotalTimeout(r) \/ Leave(r) \/ Closed(r)
====
