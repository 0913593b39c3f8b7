---- MODULE FunctionStream ----
(***************************************************************************)
(* One streamed model response with function calls on its way to Codex:    *)
(* the rewriter that grants calls (efficient-fidelity.mjs), inside the     *)
(* transformer that turns TCP chunks into whole frames                     *)
(* (responses-transform.mjs), and what the relay tells the client when     *)
(* either of them refuses.                                                 *)
(*                                                                         *)
(* The upstream model server may send any frame at any time.  An item is   *)
(* located by an id, an output index or both; a search call is the         *)
(* synthetic function that stands for Codex's tool_search.  Argument texts *)
(* are numbers: 0 is empty, a delta adds one, the others are complete      *)
(* objects.  Everything that is refused for its own shape is Malformed.    *)
(***************************************************************************)
EXTENDS Naturals, Sequences, FiniteSets, SequencesExt

CONSTANTS ItemIds, CallIds,
          Locators,       \* the locators the server uses for calls
          OtherLocators,  \* and for other items
          ReservedItems, ReservedCalls,   \* named by the replayed history
          MaxCalls,       \* maxAuthorizedCalls: one without parallel calls
          MaxSearches,    \* maxSearchCalls
          MaxFrames,      \* frames in a response
          Absent

Indexes == 0 .. 1
Arguments == 0 .. 2

ASSUME StreamAssumption ==
  /\ Absent \notin ItemIds \cup CallIds \cup Indexes \cup Arguments
  /\ Locators \cup OtherLocators \subseteq [item : ItemIds \cup {Absent}, index : Indexes \cup {Absent}]
  /\ ReservedItems \subseteq ItemIds /\ ReservedCalls \subseteq CallIds
  /\ MaxCalls \in Nat /\ MaxSearches \in Nat /\ MaxFrames \in Nat

VARIABLES
  phase,    \* "open", "terminal", "marked" (after [DONE]) or "closed"
  pending,  \* calls announced and not completed
  emitted,  \* completed calls, in the order of their completion
  others,   \* items and indexes used by anything but a call
  held,     \* entries kept back until the response is completed
  frames,
  output,   \* entries of the chunk being read
  claimed,  \* a terminal event is in the chunk being read
  known,    \* hasTerminalEvent: a terminal event was handed to the client
  client,   \* what the client received
  end       \* "open", "clean", "told" (a failed event), "error" (a status) or "cut"

rewriter == <<pending, emitted, others, held>>
vars == <<phase, pending, emitted, others, held, frames, output, claimed, known, client, end>>

Nowhere == [item |-> Absent, index |-> Absent]
Located == Locators \ {Nowhere}
Entry(type, kind, loc, call, args) ==
  [type |-> type, kind |-> kind, loc |-> loc, call |-> call, args |-> args]
Plain(type) == Entry(type, "none", Nowhere, Absent, 0)
Terminals == {"completed", "failed", "incomplete"}
NoItems == [items |-> {}, indexes |-> {}]

Init ==
  /\ phase = "open" /\ pending = {} /\ emitted = <<>> /\ others = NoItems
  /\ held = <<>> /\ frames = 0
  /\ output = <<>> /\ claimed = FALSE /\ known = FALSE
  /\ client = <<>> /\ end = "open"

(***************************************************************************)
(* Identity                                                                *)
(***************************************************************************)
Agree(a, b) == a # Absent /\ b # Absent /\ a = b
Differ(a, b) == a # Absent /\ b # Absent /\ a # b
SameLocator(l, m) ==
  /\ ~Differ(l.item, m.item) /\ ~Differ(l.index, m.index)
  /\ Agree(l.item, m.item) \/ Agree(l.index, m.index)
ConflictingLocator(l, m) ==
  \/ Agree(l.item, m.item) /\ Differ(l.index, m.index)
  \/ Agree(l.index, m.index) /\ Differ(l.item, m.item)

Emitted == ToSet(emitted)
ItemsOf(S) == {e.loc.item : e \in S} \ {Absent}
IndexesOf(S) == {e.loc.index : e \in S} \ {Absent}
CallsOf(S) == {e.call : e \in S} \ {Absent}
Matching(loc) == {p \in pending : SameLocator(p.loc, loc)}

\* Fault: items that are no calls are not remembered.
MutIdentified(loc) ==
  /\ loc # Nowhere
  /\ loc.item \notin ReservedItems \cup ItemsOf(Emitted)
  /\ \A p \in pending : ~ConflictingLocator(p.loc, loc)
  /\ Cardinality(Matching(loc)) <= 1
\* findPending does not refuse the locator.
Identified(loc) ==
  /\ loc # Nowhere
  /\ loc.item \notin ReservedItems \cup ItemsOf(Emitted) \cup others.items
  /\ loc.index \notin others.indexes
  /\ \A p \in pending : ~ConflictingLocator(p.loc, loc)
  /\ Cardinality(Matching(loc)) <= 1

FreshCall(call) == call \notin ReservedCalls \cup CallsOf(pending) \cup CallsOf(Emitted)
\* Fault: one call more than allowed.
MutCapacity == Cardinality(pending) + Len(emitted) <= MaxCalls
Capacity == Cardinality(pending) + Len(emitted) < MaxCalls
Searches(S) == Cardinality({c \in S : c.kind = "search"})

(***************************************************************************)
(* Frames, chunks and the client                                           *)
(***************************************************************************)
Reading == end = "open" /\ phase # "closed" /\ frames < MaxFrames
\* After a terminal event the rewriter takes no further event.
Open == phase = "open"

\* Fault: the terminal event counts as sent as soon as it is read.
ReleaseEarly(chunk, terminal) ==
  /\ output' = output \o chunk /\ claimed' = (claimed \/ terminal)
  /\ known' = (known \/ terminal)
Release(chunk, terminal) ==
  /\ output' = output \o chunk /\ claimed' = (claimed \/ terminal) /\ UNCHANGED known

Accepted == frames' = frames + 1 /\ UNCHANGED <<client, end>>

\* The rewriter is gone.
Discarded ==
  /\ phase' = "closed" /\ frames' = 0 /\ output' = <<>>
  /\ pending' = {} /\ emitted' = <<>> /\ others' = NoItems /\ held' = <<>>

\* fail: the chunk is discarded; a client that has part of the response and no
\* terminal event is told, one that has nothing gets a status, and the rest is
\* cut off.
Refuse ==
  /\ Discarded /\ claimed' = FALSE
  /\ IF known THEN end' = "cut" /\ UNCHANGED client
     ELSE IF client = <<>> THEN end' = "error" /\ UNCHANGED client
     ELSE end' = "told" /\ client' = Append(client, Plain("failed"))
  /\ UNCHANGED known

\* holdStreamEntry and emitOrHoldEvent
Hold(e) == held' = Append(held, e) /\ Release(<<>>, FALSE)
\* Fault: argument pieces are passed on at once.
MutEmitOrHold(e) == Release(<<e>>, FALSE) /\ UNCHANGED held
EmitOrHold(e) == IF held = <<>> THEN Release(<<e>>, FALSE) /\ UNCHANGED held ELSE Hold(e)

\* The chunk is validated: its entries are written.
EndChunk ==
  /\ end = "open" /\ (output # <<>> \/ claimed)
  /\ client' = client \o output /\ output' = <<>>
  /\ known' = (known \/ claimed) /\ claimed' = FALSE
  /\ UNCHANGED <<phase, rewriter, frames, end>>

(***************************************************************************)
(* Frames the rewriter accepts.  Any other frame, whatever is wrong with   *)
(* it, is a Refusal.                                                       *)
(***************************************************************************)
\* response.output_item.added of a function call; a search call stays hidden.
\* One that already carries argument text is one followed by a delta.
CallAdded == Reading /\ Open /\ Capacity /\
  \E kind \in {"call", "search"}, loc \in Located, call \in CallIds \cup {Absent} :
  /\ Identified(loc) /\ Matching(loc) = {} /\ FreshCall(call)
  /\ kind = "search" => Searches(pending) + Searches(Emitted) < MaxSearches
  /\ pending' = pending \cup
       {[kind |-> kind, loc |-> loc, call |-> call, args |-> 0, given |-> FALSE, done |-> Absent]}
  /\ IF kind = "search" THEN Release(<<>>, FALSE) /\ UNCHANGED held
     ELSE Hold(Entry("added", kind, loc, call, 0))
  /\ Accepted /\ UNCHANGED <<phase, emitted, others>>

Update(p, q) == pending' = (pending \ {p}) \cup {q}

ArgumentsDelta == Reading /\ Open /\ \E loc \in Located : \E p \in Matching(loc) :
  /\ Identified(loc)
  /\ p.kind = "call" => p.done = Absent
  /\ p.args + 1 \in Arguments
  /\ Update(p, [p EXCEPT !.args = @ + 1, !.given = TRUE])
  /\ IF p.kind = "search" THEN Release(<<>>, FALSE) /\ UNCHANGED held
     ELSE EmitOrHold(Entry("delta", p.kind, loc, Absent, 1))
  /\ Accepted /\ UNCHANGED <<phase, emitted, others>>

ArgumentsDone == Reading /\ Open /\ \E loc \in Located : \E p \in Matching(loc), args \in Arguments :
  /\ Identified(loc)
  /\ p.done = Absent
  /\ p.kind = "call" /\ p.given => p.args = args
  /\ Update(p, IF p.kind = "search" THEN [p EXCEPT !.done = args]
               ELSE [p EXCEPT !.done = args, !.args = args, !.given = TRUE])
  /\ IF p.kind = "search" THEN Release(<<>>, FALSE) /\ UNCHANGED held
     ELSE Hold(Entry("arguments", p.kind, loc, Absent, args))
  /\ Accepted /\ UNCHANGED <<phase, emitted, others>>

\* Fault: the completed arguments are not compared with those announced.
MutContinues(p, kind, call, args) ==
  /\ p.kind = kind
  /\ p.call \in {Absent, call}
\* The completed item says the same of the call as the frames before it did.
Continues(p, kind, call, args) ==
  /\ p.kind = kind
  /\ p.call \in {Absent, call}
  /\ p.done \in {Absent, args}
  /\ (IF kind = "call" THEN p.given ELSE p.args > 0) => p.args = args

\* mapResponseOutputItem: a completed call is new to the conversation and its
\* arguments are a complete object.
Authorized(loc, call, args) ==
  /\ call \notin ReservedCalls /\ loc.item \notin ReservedItems
  /\ args # 0

\* response.output_item.done of a function call
CallDone == Reading /\ Open /\
  \E loc \in Located, kind \in {"call", "search"}, call \in CallIds, args \in Arguments :
  /\ Authorized(loc, call, args)
  /\ Identified(loc) /\ loc.index \notin IndexesOf(Emitted) \cup {Absent}
  /\ call \notin CallsOf(Emitted)
  /\ \A p \in Matching(loc) : Continues(p, kind, call, args)
  /\ Matching(loc) = {} => Capacity
  /\ kind = "search" => Searches(Emitted) < MaxSearches
  /\ pending' = pending \ Matching(loc)
  /\ emitted' = Append(emitted, [kind |-> kind, loc |-> loc, call |-> call, args |-> args])
  /\ Hold(Entry("done", kind, loc, call, args))
  /\ Accepted /\ UNCHANGED <<phase, others>>

\* Anything about another item.  One that completes while a call is pending is
\* refused: its own locator has just been recorded as not a call's.
OtherItem == Reading /\ Open /\ \E type \in {"other", "otherDone"}, loc \in OtherLocators :
  /\ type = "otherDone" => pending = {}
  /\ loc.item \notin ItemsOf(Emitted \cup pending)
  /\ loc.index \notin IndexesOf(Emitted \cup pending)
  /\ others' = [items |-> others.items \cup ({loc.item} \ {Absent}),
                indexes |-> others.indexes \cup ({loc.index} \ {Absent})]
  /\ EmitOrHold(Entry(type, "none", loc, Absent, 0))
  /\ Accepted /\ UNCHANGED <<phase, pending, emitted>>

\* What a completed response may list: nothing, or messages and calls by index.
Listings ==
  LET calls == {[kind |-> e.kind, item |-> e.loc.item, call |-> e.call, args |-> a] :
                  e \in Emitted, a \in Arguments \ {0}}
  IN  UNION {[1 .. n -> calls \cup {Absent}] : n \in 0 .. Cardinality(Indexes)}
\* The listing holds the completed calls, unchanged, in the order of their
\* completion and at their own index.
Confirms(listing) ==
  LET places == SelectSeq([i \in DOMAIN listing |-> i], LAMBDA i : listing[i] # Absent)
  IN  [k \in DOMAIN places |->
         [index |-> places[k] - 1, call |-> listing[places[k]]]]
      = [k \in DOMAIN emitted |->
         [index |-> emitted[k].loc.index,
          call |-> [kind |-> emitted[k].kind, item |-> emitted[k].loc.item,
                    call |-> emitted[k].call, args |-> emitted[k].args]]]

Completed ==
  /\ Reading /\ Open /\ pending = {}
  /\ \E listing \in {Absent} \cup Listings :
       /\ listing # Absent => Confirms(listing)
       /\ Release(Append(held, [type |-> "completed", listing |-> listing]), TRUE)
  /\ held' = <<>>
  /\ phase' = "terminal"
  /\ Accepted /\ UNCHANGED <<pending, emitted, others>>

\* A failed or incomplete response, or an error: every call is dropped.  The
\* transformer does not count an error as a terminal event.
Dropped == Reading /\ Open /\ \E type \in {"failed", "incomplete", "error"} :
  /\ pending' = {} /\ emitted' = <<>> /\ others' = NoItems /\ held' = <<>>
  /\ Release(<<Plain(type)>>, type # "error")
  /\ phase' = "terminal"
  /\ Accepted

\* pushRawFrame: comments and empty frames.
Raw ==
  /\ Reading /\ phase # "marked"
  /\ EmitOrHold(Plain("raw"))
  /\ Accepted /\ UNCHANGED <<phase, pending, emitted, others>>

DoneMarker ==
  /\ Reading /\ phase = "terminal"
  /\ phase' = "marked"
  /\ Release(<<Plain("mark")>>, FALSE)
  /\ Accepted /\ UNCHANGED rewriter

\* The upstream ends cleanly after a terminal event.
Finish ==
  /\ end = "open" /\ phase \in {"terminal", "marked"} /\ pending = {}
  /\ Discarded /\ end' = "clean"
  /\ client' = client \o output
  /\ known' = (known \/ claimed) /\ claimed' = FALSE

\* A frame is malformed or not accepted, the upstream breaks off, ends without
\* a terminal event or times out.
Refusal == end = "open" /\ Refuse

Next == \/ CallAdded \/ ArgumentsDelta \/ ArgumentsDone \/ CallDone \/ OtherItem
        \/ Completed \/ Dropped \/ Raw \/ DoneMarker \/ EndChunk \/ Finish \/ Refusal

Spec == Init /\ [][Next]_vars

(***************************************************************************)
(* Properties                                                              *)
(***************************************************************************)
TypeOK ==
  /\ phase \in {"open", "terminal", "marked", "closed"}
  /\ \A p \in pending : p.loc \in Located /\ p.args \in Arguments
  /\ Len(emitted) + Cardinality(pending) <= MaxCalls
  /\ frames \in 0 .. MaxFrames
  /\ claimed \in BOOLEAN /\ known \in BOOLEAN
  /\ end \in {"open", "clean", "told", "error", "cut"}

Received(types) == {i \in DOMAIN client : client[i].type \in types}
CallFrames == {"added", "delta", "arguments", "done"}

\* Codex gets no frame of a call (announcement, argument piece, completed item)
\* without the completed response that commits it behind it, whatever the
\* chunking; the rewriter's held entries and docs/ARCHITECTURE.md's promise that
\* no failed, incomplete or missing terminal triggers the dispatcher.
CallsCommitted ==
  \A i \in Received(CallFrames) : \E j \in Received({"completed"}) : j > i

\* Codex is told once how a response ended, and nothing but comments and the
\* marker follows; a stream that ended badly after a part was sent says so
\* unless its terminal event had been sent.  fail and hasTerminalEvent.
ToldOnce ==
  /\ Cardinality(Received(Terminals)) <= 1
  /\ \A i \in Received(Terminals), j \in DOMAIN client :
       j > i => client[j].type \in {"raw", "mark"}
  /\ end \in {"clean", "told"} => Received(Terminals \cup {"error"}) # {}
  /\ end = "cut" => Received(Terminals) # {}

\* The calls Codex gets are distinct in id, index and item, none of them is in
\* the replayed history, and no other item shares an index or item with them.
CallsDistinct ==
  \A i, j \in Received({"done"}) :
    LET d == client[i] IN
    /\ d.call \notin ReservedCalls /\ d.loc.item \notin ReservedItems
    /\ i # j => /\ d.call # client[j].call
                /\ d.loc.index # client[j].loc.index
                /\ ~Agree(d.loc.item, client[j].loc.item)
    /\ \A k \in Received({"other", "otherDone"}) :
         ~Agree(d.loc.item, client[k].loc.item) /\ ~Agree(d.loc.index, client[k].loc.index)

\* What Codex was shown of a call while it was streamed is the call it
\* executes: announcement, argument pieces and completed item agree, and no piece
\* belongs to a hidden search call.  A piece may locate its call by what only the
\* announcement said.
Follows(d, e) ==
  \/ SameLocator(e.loc, d.loc)
  \/ \E k \in Received({"added"}) :
       SameLocator(e.loc, client[k].loc) /\ SameLocator(client[k].loc, d.loc)
AsAnnounced ==
  \A i \in Received({"added", "delta", "arguments"}) :
    \E j \in Received({"done"}) :
      LET e == client[i]
          d == client[j] IN
      /\ j > i /\ d.kind = "call" /\ Follows(d, e)
      /\ e.type = "added" => e.call \in {Absent, d.call}
      /\ e.type = "arguments" => e.args = d.args
      /\ e.type = "delta" => e.args <= d.args
====
