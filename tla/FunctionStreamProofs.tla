------------------------ MODULE FunctionStreamProofs ------------------------
(***************************************************************************)
(* Proofs about FunctionStream for any model server, any history and any   *)
(* limits.  StreamInv says, phase by phase, what has been handed to the    *)
(* chunk or to the client (Delivery), what is held back, and how both      *)
(* relate to the pending and to the completed calls.                       *)
(***************************************************************************)
EXTENDS FunctionStream, FiniteSetTheorems, SequenceTheorems, TLAPS

-----------------------------------------------------------------------------
(* Shapes.                                                                 *)

Kinds == {"call", "search"}
Calls == [kind : Kinds, loc : Located, call : CallIds, args : Arguments]
PendingCalls == [kind : Kinds, loc : Located, call : CallIds \cup {Absent}, args : Arguments,
                 given : BOOLEAN, done : Arguments \cup {Absent}]
Passing == {"raw", "other", "otherDone"}
Shown == {"added", "delta", "arguments"}
Entries == [type : CallFrames \cup Passing \cup {"mark", "failed", "incomplete", "error"},
            kind : Kinds \cup {"none"}, loc : Locators \cup OtherLocators \cup {Nowhere},
            call : CallIds \cup {Absent}, args : Arguments]
ListedCalls == [kind : Kinds, item : ItemIds \cup {Absent}, call : CallIds, args : Arguments]
Commits == [type : {"completed"}, listing : {Absent} \cup Seq(ListedCalls \cup {Absent})]
Frames == Entries \cup Commits

Typed ==
  /\ phase \in {"open", "terminal", "marked", "closed"}
  /\ pending \subseteq PendingCalls /\ IsFiniteSet(pending)
  /\ emitted \in Seq(Calls)
  /\ Len(emitted) + Cardinality(pending) <= MaxCalls
  /\ others \in [items : SUBSET ItemIds, indexes : SUBSET Indexes]
  /\ held \in Seq(Frames) /\ output \in Seq(Frames) /\ client \in Seq(Frames)
  /\ frames \in 0 .. MaxFrames
  /\ claimed \in BOOLEAN /\ known \in BOOLEAN
  /\ end \in {"open", "clean", "told", "error", "cut"}
  /\ end = "open" <=> phase # "closed"

(* What the client has or will have when the chunk is written.             *)
Delivery == client \o output

(* Of a sequence of frames: it holds frames of these types only; it holds  *)
(* one; parts of calls are followed by the completed response; a terminal  *)
(* event is followed by nothing that matters.                              *)
Only(s, types) == \A i \in DOMAIN s : s[i].type \in types
Has(s, types) == \E i \in DOMAIN s : s[i].type \in types
CommittedIn(s) == \A i \in DOMAIN s : s[i].type \in CallFrames =>
                    \E j \in DOMAIN s : j > i /\ s[j].type = "completed"
EndedIn(s) == \A i, j \in DOMAIN s :
                s[i].type \in Terminals /\ j > i => s[j].type \in {"raw", "mark"}

(* Its completed calls are new, distinct, and apart from its other items.  *)
ClashFree(d, e) == ~Agree(d.loc.item, e.loc.item) /\ ~Agree(d.loc.index, e.loc.index)
NewCalls(s) == \A i, j \in DOMAIN s : s[i].type = "done" /\ s[j].type = "done" =>
  /\ s[i].call \notin ReservedCalls /\ s[i].loc.item \notin ReservedItems
  /\ i # j => /\ s[i].call # s[j].call
              /\ s[i].loc.index # s[j].loc.index
              /\ ~Agree(s[i].loc.item, s[j].loc.item)
DistinctIn(s) ==
  /\ NewCalls(s)
  /\ \A i, k \in DOMAIN s : s[i].type = "done" /\ s[k].type \in {"other", "otherDone"} =>
       ClashFree(s[i], s[k])

(* What it shows of a call is what the completed call says.                *)
FollowsIn(s, d, e) ==
  \/ SameLocator(e.loc, d.loc)
  \/ \E k \in DOMAIN s : /\ s[k].type = "added"
                         /\ SameLocator(e.loc, s[k].loc) /\ SameLocator(s[k].loc, d.loc)
Matches(e, d) ==
  /\ e.type = "added" => e.call \in {Absent, d.call}
  /\ e.type = "arguments" => e.args = d.args
  /\ e.type = "delta" => e.args <= d.args
AnsweredIn(s, i) == \E j \in DOMAIN s :
  s[j].type = "done" /\ j > i /\ s[j].kind = "call" /\ FollowsIn(s, s[j], s[i]) /\ Matches(s[i], s[j])
AnnouncedIn(s) == \A i \in DOMAIN s : s[i].type \in Shown => AnsweredIn(s, i)

-----------------------------------------------------------------------------
(* The invariant.                                                          *)

(* Before the response ends nothing of a call has left the rewriter.       *)
Unsaid ==
  /\ ~known /\ ~claimed
  /\ Only(Delivery, Passing) /\ Only(held, Passing \cup CallFrames)
  /\ held = <<>> => emitted = <<>> /\ \A p \in pending : p.kind = "search"

(* Held completed calls are recorded, and other items are remembered.      *)
Remembered(s) == \A i \in DOMAIN s : s[i].type \in {"other", "otherDone"} =>
  s[i].loc.item \in others.items \cup {Absent} /\ s[i].loc.index \in others.indexes \cup {Absent}
Recorded == \A i \in DOMAIN held : held[i].type = "done" =>
  \E c \in Emitted : c.loc = held[i].loc /\ c.call = held[i].call
Apart ==
  /\ Remembered(Delivery) /\ Remembered(held)
  /\ Recorded /\ NewCalls(held)
  /\ \A c \in Emitted : /\ c.loc.item \notin others.items
                        /\ c.loc.index \notin others.indexes \cup {Absent}

(* What was announced of a call is answered, or its call still pends.      *)
Tracks(p, e) ==
  /\ p.kind = "call" /\ SameLocator(e.loc, p.loc)
  /\ e.type = "added" => e.call = p.call
  /\ e.type = "delta" => p.given /\ e.args <= p.args
  /\ e.type = "arguments" => p.given /\ p.done # Absent /\ e.args = p.args
Traced(s, P) == \A i \in DOMAIN s : s[i].type \in Shown =>
                  (\E p \in P : Tracks(p, s[i])) \/ AnsweredIn(s, i)
Introduced(s, P) == \A p \in P : p.kind = "call" =>
                      \E k \in DOMAIN s : s[k].type = "added" /\ s[k].loc = p.loc

Waiting == Unsaid /\ Apart /\ Traced(held, pending) /\ Introduced(held, pending)

(* After it, everything has been released; a call is whole on one side of  *)
(* the boundary of the chunk.                                              *)
Over ==
  /\ pending = {} /\ held = <<>>
  /\ EndedIn(Delivery) /\ DistinctIn(Delivery) /\ Has(Delivery, Terminals \cup {"error"})
  /\ CommittedIn(client) /\ CommittedIn(output)
  /\ AnnouncedIn(client) /\ AnnouncedIn(output)
  /\ known = Has(client, Terminals) /\ claimed = Has(output, Terminals)

Closed ==
  /\ EndedIn(client) /\ DistinctIn(client) /\ CommittedIn(client) /\ AnnouncedIn(client)
  /\ end \in {"clean", "told"} => Has(client, Terminals \cup {"error"})
  /\ end = "cut" => Has(client, Terminals)

StreamInv ==
  /\ Typed
  /\ phase = "open" => Waiting
  /\ phase \in {"terminal", "marked"} => Over
  /\ phase = "closed" => Closed

-----------------------------------------------------------------------------
(* Sequences of frames.                                                    *)

(* Where the elements of a concatenation are.                              *)
LEMMA Joined ==
  ASSUME NEW s \in Seq(Frames), NEW t \in Seq(Frames)
  PROVE  /\ s \o t \in Seq(Frames) /\ Len(s \o t) = Len(s) + Len(t)
         /\ Len(s) \in Nat /\ Len(t) \in Nat
         /\ DOMAIN s = 1 .. Len(s) /\ DOMAIN t = 1 .. Len(t)
         /\ DOMAIN (s \o t) = 1 .. Len(s) + Len(t)
         /\ \A i \in DOMAIN s : (s \o t)[i] = s[i]
         /\ \A i \in DOMAIN t : (s \o t)[Len(s) + i] = t[i]
<1>1. /\ Len(s) \in Nat /\ Len(t) \in Nat
      /\ DOMAIN s = 1 .. Len(s) /\ DOMAIN t = 1 .. Len(t)
  BY LenProperties
<1>2. /\ s \o t \in Seq(Frames) /\ Len(s \o t) = Len(s) + Len(t)
      /\ \A i \in 1 .. Len(s) + Len(t) :
           (s \o t)[i] = IF i <= Len(s) THEN s[i] ELSE t[i - Len(s)]
  BY ConcatProperties
<1>3. DOMAIN (s \o t) = 1 .. Len(s) + Len(t)
  BY <1>2, LenProperties
<1>4. \A i \in DOMAIN t : Len(s) + i \in 1 .. Len(s) + Len(t) /\ ~(Len(s) + i <= Len(s))
                          /\ (Len(s) + i) - Len(s) = i
  BY <1>1
<1>5. \A i \in DOMAIN s : i \in 1 .. Len(s) + Len(t) /\ i <= Len(s)
  BY <1>1
<1>6. \A i \in DOMAIN s : (s \o t)[i] = s[i]
  BY <1>2, <1>5
<1>7. \A i \in DOMAIN t : (s \o t)[Len(s) + i] = t[i]
  BY <1>2, <1>4
<1> QED BY <1>1, <1>2, <1>3, <1>6, <1>7

(* Each of them comes from one side.                                       *)
LEMMA FromOneSide ==
  ASSUME NEW s \in Seq(Frames), NEW t \in Seq(Frames), NEW i \in DOMAIN (s \o t)
  PROVE  \/ i \in DOMAIN s
         \/ \E k \in DOMAIN t : i = Len(s) + k /\ i \notin DOMAIN s
<1>1. i \in 1 .. Len(s) + Len(t) /\ Len(s) \in Nat /\ Len(t) \in Nat
      /\ DOMAIN s = 1 .. Len(s) /\ DOMAIN t = 1 .. Len(t)
  BY Joined
<1>2. CASE i <= Len(s)
  BY <1>1, <1>2
<1>3. CASE ~(i <= Len(s))
  <2>1. i - Len(s) \in DOMAIN t /\ i = Len(s) + (i - Len(s)) /\ i \notin DOMAIN s
    BY <1>1, <1>3
  <2> QED BY <2>1
<1> QED BY <1>2, <1>3

LEMMA Appended ==
  ASSUME NEW s \in Seq(Frames), NEW e \in Frames
  PROVE  /\ Append(s, e) \in Seq(Frames) /\ Append(s, e) = s \o <<e>> /\ Append(s, e) # <<>>
         /\ Len(s) \in Nat /\ DOMAIN s = 1 .. Len(s)
         /\ DOMAIN Append(s, e) = 1 .. Len(s) + 1 /\ Len(s) + 1 \notin DOMAIN s
         /\ \A i \in DOMAIN s : Append(s, e)[i] = s[i] /\ i < Len(s) + 1
         /\ Append(s, e)[Len(s) + 1] = e
  OBVIOUS

LEMMA OnlyAppended ==
  ASSUME NEW s \in Seq(Frames), NEW e \in Frames, NEW types, Only(s, types), e.type \in types
  PROVE  Only(Append(s, e), types)
  BY Appended DEF Only

(* Nothing has to be shown of what passes through.                         *)
LEMMA PassingIsSafe ==
  ASSUME NEW s, Only(s, Passing)
  PROVE  /\ CommittedIn(s) /\ AnnouncedIn(s) /\ EndedIn(s) /\ DistinctIn(s)
         /\ ~Has(s, Terminals \cup {"error"}) /\ ~Has(s, Terminals)
  BY DEF Only, Has, CommittedIn, AnnouncedIn, EndedIn, DistinctIn, NewCalls, Passing, Shown,
     CallFrames, Terminals

LEMMA CommittedJoined ==
  ASSUME NEW s \in Seq(Frames), NEW t \in Seq(Frames), CommittedIn(s), CommittedIn(t)
  PROVE  CommittedIn(s \o t)
<1> SUFFICES ASSUME NEW i \in DOMAIN (s \o t), (s \o t)[i].type \in CallFrames
             PROVE  \E j \in DOMAIN (s \o t) : j > i /\ (s \o t)[j].type = "completed"
  BY DEF CommittedIn
<1>1. CASE i \in DOMAIN s
  <2>1. PICK j \in DOMAIN s : j > i /\ s[j].type = "completed"
    BY <1>1, Joined DEF CommittedIn
  <2> QED BY <2>1, Joined
<1>2. CASE \E k \in DOMAIN t : i = Len(s) + k
  <2>1. PICK k \in DOMAIN t : i = Len(s) + k
    BY <1>2
  <2>2. PICK j \in DOMAIN t : j > k /\ t[j].type = "completed"
    BY <2>1, Joined DEF CommittedIn
  <2>3. Len(s) + j \in DOMAIN (s \o t) /\ Len(s) + j > i
    BY <2>1, <2>2, Joined
  <2>4. (s \o t)[Len(s) + j] = t[j]
    BY Joined
  <2> QED BY <2>2, <2>3, <2>4
<1> QED BY <1>1, <1>2, FromOneSide

LEMMA AnsweredLeft ==
  ASSUME NEW s \in Seq(Frames), NEW t \in Seq(Frames), NEW i \in DOMAIN s, AnsweredIn(s, i)
  PROVE  AnsweredIn(s \o t, i)
<1>1. DOMAIN s \subseteq DOMAIN (s \o t) /\ \A k \in DOMAIN s : (s \o t)[k] = s[k]
  BY Joined
<1> QED BY <1>1 DEF AnsweredIn, FollowsIn

LEMMA AnsweredRight ==
  ASSUME NEW s \in Seq(Frames), NEW t \in Seq(Frames), NEW i \in DOMAIN t, AnsweredIn(t, i)
  PROVE  AnsweredIn(s \o t, Len(s) + i)
<1>1. \A k \in DOMAIN t : Len(s) + k \in DOMAIN (s \o t) /\ (s \o t)[Len(s) + k] = t[k]
  BY Joined
<1>2. PICK j \in DOMAIN t :
        t[j].type = "done" /\ j > i /\ t[j].kind = "call" /\ FollowsIn(t, t[j], t[i])
        /\ Matches(t[i], t[j])
  BY DEF AnsweredIn
<1>3. FollowsIn(s \o t, t[j], t[i])
  <2>1. CASE SameLocator(t[i].loc, t[j].loc)
    BY <2>1 DEF FollowsIn
  <2>2. CASE \E k \in DOMAIN t : /\ t[k].type = "added"
                                 /\ SameLocator(t[i].loc, t[k].loc)
                                 /\ SameLocator(t[k].loc, t[j].loc)
    BY <1>1, <2>2 DEF FollowsIn
  <2> QED BY <1>2, <2>1, <2>2 DEF FollowsIn
<1>4. Len(s) + j > Len(s) + i
  BY <1>2, Joined
<1> QED BY <1>1, <1>2, <1>3, <1>4 DEF AnsweredIn

LEMMA AnnouncedJoined ==
  ASSUME NEW s \in Seq(Frames), NEW t \in Seq(Frames), AnnouncedIn(s), AnnouncedIn(t)
  PROVE  AnnouncedIn(s \o t)
<1> SUFFICES ASSUME NEW i \in DOMAIN (s \o t), (s \o t)[i].type \in Shown
             PROVE  AnsweredIn(s \o t, i)
  BY DEF AnnouncedIn
<1>1. CASE i \in DOMAIN s
  BY <1>1, Joined, AnsweredLeft DEF AnnouncedIn
<1>2. CASE \E k \in DOMAIN t : i = Len(s) + k
  <2>1. PICK k \in DOMAIN t : i = Len(s) + k
    BY <1>2
  <2>2. AnsweredIn(t, k)
    BY <2>1, Joined DEF AnnouncedIn
  <2> QED BY <2>1, <2>2, AnsweredRight
<1> QED BY <1>1, <1>2, FromOneSide

(* What holds of a delivery holds of the part the client has.              *)
LEMMA PrefixKeeps ==
  ASSUME NEW s \in Seq(Frames), NEW t \in Seq(Frames)
  PROVE  /\ EndedIn(s \o t) => EndedIn(s)
         /\ DistinctIn(s \o t) => DistinctIn(s)
<1>1. DOMAIN s \subseteq DOMAIN (s \o t) /\ \A k \in DOMAIN s : (s \o t)[k] = s[k]
  BY Joined
<1>2. EndedIn(s \o t) => EndedIn(s)
  BY <1>1 DEF EndedIn
<1>3. NewCalls(s \o t) => NewCalls(s)
  BY <1>1 DEF NewCalls
<1> QED BY <1>1, <1>2, <1>3 DEF DistinctIn

(* One more frame that is no part of a call.                               *)
LEMMA PlainAppended ==
  ASSUME NEW s \in Seq(Frames), NEW e \in Frames,
         e.type \in {"raw", "mark", "failed", "incomplete", "error"}
  PROVE  /\ CommittedIn(s) => CommittedIn(Append(s, e))
         /\ AnnouncedIn(s) => AnnouncedIn(Append(s, e))
         /\ DistinctIn(s) => DistinctIn(Append(s, e))
         /\ EndedIn(s) /\ (e.type \in {"raw", "mark"} \/ ~Has(s, Terminals))
              => EndedIn(Append(s, e))
         /\ \A types : Has(Append(s, e), types) <=> Has(s, types) \/ e.type \in types
<1> USE Appended
<1>1. CommittedIn(s) => CommittedIn(Append(s, e))
  BY DEF CommittedIn, CallFrames
<1>2. AnnouncedIn(s) => AnnouncedIn(Append(s, e))
  <2>1. <<e>> \in Seq(Frames) /\ AnnouncedIn(<<e>>)
    BY DEF AnnouncedIn, Shown
  <2>2. Append(s, e) = s \o <<e>>
    BY Appended
  <2>3. AnnouncedIn(s) => AnnouncedIn(s \o <<e>>)
    BY <2>1, AnnouncedJoined
  <2> QED BY <2>2, <2>3
<1>3. DistinctIn(s) => DistinctIn(Append(s, e))
  <2>1. NewCalls(s) => NewCalls(Append(s, e))
    BY DEF NewCalls
  <2> QED BY <2>1 DEF DistinctIn
<1>4. EndedIn(s) /\ (e.type \in {"raw", "mark"} \/ ~Has(s, Terminals)) => EndedIn(Append(s, e))
  BY DEF EndedIn, Has, Terminals
<1>5. \A types : Has(Append(s, e), types) <=> Has(s, types) \/ e.type \in types
  BY DEF Has
<1> QED BY <1>1, <1>2, <1>3, <1>4, <1>5

-----------------------------------------------------------------------------
(* Locators, and what the actions do to the sequences.                     *)

LEMMA Locating ==
  ASSUME NEW l \in Located
  PROVE  /\ SameLocator(l, l)
         /\ l \in Locators \cup OtherLocators \cup {Nowhere}
         /\ l.item \in ItemIds \cup {Absent} /\ l.index \in Indexes \cup {Absent}
  BY StreamAssumption DEF Located, Nowhere, SameLocator, Agree, Differ

LEMMA SameIsSymmetric ==
  ASSUME NEW l, NEW m, SameLocator(l, m)
  PROVE  SameLocator(m, l)
  BY DEF SameLocator, Agree, Differ

LEMMA ReleasedJoins ==
  ASSUME Typed, NEW chunk \in Seq(Frames), output' = output \o chunk, client' = client
  PROVE  /\ output' \in Seq(Frames)
         /\ Delivery \in Seq(Frames) /\ Delivery' = Delivery \o chunk
<1>1. output \in Seq(Frames) /\ client \in Seq(Frames)
  BY DEF Typed
<1>2. client \o (output \o chunk) = (client \o output) \o chunk
  BY SMTT(30), <1>1, ConcatAssociative
<1>3. output \o chunk \in Seq(Frames) /\ client \o output \in Seq(Frames)
  BY <1>1, ConcatProperties
<1> QED BY <1>2, <1>3 DEF Delivery

LEMMA NothingReleased ==
  ASSUME Typed, Release(<<>>, FALSE), client' = client
  PROVE  /\ output' = output /\ Delivery' = Delivery /\ claimed' = claimed /\ known' = known
<1>1. output \o <<>> = output
  BY ConcatEmptySeq DEF Typed
<1> QED BY <1>1 DEF Release, Delivery, Typed

LEMMA OneReleased ==
  ASSUME Typed, NEW e \in Frames, Release(<<e>>, FALSE), client' = client
  PROVE  /\ output' = Append(output, e) /\ output' \in Seq(Frames)
         /\ Delivery \in Seq(Frames) /\ Delivery' = Append(Delivery, e)
         /\ claimed' = claimed /\ known' = known
<1>1. <<e>> \in Seq(Frames) /\ output' = output \o <<e>>
  BY DEF Release
<1>2. /\ output' \in Seq(Frames)
      /\ Delivery \in Seq(Frames) /\ Delivery' = Delivery \o <<e>>
  BY <1>1, ReleasedJoins
<1>3. output \in Seq(Frames)
  BY DEF Typed
<1>4. Append(output, e) = output \o <<e>> /\ Append(Delivery, e) = Delivery \o <<e>>
  BY <1>2, <1>3, Appended
<1> QED BY <1>1, <1>2, <1>4 DEF Release, Typed

LEMMA OneHeld ==
  ASSUME Typed, NEW e \in Frames, Hold(e), client' = client
  PROVE  /\ held' = Append(held, e) /\ held' \in Seq(Frames) /\ held' # <<>>
         /\ output' = output /\ Delivery' = Delivery /\ claimed' = claimed /\ known' = known
<1>1. held \in Seq(Frames)
  BY DEF Typed
<1> QED BY <1>1, NothingReleased, Appended DEF Hold

LEMMA EmittedOrHeld ==
  ASSUME Typed, NEW e \in Frames, EmitOrHold(e), client' = client
  PROVE  /\ held' \in Seq(Frames) /\ output' \in Seq(Frames) /\ Delivery \in Seq(Frames)
         /\ claimed' = claimed /\ known' = known
         /\ \/ held = <<>> /\ held' = held /\ Delivery' = Append(Delivery, e)
               /\ output' = Append(output, e)
            \/ held # <<>> /\ held' = Append(held, e) /\ held' # <<>> /\ Delivery' = Delivery
               /\ output' = output
<1>1. Delivery \in Seq(Frames) /\ output \in Seq(Frames) /\ held \in Seq(Frames)
  BY ConcatProperties DEF Typed, Delivery
<1>2. CASE held = <<>>
  BY <1>1, <1>2, OneReleased DEF EmitOrHold
<1>3. CASE held # <<>>
  BY <1>1, <1>3, OneHeld DEF EmitOrHold
<1> QED BY <1>2, <1>3

-----------------------------------------------------------------------------
(* How the parts of the invariant survive one more frame.                  *)

LEMMA TracedAppended ==
  ASSUME NEW s \in Seq(Frames), NEW e \in Frames, NEW P, NEW Q, Traced(s, P),
         \A i \in DOMAIN s : s[i].type \in Shown => \A p \in P : Tracks(p, s[i]) =>
           (\E q \in Q : Tracks(q, s[i])) \/ AnsweredIn(Append(s, e), i),
         e.type \in Shown => \E q \in Q : Tracks(q, e)
  PROVE  Traced(Append(s, e), Q)
<1> SUFFICES ASSUME NEW i \in DOMAIN Append(s, e), Append(s, e)[i].type \in Shown
             PROVE  (\E q \in Q : Tracks(q, Append(s, e)[i])) \/ AnsweredIn(Append(s, e), i)
  BY DEF Traced
<1>1. CASE i \in DOMAIN s
  <2>1. Append(s, e)[i] = s[i]
    BY <1>1, Appended
  <2>2. CASE AnsweredIn(s, i)
    <3>1. <<e>> \in Seq(Frames) /\ Append(s, e) = s \o <<e>>
      BY Appended
    <3>2. AnsweredIn(s \o <<e>>, i)
      BY <1>1, <2>2, <3>1, AnsweredLeft
    <3> QED BY <3>1, <3>2
  <2>3. CASE \E p \in P : Tracks(p, s[i])
    BY <1>1, <2>1, <2>3
  <2> QED BY <1>1, <2>1, <2>2, <2>3 DEF Traced
<1>2. CASE i = Len(s) + 1
  BY <1>2, Appended
<1>3. i \in DOMAIN s \/ i = Len(s) + 1
  BY Appended
<1> QED BY <1>1, <1>2, <1>3

LEMMA IntroducedAppended ==
  ASSUME NEW s \in Seq(Frames), NEW e \in Frames, NEW P, NEW Q, Introduced(s, P),
         \A q \in Q : q.kind = "call" =>
           \/ \E p \in P : p.kind = "call" /\ p.loc = q.loc
           \/ e.type = "added" /\ e.loc = q.loc
  PROVE  Introduced(Append(s, e), Q)
<1> SUFFICES ASSUME NEW q \in Q, q.kind = "call"
             PROVE  \E k \in DOMAIN Append(s, e) :
                      Append(s, e)[k].type = "added" /\ Append(s, e)[k].loc = q.loc
  BY DEF Introduced
<1>1. CASE \E p \in P : p.kind = "call" /\ p.loc = q.loc
  <2>1. PICK k \in DOMAIN s : s[k].type = "added" /\ s[k].loc = q.loc
    BY <1>1 DEF Introduced
  <2> QED BY <2>1, Appended
<1>2. CASE e.type = "added" /\ e.loc = q.loc
  <2>1. Len(s) + 1 \in DOMAIN Append(s, e)
    BY Appended
  <2> QED BY <1>2, <2>1, Appended
<1> QED BY <1>1, <1>2

LEMMA NewCallsAppended ==
  ASSUME NEW s \in Seq(Frames), NEW e \in Frames, NewCalls(s),
         e.type = "done" =>
           /\ e.call \notin ReservedCalls /\ e.loc.item \notin ReservedItems
           /\ \A i \in DOMAIN s : s[i].type = "done" =>
                /\ s[i].call # e.call /\ s[i].loc.index # e.loc.index
                /\ ~Agree(s[i].loc.item, e.loc.item)
  PROVE  NewCalls(Append(s, e))
<1>1. \A i \in DOMAIN Append(s, e) : i \in DOMAIN s \/ i = Len(s) + 1
  BY Appended
<1> QED BY <1>1, Appended DEF NewCalls, Agree

LEMMA RememberedAppended ==
  ASSUME NEW s \in Seq(Frames), NEW e \in Frames, Remembered(s),
         others.items \subseteq others'.items, others.indexes \subseteq others'.indexes,
         e.type \in {"other", "otherDone"} =>
           e.loc.item \in others'.items \cup {Absent} /\ e.loc.index \in others'.indexes \cup {Absent}
  PROVE  \A i \in DOMAIN Append(s, e) : Append(s, e)[i].type \in {"other", "otherDone"} =>
           /\ Append(s, e)[i].loc.item \in others'.items \cup {Absent}
           /\ Append(s, e)[i].loc.index \in others'.indexes \cup {Absent}
<1>1. \A i \in DOMAIN Append(s, e) : i \in DOMAIN s \/ i = Len(s) + 1
  BY Appended
<1> QED BY <1>1, Appended DEF Remembered

(* An action before the end of the response that leaves it open.           *)
LEMMA StillWaiting ==
  ASSUME StreamInv, Open, phase' = phase, Typed', Waiting'
  PROVE  StreamInv'
  BY DEF StreamInv, Open

(* A piece of a call is held, and nothing else changes but the pending     *)
(* calls; or a hidden search call changes and nothing is released.         *)
LEMMA PieceHeld ==
  ASSUME Typed, Waiting, NEW e \in Frames, e.type \in Shown, Hold(e), client' = client,
         UNCHANGED <<emitted, others>>
  PROVE  /\ held' = Append(held, e) /\ held' \in Seq(Frames) /\ output' = output
         /\ claimed' = claimed /\ known' = known
         /\ Unsaid' /\ Apart'
<1>1. /\ held' = Append(held, e) /\ held' \in Seq(Frames) /\ held' # <<>>
      /\ output' = output /\ Delivery' = Delivery /\ claimed' = claimed /\ known' = known
      /\ held \in Seq(Frames)
  BY OneHeld DEF Typed
<1>2. Unsaid'
  <2>1. Only(Append(held, e), Passing \cup CallFrames)
    BY <1>1, OnlyAppended DEF Waiting, Unsaid, Shown, CallFrames
  <2> QED BY <1>1, <2>1 DEF Waiting, Unsaid, Only
<1>3. Apart'
  <2>1. Remembered(Delivery)'
    BY <1>1 DEF Waiting, Apart, Remembered
  <2>2. Remembered(held)'
    BY <1>1, RememberedAppended DEF Waiting, Apart, Remembered, Shown
  <2>3. NewCalls(held)'
    BY <1>1, NewCallsAppended DEF Waiting, Apart, Shown, NewCalls
  <2>4. Recorded'
    BY <1>1, Appended DEF Waiting, Apart, Recorded, Shown, Emitted
  <2> QED BY <2>1, <2>2, <2>3, <2>4 DEF Waiting, Apart, Emitted
<1> QED BY <1>1, <1>2, <1>3

LEMMA NothingShown ==
  ASSUME Typed, Waiting, Release(<<>>, FALSE), client' = client,
         UNCHANGED <<held, emitted, others>>,
         held = <<>> => \A p \in pending' : p.kind = "search"
  PROVE  /\ output' = output /\ claimed' = claimed /\ known' = known
         /\ Unsaid' /\ Apart'
<1>1. output' = output /\ Delivery' = Delivery /\ claimed' = claimed /\ known' = known
  BY NothingReleased
<1>2. Unsaid'
  BY <1>1 DEF Waiting, Unsaid, Only
<1>3. Apart'
  BY <1>1 DEF Waiting, Apart, Remembered, Recorded, NewCalls, Emitted
<1> QED BY <1>1, <1>2, <1>3

-----------------------------------------------------------------------------
(* Steps before the end of the response.                                   *)

LEMMA StreamStarts == Init => StreamInv
<1> SUFFICES ASSUME Init PROVE StreamInv
  OBVIOUS
<1>1. Cardinality({}) = 0 /\ IsFiniteSet({})
  BY FS_EmptySet
<1>2. Delivery = <<>>
  BY DEF Init, Delivery
<1>3. Typed
  <2>1. pending = {} /\ IsFiniteSet(pending) /\ Cardinality(pending) = 0
    BY <1>1 DEF Init
  <2>2. emitted = <<>> /\ held = <<>> /\ output = <<>> /\ client = <<>>
    BY DEF Init
  <2>3. others \in [items : SUBSET ItemIds, indexes : SUBSET Indexes]
    BY DEF Init, NoItems
  <2>4. Len(emitted) + Cardinality(pending) <= MaxCalls /\ frames \in 0 .. MaxFrames
    BY <2>1, <2>2, StreamAssumption DEF Init
  <2>5. emitted \in Seq(Calls) /\ held \in Seq(Frames) /\ output \in Seq(Frames) /\ client \in Seq(Frames)
    BY <2>2
  <2> QED BY <2>1, <2>3, <2>4, <2>5 DEF Init, Typed
<1>4. Waiting
  BY <1>2 DEF Init, Waiting, Unsaid, Apart, Only, Remembered, Recorded, NewCalls, Traced,
     Introduced, Emitted, ToSet
<1> QED BY <1>3, <1>4 DEF StreamInv, Init

LEMMA CallAddedKeeps == StreamInv /\ CallAdded => StreamInv'
<1> SUFFICES ASSUME StreamInv, CallAdded PROVE StreamInv'
  OBVIOUS
<1>1. Typed /\ Waiting /\ Open /\ Reading /\ Capacity
  BY DEF StreamInv, CallAdded, Open
<1>2. PICK kind \in {"call", "search"}, loc \in Located, call \in CallIds \cup {Absent} :
        /\ pending' = pending \cup
             {[kind |-> kind, loc |-> loc, call |-> call, args |-> 0, given |-> FALSE, done |-> Absent]}
        /\ IF kind = "search" THEN Release(<<>>, FALSE) /\ UNCHANGED held
           ELSE Hold(Entry("added", kind, loc, call, 0))
        /\ Accepted /\ UNCHANGED <<phase, emitted, others>>
  BY DEF CallAdded
<1> DEFINE new == [kind |-> kind, loc |-> loc, call |-> call, args |-> 0, given |-> FALSE, done |-> Absent]
           e == Entry("added", kind, loc, call, 0)
<1>3. new \in PendingCalls /\ e \in Frames
  BY Locating DEF PendingCalls, Kinds, Arguments, Entry, Frames, Entries, CallFrames
<1>4. /\ pending' \subseteq PendingCalls /\ IsFiniteSet(pending')
      /\ Cardinality(pending') <= Cardinality(pending) + 1
  <2>1. pending \subseteq PendingCalls /\ IsFiniteSet(pending) /\ pending' = pending \cup {new}
    BY <1>1, <1>2 DEF Typed
  <2> HIDE DEF new
  <2>2. /\ IsFiniteSet(pending \cup {new})
        /\ Cardinality(pending \cup {new}) <= Cardinality(pending) + 1
    <3>1. /\ IsFiniteSet(pending \cup {new}) /\ Cardinality(pending) \in Nat
          /\ Cardinality(pending \cup {new}) =
               IF new \in pending THEN Cardinality(pending) ELSE Cardinality(pending) + 1
      BY <2>1, FS_AddElement, FS_CardinalityType
    <3> QED BY <3>1
  <2> QED BY <1>3, <2>1, <2>2
<1>5. Len(emitted') + Cardinality(pending') <= MaxCalls
  <2>1. Len(emitted) \in Nat /\ Cardinality(pending) \in Nat /\ Cardinality(pending') \in Nat
    BY <1>1, <1>4, FS_CardinalityType, LenProperties DEF Typed
  <2> QED BY <1>1, <1>2, <1>4, <2>1, StreamAssumption DEF Capacity
<1>6. CASE kind = "search"
  <2>1. Release(<<>>, FALSE) /\ held' = held /\ client' = client
    BY <1>2, <1>6 DEF Accepted
  <2>2. held = <<>> => \A p \in pending' : p.kind = "search"
    BY <1>1, <1>2, <1>6 DEF Waiting, Unsaid
  <2>3. output' = output /\ claimed' = claimed /\ known' = known /\ Unsaid' /\ Apart'
    BY <1>1, <1>2, <2>1, <2>2, NothingShown
  <2>4. Traced(held, pending') /\ Introduced(held, pending')
    BY <1>1, <1>2, <1>6 DEF Waiting, Traced, Introduced
  <2>5. Typed'
    BY <1>1, <1>2, <1>4, <1>5, <2>1, <2>3, StreamAssumption DEF Typed, Accepted, Reading
  <2>6. Waiting'
    BY <2>1, <2>3, <2>4 DEF Waiting, Traced, Introduced, AnsweredIn, FollowsIn
  <2> QED BY <1>1, <1>2, <2>5, <2>6, StillWaiting
<1>7. CASE kind # "search"
  <2>1. Hold(e) /\ client' = client /\ e.type = "added" /\ e.loc = loc /\ e.call = call
    BY <1>2, <1>7 DEF Accepted, Entry
  <2>2. /\ held' = Append(held, e) /\ held' \in Seq(Frames) /\ output' = output
        /\ claimed' = claimed /\ known' = known /\ Unsaid' /\ Apart'
    <3>1. e.type \in Shown /\ UNCHANGED <<emitted, others>>
      BY <1>2, <2>1 DEF Shown
    <3> HIDE DEF e
    <3> QED BY <1>1, <1>3, <2>1, <3>1, PieceHeld
  <2>3. held \in Seq(Frames) /\ new \in pending' /\ pending \subseteq pending'
    BY <1>1, <1>2 DEF Typed
  <2>4. Traced(held', pending')
    <3>1. Tracks(new, e)
      BY <1>7, <2>1, Locating DEF Tracks
    <3>2. \E q \in pending' : Tracks(q, e)
      BY <2>3, <3>1
    <3> HIDE DEF e, new
    <3> QED BY <1>1, <1>3, <2>2, <2>3, <3>2, TracedAppended DEF Waiting
  <2>5. Introduced(held', pending')
    <3>1. \A q \in pending' : q \in pending \/ q.loc = e.loc
      BY <1>2, <2>1
    <3> HIDE DEF e, new
    <3> QED BY <1>1, <1>3, <2>1, <2>2, <2>3, <3>1, IntroducedAppended DEF Waiting
  <2>6. Typed'
    BY <1>1, <1>2, <1>4, <1>5, <2>1, <2>2, StreamAssumption DEF Typed, Accepted, Reading
  <2>7. Waiting'
    BY <2>2, <2>4, <2>5 DEF Waiting, Traced, Introduced, AnsweredIn, FollowsIn
  <2> QED BY <1>1, <1>2, <2>6, <2>7, StillWaiting
<1> QED BY <1>6, <1>7

LEMMA Updated ==
  ASSUME Typed, NEW p \in pending, NEW q \in PendingCalls, Update(p, q)
  PROVE  /\ pending' \subseteq PendingCalls /\ IsFiniteSet(pending')
         /\ Cardinality(pending') <= Cardinality(pending)
         /\ Cardinality(pending') \in Nat /\ Cardinality(pending) \in Nat
         /\ q \in pending' /\ \A x \in pending : x # p => x \in pending'
         /\ \A x \in pending' : x \in pending \/ x = q
<1>1. pending \subseteq PendingCalls /\ IsFiniteSet(pending) /\ pending' = (pending \ {p}) \cup {q}
  BY DEF Typed, Update
<1>2. IsFiniteSet(pending \ {p}) /\ Cardinality(pending \ {p}) = Cardinality(pending) - 1
  BY <1>1, FS_RemoveElement
<1>3. /\ IsFiniteSet((pending \ {p}) \cup {q})
      /\ Cardinality((pending \ {p}) \cup {q}) = IF q \in pending \ {p} THEN Cardinality(pending \ {p})
                                                 ELSE Cardinality(pending \ {p}) + 1
  BY <1>2, FS_AddElement
<1>4. Cardinality(pending) \in Nat /\ Cardinality(pending') \in Nat
  BY <1>1, <1>3, FS_CardinalityType
<1> QED BY <1>1, <1>2, <1>3, <1>4

(* A pending call that learns more keeps what was shown of it.             *)
LEMMA UpdateKeeps ==
  ASSUME StreamInv, Open, Reading, Accepted, UNCHANGED <<phase, emitted, others>>,
         NEW loc \in Located, NEW p \in Matching(loc), NEW q \in PendingCalls, Update(p, q),
         q.kind = p.kind, q.loc = p.loc, q.call = p.call,
         \A f \in Frames : f.type \in Shown /\ Tracks(p, f) => Tracks(q, f),
         NEW e \in Frames, e.type \in Shown, p.kind = "call" => Tracks(q, e),
         p.kind = "call" => e.type # "added",
         IF p.kind = "search" THEN Release(<<>>, FALSE) /\ UNCHANGED held ELSE Hold(e)
  PROVE  StreamInv'
<1>1. Typed /\ Waiting /\ p \in pending /\ p \in PendingCalls /\ client' = client
  BY DEF StreamInv, Open, Matching, Accepted, Typed
<1>2. /\ pending' \subseteq PendingCalls /\ IsFiniteSet(pending')
      /\ Cardinality(pending') <= Cardinality(pending)
      /\ Cardinality(pending') \in Nat /\ Cardinality(pending) \in Nat
      /\ q \in pending' /\ \A x \in pending : x # p => x \in pending'
      /\ \A x \in pending' : x \in pending \/ x = q
  BY <1>1, Updated
<1>3. Len(emitted') + Cardinality(pending') <= MaxCalls
  <2>1. Len(emitted) \in Nat
    BY <1>1, LenProperties DEF Typed
  <2> QED BY <1>1, <1>2, <2>1, StreamAssumption DEF Typed
<1>4. \A f \in Frames : f.type \in Shown =>
        \A x \in pending : Tracks(x, f) => \E y \in pending' : Tracks(y, f)
  BY <1>2
<1>5. held \in Seq(Frames) /\ \A i \in DOMAIN held : held[i] \in Frames
  BY <1>1, ElementOfSeq, LenProperties DEF Typed
<1>6. CASE p.kind = "search"
  <2>1. Release(<<>>, FALSE) /\ held' = held
    BY <1>6
  <2>2. held = <<>> => \A x \in pending' : x.kind = "search"
    BY <1>1, <1>2, <1>6 DEF Waiting, Unsaid
  <2>3. output' = output /\ claimed' = claimed /\ known' = known /\ Unsaid' /\ Apart'
    BY <1>1, <2>1, <2>2, NothingShown
  <2>4. Traced(held, pending')
    BY <1>1, <1>4, <1>5 DEF Waiting, Traced
  <2>5. Introduced(held, pending')
    BY <1>1, <1>2, <1>6 DEF Waiting, Introduced
  <2>6. Typed'
    BY <1>1, <1>2, <1>3, <2>1, <2>3, StreamAssumption DEF Typed, Accepted, Reading
  <2>7. Waiting'
    BY <2>1, <2>3, <2>4, <2>5 DEF Waiting, Traced, Introduced, AnsweredIn, FollowsIn
  <2> QED BY <2>6, <2>7, StillWaiting
<1>7. CASE p.kind # "search"
  <2>1. Hold(e) /\ p.kind = "call"
    BY <1>1, <1>7 DEF PendingCalls, Kinds
  <2>2. /\ held' = Append(held, e) /\ held' \in Seq(Frames) /\ output' = output
        /\ claimed' = claimed /\ known' = known /\ Unsaid' /\ Apart'
    BY <1>1, <2>1, PieceHeld
  <2>3. Traced(held', pending')
    <3>1. \E y \in pending' : Tracks(y, e)
      BY <1>2, <2>1
    <3> QED BY <1>1, <1>4, <1>5, <2>2, <3>1, TracedAppended DEF Waiting
  <2>4. Introduced(held', pending')
    <3>1. \A x \in pending' : x.kind = "call" => \E y \in pending : y.kind = "call" /\ y.loc = x.loc
      BY <1>1, <1>2
    <3> QED BY <1>1, <1>5, <2>2, <3>1, IntroducedAppended DEF Waiting
  <2>5. Typed'
    BY <1>1, <1>2, <1>3, <2>2, StreamAssumption DEF Typed, Accepted, Reading
  <2>6. Waiting'
    BY <2>2, <2>3, <2>4 DEF Waiting, Traced, Introduced, AnsweredIn, FollowsIn
  <2> QED BY <2>5, <2>6, StillWaiting
<1> QED BY <1>6, <1>7

LEMMA ArgumentsDeltaKeeps == StreamInv /\ ArgumentsDelta => StreamInv'
<1> SUFFICES ASSUME StreamInv, ArgumentsDelta PROVE StreamInv'
  OBVIOUS
<1>1. Typed /\ Waiting /\ Open /\ Reading
  BY DEF StreamInv, ArgumentsDelta, Open
<1>2. PICK loc \in Located : \E p \in Matching(loc) :
        /\ p.kind = "call" => p.done = Absent
        /\ p.args + 1 \in Arguments
        /\ Update(p, [p EXCEPT !.args = @ + 1, !.given = TRUE])
        /\ IF p.kind = "search" THEN Release(<<>>, FALSE) /\ UNCHANGED held
           ELSE EmitOrHold(Entry("delta", p.kind, loc, Absent, 1))
        /\ Accepted /\ UNCHANGED <<phase, emitted, others>>
  BY DEF ArgumentsDelta
<1>3. PICK p \in Matching(loc) :
        /\ p.kind = "call" => p.done = Absent
        /\ p.args + 1 \in Arguments
        /\ Update(p, [p EXCEPT !.args = @ + 1, !.given = TRUE])
        /\ IF p.kind = "search" THEN Release(<<>>, FALSE) /\ UNCHANGED held
           ELSE EmitOrHold(Entry("delta", p.kind, loc, Absent, 1))
        /\ Accepted /\ UNCHANGED <<phase, emitted, others>>
  BY <1>2
<1> DEFINE q == [p EXCEPT !.args = @ + 1, !.given = TRUE]
           e == Entry("delta", p.kind, loc, Absent, 1)
<1>4. p \in pending /\ p \in PendingCalls /\ SameLocator(p.loc, loc)
  BY <1>1 DEF Matching, Typed
<1>5. /\ q \in PendingCalls /\ q.kind = p.kind /\ q.loc = p.loc /\ q.call = p.call
      /\ q.done = p.done /\ q.given /\ q.args = p.args + 1 /\ p.args \in Nat
  <2>1. p.args \in Nat
    BY <1>4 DEF PendingCalls, Arguments
  <2>2. q = [p EXCEPT !.args = p.args + 1, !.given = TRUE]
    BY <1>4 DEF PendingCalls
  <2>3. q \in PendingCalls
    BY <1>3, <1>4, <2>2 DEF PendingCalls
  <2> QED BY <1>4, <2>1, <2>2, <2>3 DEF PendingCalls
<1>6. e \in Frames /\ e.type = "delta" /\ e.loc = loc /\ e.args = 1
  BY <1>4, Locating DEF Entry, Frames, Entries, CallFrames, Arguments, PendingCalls
<1>7. \A f \in Frames : f.type \in Shown /\ Tracks(p, f) => Tracks(q, f)
  <2> SUFFICES ASSUME NEW f \in Frames, f.type \in Shown, Tracks(p, f) PROVE Tracks(q, f)
    OBVIOUS
  <2>1. f.args \in Nat
    BY DEF Frames, Entries, Commits, Shown, Arguments
  <2> HIDE DEF q
  <2> QED BY <1>3, <1>5, <2>1 DEF Tracks
<1>8. p.kind = "call" => Tracks(q, e)
  <2> HIDE DEF q, e
  <2> QED BY <1>4, <1>5, <1>6, SameIsSymmetric DEF Tracks
<1>9. IF p.kind = "search" THEN Release(<<>>, FALSE) /\ UNCHANGED held ELSE Hold(e)
  <2>1. p.kind # "search" => p.kind = "call"
    BY <1>4 DEF PendingCalls, Kinds
  <2>2. p.kind = "call" => held # <<>>
    BY <1>1, <1>4 DEF Waiting, Unsaid
  <2> QED BY <1>3, <2>1, <2>2 DEF EmitOrHold
<1> HIDE DEF q, e
<1>10. Update(p, q) /\ Accepted /\ UNCHANGED <<phase, emitted, others>> /\ e.type \in Shown
  BY <1>3, <1>6 DEF q, Shown
<1> QED BY <1>1, <1>5, <1>6, <1>7, <1>8, <1>9, <1>10, UpdateKeeps

LEMMA ArgumentsDoneKeeps == StreamInv /\ ArgumentsDone => StreamInv'
<1> SUFFICES ASSUME StreamInv, ArgumentsDone PROVE StreamInv'
  OBVIOUS
<1>1. Typed /\ Waiting /\ Open /\ Reading
  BY DEF StreamInv, ArgumentsDone, Open
<1>2. PICK loc \in Located : \E p \in Matching(loc), args \in Arguments :
        /\ p.done = Absent
        /\ p.kind = "call" /\ p.given => p.args = args
        /\ Update(p, IF p.kind = "search" THEN [p EXCEPT !.done = args]
                     ELSE [p EXCEPT !.done = args, !.args = args, !.given = TRUE])
        /\ IF p.kind = "search" THEN Release(<<>>, FALSE) /\ UNCHANGED held
           ELSE Hold(Entry("arguments", p.kind, loc, Absent, args))
        /\ Accepted /\ UNCHANGED <<phase, emitted, others>>
  BY DEF ArgumentsDone
<1>3. PICK p \in Matching(loc), args \in Arguments :
        /\ p.done = Absent
        /\ p.kind = "call" /\ p.given => p.args = args
        /\ Update(p, IF p.kind = "search" THEN [p EXCEPT !.done = args]
                     ELSE [p EXCEPT !.done = args, !.args = args, !.given = TRUE])
        /\ IF p.kind = "search" THEN Release(<<>>, FALSE) /\ UNCHANGED held
           ELSE Hold(Entry("arguments", p.kind, loc, Absent, args))
        /\ Accepted /\ UNCHANGED <<phase, emitted, others>>
  BY <1>2
<1> DEFINE q == IF p.kind = "search" THEN [p EXCEPT !.done = args]
                ELSE [p EXCEPT !.done = args, !.args = args, !.given = TRUE]
           e == Entry("arguments", p.kind, loc, Absent, args)
<1>4. p \in pending /\ p \in PendingCalls /\ SameLocator(p.loc, loc)
  BY <1>1 DEF Matching, Typed
<1>5. /\ q \in PendingCalls /\ q.kind = p.kind /\ q.loc = p.loc /\ q.call = p.call
      /\ q.done = args /\ args # Absent
      /\ p.kind = "call" => q.given /\ q.args = args
  BY <1>4, StreamAssumption DEF PendingCalls, Arguments
<1>6. e \in Frames /\ e.type = "arguments" /\ e.loc = loc /\ e.args = args
  BY <1>4, Locating DEF Entry, Frames, Entries, CallFrames, Arguments, PendingCalls
<1>7. \A f \in Frames : f.type \in Shown /\ Tracks(p, f) => Tracks(q, f)
  <2> SUFFICES ASSUME NEW f \in Frames, f.type \in Shown, Tracks(p, f) PROVE Tracks(q, f)
    OBVIOUS
  <2> HIDE DEF q
  <2> QED BY <1>3, <1>5 DEF Tracks
<1>8. p.kind = "call" => Tracks(q, e)
  <2> HIDE DEF q, e
  <2> QED BY <1>4, <1>5, <1>6, SameIsSymmetric DEF Tracks
<1>9. IF p.kind = "search" THEN Release(<<>>, FALSE) /\ UNCHANGED held ELSE Hold(e)
  BY <1>3
<1> HIDE DEF q, e
<1>10. Update(p, q) /\ Accepted /\ UNCHANGED <<phase, emitted, others>> /\ e.type \in Shown
  BY <1>3, <1>6 DEF q, Shown
<1> QED BY <1>1, <1>5, <1>6, <1>7, <1>8, <1>9, <1>10, UpdateKeeps

LEMMA EmittedAppended ==
  ASSUME Typed, NEW c \in Calls, emitted' = Append(emitted, c)
  PROVE  /\ emitted' \in Seq(Calls) /\ Len(emitted') = Len(emitted) + 1 /\ Len(emitted) \in Nat
         /\ Emitted \subseteq Calls /\ Emitted' = Emitted \cup {c}
<1>1. emitted \in Seq(Calls)
  BY DEF Typed
<1>2. /\ Append(emitted, c) \in Seq(Calls) /\ Len(emitted) \in Nat
      /\ DOMAIN emitted = 1 .. Len(emitted)
      /\ DOMAIN Append(emitted, c) = 1 .. Len(emitted) + 1
      /\ Len(Append(emitted, c)) = Len(emitted) + 1
      /\ \A i \in DOMAIN emitted : emitted[i] \in Calls /\ Append(emitted, c)[i] = emitted[i]
      /\ Append(emitted, c)[Len(emitted) + 1] = c
  BY <1>1
<1>3. \A i : i \in 1 .. Len(emitted) + 1 <=> i \in 1 .. Len(emitted) \/ i = Len(emitted) + 1
  BY <1>2
<1> QED BY <1>2, <1>3 DEF Emitted, ToSet

(* The calls completed so far are told apart by what Identified asks.      *)
LEMMA CallDoneApart ==
  ASSUME Typed, Waiting, NEW loc \in Located, NEW kind \in Kinds, NEW call \in CallIds,
         NEW args \in Arguments, Authorized(loc, call, args), Identified(loc),
         loc.index \notin IndexesOf(Emitted) \cup {Absent}, call \notin CallsOf(Emitted),
         emitted' = Append(emitted, [kind |-> kind, loc |-> loc, call |-> call, args |-> args]),
         Hold(Entry("done", kind, loc, call, args)), UNCHANGED <<others, client>>
  PROVE  Unsaid' /\ Apart' /\ Entry("done", kind, loc, call, args) \in Frames
<1> DEFINE c == [kind |-> kind, loc |-> loc, call |-> call, args |-> args]
           e == Entry("done", kind, loc, call, args)
<1>1. c \in Calls /\ c.loc = loc /\ c.call = call
  BY DEF Calls
<1>2. e \in Frames /\ e.type = "done" /\ e.loc = loc /\ e.call = call
  BY Locating DEF Entry, Frames, Entries, CallFrames, Kinds
<1>3. /\ Emitted \subseteq Calls /\ Emitted' = Emitted \cup {c}
  <2> HIDE DEF c
  <2> QED BY <1>1, EmittedAppended DEF c
<1>4. /\ held' = Append(held, e) /\ held' \in Seq(Frames) /\ held' # <<>>
      /\ output' = output /\ Delivery' = Delivery /\ claimed' = claimed /\ known' = known
      /\ held \in Seq(Frames)
  <2>1. Hold(e) /\ client' = client
    OBVIOUS
  <2> HIDE DEF e
  <2> QED BY <1>2, <2>1, OneHeld DEF Typed
<1> HIDE DEF c, e
<1>5. Unsaid'
  <2>1. Only(Append(held, e), Passing \cup CallFrames)
    BY <1>2, <1>4, OnlyAppended DEF Waiting, Unsaid, CallFrames
  <2> QED BY <1>4, <2>1 DEF Waiting, Unsaid, Only
<1>6. \A d \in Emitted : /\ d.call # call /\ d.loc.index # loc.index
                         /\ ~Agree(d.loc.item, loc.item)
  <2> SUFFICES ASSUME NEW d \in Emitted
               PROVE  d.call # call /\ d.loc.index # loc.index /\ ~Agree(d.loc.item, loc.item)
    OBVIOUS
  <2>1. d.call \in CallIds /\ d.call # Absent
    BY <1>3, StreamAssumption DEF Calls
  <2>2. d.loc.index # Absent
    BY DEF Waiting, Apart
  <2>3. d.call # call
    BY <2>1 DEF CallsOf
  <2>4. d.loc.index # loc.index
    BY <2>2 DEF IndexesOf
  <2>5. ~Agree(d.loc.item, loc.item)
    BY DEF Identified, ItemsOf, Agree
  <2> QED BY <2>3, <2>4, <2>5
<1>7. NewCalls(held)'
  <2>1. \A i \in DOMAIN held : held[i].type = "done" =>
          /\ held[i].call # e.call /\ held[i].loc.index # e.loc.index
          /\ ~Agree(held[i].loc.item, e.loc.item)
    BY <1>2, <1>6 DEF Waiting, Apart, Recorded
  <2>2. e.call \notin ReservedCalls /\ e.loc.item \notin ReservedItems
    BY <1>2 DEF Authorized
  <2>3. NewCalls(Append(held, e))
    BY <1>2, <1>4, <2>1, <2>2, NewCallsAppended DEF Waiting, Apart
  <2> QED BY <1>4, <2>3 DEF NewCalls
<1>8. Recorded'
  <2> SUFFICES ASSUME NEW i \in DOMAIN held', held'[i].type = "done"
               PROVE  \E d \in Emitted' : d.loc = held'[i].loc /\ d.call = held'[i].call
    BY DEF Recorded
  <2>1. CASE i \in DOMAIN held
    BY <1>2, <1>3, <1>4, <2>1, Appended DEF Waiting, Apart, Recorded
  <2>2. CASE i = Len(held) + 1
    BY <1>1, <1>2, <1>3, <1>4, <2>2, Appended
  <2>3. i \in DOMAIN held \/ i = Len(held) + 1
    BY <1>2, <1>4, Appended
  <2> QED BY <2>1, <2>2, <2>3
<1>9. Remembered(Delivery)' /\ Remembered(held)'
  BY <1>2, <1>4, RememberedAppended DEF Waiting, Apart, Remembered
<1>10. \A d \in Emitted' : /\ d.loc.item \notin others'.items
                           /\ d.loc.index \notin others'.indexes \cup {Absent}
  BY <1>1, <1>3 DEF Waiting, Apart, Identified
<1> QED BY <1>2, <1>5, <1>7, <1>8, <1>9, <1>10 DEF Apart, e

(* The completed call answers what was shown of the pending call it ends.  *)
LEMMA CallDoneAnswers ==
  ASSUME Typed, Waiting, NEW loc, NEW call, NEW args, NEW e \in Frames,
         NEW p \in Matching(loc), p.kind = "call", Continues(p, "call", call, args),
         e.type = "done", e.kind = "call", e.loc = loc, e.call = call, e.args = args,
         NEW i \in DOMAIN held, held[i].type \in Shown, Tracks(p, held[i])
  PROVE  AnsweredIn(Append(held, e), i)
<1>1. held \in Seq(Frames) /\ p \in pending /\ SameLocator(p.loc, loc)
  BY DEF Typed, Matching
<1> DEFINE s == Append(held, e)
<1>2. /\ s[i] = held[i] /\ i \in DOMAIN s /\ Len(held) + 1 \in DOMAIN s /\ Len(held) + 1 > i
      /\ s[Len(held) + 1] = e /\ \A k \in DOMAIN held : s[k] = held[k] /\ k \in DOMAIN s
  BY <1>1, Appended
<1>3. PICK k \in DOMAIN held : held[k].type = "added" /\ held[k].loc = p.loc
  BY <1>1 DEF Waiting, Introduced
<1> HIDE DEF s
<1>4. FollowsIn(s, e, held[i])
  BY <1>1, <1>2, <1>3 DEF FollowsIn, Tracks
<1>5. Matches(held[i], e)
  BY DEF Matches, Tracks, Continues
<1>6. AnsweredIn(s, i)
  BY <1>2, <1>4, <1>5 DEF AnsweredIn
<1> QED BY <1>6 DEF s

LEMMA CallDoneKeeps == StreamInv /\ CallDone => StreamInv'
<1> SUFFICES ASSUME StreamInv, CallDone PROVE StreamInv'
  OBVIOUS
<1>1. Typed /\ Waiting /\ Open /\ Reading
  BY DEF StreamInv, CallDone, Open
<1>2. PICK loc \in Located, kind \in {"call", "search"}, call \in CallIds, args \in Arguments :
        /\ Authorized(loc, call, args)
        /\ Identified(loc) /\ loc.index \notin IndexesOf(Emitted) \cup {Absent}
        /\ call \notin CallsOf(Emitted)
        /\ \A p \in Matching(loc) : Continues(p, kind, call, args)
        /\ Matching(loc) = {} => Capacity
        /\ pending' = pending \ Matching(loc)
        /\ emitted' = Append(emitted, [kind |-> kind, loc |-> loc, call |-> call, args |-> args])
        /\ Hold(Entry("done", kind, loc, call, args))
        /\ Accepted /\ UNCHANGED <<phase, others>>
  BY DEF CallDone
<1> DEFINE c == [kind |-> kind, loc |-> loc, call |-> call, args |-> args]
           e == Entry("done", kind, loc, call, args)
<1>3. Unsaid' /\ Apart' /\ e \in Frames
  BY <1>1, <1>2, CallDoneApart DEF Kinds, Accepted
<1>4. c \in Calls /\ e.type = "done" /\ e.kind = kind /\ e.loc = loc /\ e.call = call /\ e.args = args
  BY DEF Calls, Kinds, Entry
<1>5. Hold(e) /\ emitted' = Append(emitted, c) /\ client' = client
  BY <1>2 DEF Accepted
<1> HIDE DEF c, e
<1>6. emitted' \in Seq(Calls) /\ Len(emitted') = Len(emitted) + 1 /\ Len(emitted) \in Nat
  BY <1>1, <1>4, <1>5, EmittedAppended
<1>7. /\ held' = Append(held, e) /\ held' \in Seq(Frames) /\ output' = output
      /\ claimed' = claimed /\ known' = known /\ held \in Seq(Frames)
  BY <1>1, <1>3, <1>5, OneHeld DEF Typed
<1>8. pending' \subseteq PendingCalls /\ IsFiniteSet(pending') /\ pending' \subseteq pending
      /\ Len(emitted') + Cardinality(pending') <= MaxCalls
  <2>1. pending' \subseteq pending /\ IsFiniteSet(pending) /\ pending \subseteq PendingCalls
    BY <1>1, <1>2 DEF Typed
  <2>2. /\ IsFiniteSet(pending') /\ Cardinality(pending') <= Cardinality(pending)
        /\ Cardinality(pending) = Cardinality(pending') => pending = pending'
    BY <2>1, FS_Subset
  <2>3. Cardinality(pending) \in Nat /\ Cardinality(pending') \in Nat
    BY <2>1, <2>2, FS_CardinalityType
  <2>4. CASE Matching(loc) = {}
    BY <1>2, <1>6, <2>1, <2>2, <2>3, <2>4, StreamAssumption DEF Capacity
  <2>5. CASE Matching(loc) # {}
    <3>1. pending' # pending
      BY <1>2, <2>5 DEF Matching
    <3>2. Cardinality(pending') < Cardinality(pending)
      BY <2>2, <2>3, <3>1
    <3> QED BY <1>1, <1>6, <2>1, <2>2, <2>3, <3>2, StreamAssumption DEF Typed
  <2> QED BY <2>1, <2>2, <2>4, <2>5
<1>9. Traced(held', pending')
  <2>1. ASSUME NEW i \in DOMAIN held, held[i].type \in Shown, NEW p \in pending, Tracks(p, held[i])
        PROVE  (\E q \in pending' : Tracks(q, held[i])) \/ AnsweredIn(Append(held, e), i)
    <3>1. CASE p \in Matching(loc)
      <4>1. p.kind = "call" /\ kind = "call" /\ Continues(p, "call", call, args)
        BY <1>2, <2>1, <3>1 DEF Tracks, Continues
      <4> QED BY <1>1, <1>3, <1>4, <2>1, <3>1, <4>1, CallDoneAnswers
    <3>2. CASE p \notin Matching(loc)
      BY <1>2, <2>1, <3>2
    <3> QED BY <3>1, <3>2
  <2>2. e.type \notin Shown
    BY <1>4 DEF Shown
  <2> QED BY <1>1, <1>3, <1>7, <2>1, <2>2, TracedAppended DEF Waiting
<1>10. Introduced(held', pending')
  BY <1>1, <1>3, <1>7, <1>8, IntroducedAppended DEF Waiting
<1>11. Typed'
  BY <1>1, <1>2, <1>6, <1>7, <1>8, StreamAssumption DEF Typed, Accepted, Reading
<1>12. Waiting'
  BY <1>3, <1>7, <1>9, <1>10 DEF Waiting, Traced, Introduced, AnsweredIn, FollowsIn
<1> QED BY <1>1, <1>2, <1>11, <1>12, StillWaiting

(* A frame that is no part of a call joins the delivery, or the held ones. *)
LEMMA PassedOn ==
  ASSUME Typed, Waiting, NEW e \in Frames, e.type \in Passing, EmitOrHold(e),
         UNCHANGED <<client, pending, emitted>>,
         others.items \subseteq others'.items, others.indexes \subseteq others'.indexes,
         e.type \in {"other", "otherDone"} =>
           e.loc.item \in others'.items \cup {Absent} /\ e.loc.index \in others'.indexes \cup {Absent},
         \A c \in Emitted : /\ c.loc.item \notin others'.items
                            /\ c.loc.index \notin others'.indexes \cup {Absent}
  PROVE  /\ Waiting' /\ held' \in Seq(Frames) /\ output' \in Seq(Frames)
         /\ claimed' = claimed /\ known' = known
<1>1. /\ held' \in Seq(Frames) /\ output' \in Seq(Frames) /\ Delivery \in Seq(Frames)
      /\ claimed' = claimed /\ known' = known /\ held \in Seq(Frames)
  BY EmittedOrHeld DEF Typed
<1>2. e.type \in Passing \cup CallFrames /\ e.type # "done" /\ e.type # "added" /\ e.type \notin Shown
  BY DEF Passing, CallFrames, Shown
<1>3. CASE held = <<>> /\ held' = held /\ Delivery' = Append(Delivery, e)
  <2>1. Only(Append(Delivery, e), Passing)
    BY <1>1, OnlyAppended DEF Waiting, Unsaid
  <2>2. Unsaid'
    BY <1>1, <1>3, <2>1 DEF Waiting, Unsaid, Only
  <2>3. Remembered(Delivery)' /\ Remembered(held)'
    BY <1>1, <1>3, RememberedAppended DEF Waiting, Apart, Remembered
  <2>4. Apart'
    BY <1>3, <2>3 DEF Waiting, Apart, Recorded, NewCalls, Emitted
  <2>5. Traced(held, pending)'
    BY <1>3 DEF Waiting, Traced, AnsweredIn, FollowsIn
  <2>6. Introduced(held, pending)'
    BY <1>3 DEF Waiting, Introduced
  <2> QED BY <2>2, <2>4, <2>5, <2>6, <1>1 DEF Waiting
<1>4. CASE held' = Append(held, e) /\ held' # <<>> /\ Delivery' = Delivery
  <2>1. Only(Append(held, e), Passing \cup CallFrames)
    BY <1>1, <1>2, OnlyAppended DEF Waiting, Unsaid
  <2>2. Unsaid'
    BY <1>1, <1>4, <2>1 DEF Waiting, Unsaid, Only
  <2>3. Remembered(Delivery)' /\ Remembered(held)'
    BY <1>1, <1>4, RememberedAppended DEF Waiting, Apart, Remembered
  <2>4. NewCalls(Append(held, e))
    BY <1>1, <1>2, NewCallsAppended DEF Waiting, Apart
  <2>5. Recorded'
    BY SMTT(30), <1>1, <1>2, <1>4, Appended DEF Waiting, Apart, Recorded, Emitted
  <2>6. Apart'
    BY <1>4, <2>3, <2>4, <2>5 DEF Waiting, Apart, NewCalls, Emitted
  <2>7. Traced(Append(held, e), pending)
    BY <1>1, <1>2, TracedAppended DEF Waiting
  <2>8. Introduced(Append(held, e), pending)
    BY <1>1, IntroducedAppended DEF Waiting
  <2>9. Traced(held, pending)'
    BY <1>4, <2>7 DEF Traced, AnsweredIn, FollowsIn
  <2>10. Introduced(held, pending)'
    BY <1>4, <2>8 DEF Introduced
  <2> QED BY <1>1, <2>2, <2>6, <2>9, <2>10 DEF Waiting
<1> QED BY <1>1, <1>3, <1>4, EmittedOrHeld

LEMMA OtherItemKeeps == StreamInv /\ OtherItem => StreamInv'
<1> SUFFICES ASSUME StreamInv, OtherItem PROVE StreamInv'
  OBVIOUS
<1>1. Typed /\ Waiting /\ Open /\ Reading
  BY DEF StreamInv, OtherItem, Open
<1>2. PICK type \in {"other", "otherDone"}, loc \in OtherLocators :
        /\ loc.item \notin ItemsOf(Emitted \cup pending)
        /\ loc.index \notin IndexesOf(Emitted \cup pending)
        /\ others' = [items |-> others.items \cup ({loc.item} \ {Absent}),
                      indexes |-> others.indexes \cup ({loc.index} \ {Absent})]
        /\ EmitOrHold(Entry(type, "none", loc, Absent, 0))
        /\ Accepted /\ UNCHANGED <<phase, pending, emitted>>
  BY DEF OtherItem
<1> DEFINE e == Entry(type, "none", loc, Absent, 0)
<1>3. e \in Frames /\ e.type = type /\ e.loc = loc
  BY DEF Entry, Frames, Entries, Passing, Arguments
<1>4. loc \in [item : ItemIds \cup {Absent}, index : Indexes \cup {Absent}]
  BY StreamAssumption
<1>5. /\ others' \in [items : SUBSET ItemIds, indexes : SUBSET Indexes]
      /\ others.items \subseteq others'.items /\ others.indexes \subseteq others'.indexes
      /\ e.loc.item \in others'.items \cup {Absent} /\ e.loc.index \in others'.indexes \cup {Absent}
  <2>1. others.items \subseteq ItemIds /\ others.indexes \subseteq Indexes
    BY <1>1 DEF Typed
  <2> HIDE DEF e
  <2> QED BY <1>2, <1>3, <1>4, <2>1
<1>6. \A c \in Emitted : /\ c.loc.item \notin others'.items
                         /\ c.loc.index \notin others'.indexes \cup {Absent}
  BY <1>1, <1>2 DEF Waiting, Apart, ItemsOf, IndexesOf
<1>7. e.type \in Passing /\ EmitOrHold(e) /\ UNCHANGED <<client, pending, emitted>>
  BY <1>2, <1>3 DEF Passing, Accepted
<1> HIDE DEF e
<1>8. /\ Waiting' /\ held' \in Seq(Frames) /\ output' \in Seq(Frames)
      /\ claimed' = claimed /\ known' = known
  BY <1>1, <1>3, <1>5, <1>6, <1>7, PassedOn
<1>9. Typed'
  BY <1>1, <1>2, <1>5, <1>8, StreamAssumption DEF Typed, Accepted, Reading
<1> QED BY <1>1, <1>2, <1>8, <1>9, StillWaiting

-----------------------------------------------------------------------------
(* The end of the response.                                                *)

(* A frame that says nothing follows the terminal event.                   *)
LEMMA MoreAfterTheEnd ==
  ASSUME Typed, Over, NEW e \in Frames, e.type \in {"raw", "mark"}, Release(<<e>>, FALSE),
         UNCHANGED <<client, pending, held>>
  PROVE  Over' /\ output' \in Seq(Frames) /\ claimed' = claimed /\ known' = known
<1>1. /\ output' = Append(output, e) /\ output' \in Seq(Frames)
      /\ Delivery \in Seq(Frames) /\ Delivery' = Append(Delivery, e)
      /\ claimed' = claimed /\ known' = known /\ output \in Seq(Frames)
  BY OneReleased DEF Typed
<1>2. /\ EndedIn(Append(Delivery, e)) /\ DistinctIn(Append(Delivery, e))
      /\ Has(Append(Delivery, e), Terminals \cup {"error"})
  BY <1>1, PlainAppended DEF Over
<1>3. /\ CommittedIn(Append(output, e)) /\ AnnouncedIn(Append(output, e))
      /\ Has(Append(output, e), Terminals) = Has(output, Terminals)
  <2>1. e.type \notin Terminals
    BY DEF Terminals
  <2>2. Has(Append(output, e), Terminals) <=> Has(output, Terminals)
    BY <1>1, <2>1, PlainAppended
  <2>3. Has(Append(output, e), Terminals) \in BOOLEAN /\ Has(output, Terminals) \in BOOLEAN
    BY DEF Has
  <2>4. Has(Append(output, e), Terminals) = Has(output, Terminals)
    BY <2>2, <2>3
  <2> QED BY <1>1, <2>4, PlainAppended DEF Over
<1>4. EndedIn(Delivery)' /\ Has(Delivery, Terminals \cup {"error"})'
  BY <1>1, <1>2 DEF EndedIn, Has
<1>5. DistinctIn(Delivery)'
  BY <1>1, <1>2 DEF DistinctIn, NewCalls
<1>6. CommittedIn(output)' /\ Has(output, Terminals)' = Has(output, Terminals)
  BY <1>1, <1>3 DEF CommittedIn, Has
<1>7. AnnouncedIn(output)'
  BY <1>1, <1>3 DEF AnnouncedIn, AnsweredIn, FollowsIn
<1>8. CommittedIn(client)' /\ Has(client, Terminals)' = Has(client, Terminals)
  BY DEF Over, CommittedIn, Has
<1>9. AnnouncedIn(client)'
  BY DEF Over, AnnouncedIn, AnsweredIn, FollowsIn
<1> QED BY <1>1, <1>4, <1>5, <1>6, <1>7, <1>8, <1>9 DEF Over

LEMMA RawKeeps == StreamInv /\ Raw => StreamInv'
<1> SUFFICES ASSUME StreamInv, Raw PROVE StreamInv'
  OBVIOUS
<1> DEFINE e == Plain("raw")
<1>1. Typed /\ Reading /\ EmitOrHold(e) /\ Accepted /\ UNCHANGED <<phase, pending, emitted, others>>
  BY DEF StreamInv, Raw
<1>2. e \in Frames /\ e.type = "raw"
  BY DEF Plain, Entry, Frames, Entries, Passing, Arguments
<1> HIDE DEF e
<1>3. CASE phase = "open"
  <2>1. Waiting
    BY <1>3 DEF StreamInv
  <2>2. /\ Waiting' /\ held' \in Seq(Frames) /\ output' \in Seq(Frames)
        /\ claimed' = claimed /\ known' = known
    BY <1>1, <1>2, <2>1, PassedOn DEF Passing, Accepted, Waiting, Apart
  <2>3. Typed'
    BY <1>1, <2>2, StreamAssumption DEF Typed, Accepted, Reading
  <2> QED BY <1>1, <1>3, <2>2, <2>3, StillWaiting DEF Open
<1>4. CASE phase = "terminal"
  <2>1. Over /\ Release(<<e>>, FALSE) /\ held' = held
    BY <1>1, <1>4 DEF StreamInv, Over, EmitOrHold
  <2>2. Over' /\ output' \in Seq(Frames) /\ claimed' = claimed /\ known' = known
    BY <1>1, <1>2, <2>1, MoreAfterTheEnd DEF Accepted
  <2>3. Typed'
    BY <1>1, <2>1, <2>2, StreamAssumption DEF Typed, Accepted, Reading
  <2> QED BY <1>1, <1>4, <2>2, <2>3 DEF StreamInv
<1>5. phase \in {"open", "terminal"}
  BY <1>1 DEF Raw, Typed, Reading
<1> QED BY <1>3, <1>4, <1>5

LEMMA DoneMarkerKeeps == StreamInv /\ DoneMarker => StreamInv'
<1> SUFFICES ASSUME StreamInv, DoneMarker PROVE StreamInv'
  OBVIOUS
<1> DEFINE e == Plain("mark")
<1>1. /\ Typed /\ Over /\ Reading /\ phase = "terminal" /\ phase' = "marked"
      /\ Release(<<e>>, FALSE) /\ Accepted /\ UNCHANGED rewriter
  BY DEF StreamInv, DoneMarker
<1>2. e \in Frames /\ e.type = "mark"
  BY DEF Plain, Entry, Frames, Entries, Arguments
<1> HIDE DEF e
<1>3. Over' /\ output' \in Seq(Frames) /\ claimed' = claimed /\ known' = known
  BY <1>1, <1>2, MoreAfterTheEnd DEF Accepted, rewriter
<1>4. Typed'
  BY <1>1, <1>3, StreamAssumption DEF Typed, Accepted, Reading, rewriter
<1> QED BY <1>1, <1>3, <1>4 DEF StreamInv

LEMMA HasJoined ==
  ASSUME NEW s \in Seq(Frames), NEW t \in Seq(Frames), NEW types
  PROVE  Has(s \o t, types) <=> Has(s, types) \/ Has(t, types)
<1>1. Has(s, types) => Has(s \o t, types)
  BY Joined DEF Has
<1>2. Has(t, types) => Has(s \o t, types)
  <2> SUFFICES ASSUME NEW k \in DOMAIN t, t[k].type \in types PROVE Has(s \o t, types)
    BY DEF Has
  <2>1. Len(s) + k \in DOMAIN (s \o t) /\ (s \o t)[Len(s) + k] = t[k]
    BY Joined
  <2> QED BY <2>1 DEF Has
<1>3. Has(s \o t, types) => Has(s, types) \/ Has(t, types)
  <2> SUFFICES ASSUME NEW i \in DOMAIN (s \o t), (s \o t)[i].type \in types
               PROVE  Has(s, types) \/ Has(t, types)
    BY DEF Has
  <2>1. CASE i \in DOMAIN s
    BY <2>1, Joined DEF Has
  <2>2. CASE \E k \in DOMAIN t : i = Len(s) + k
    BY <2>2, Joined DEF Has
  <2> QED BY <2>1, <2>2, FromOneSide
<1> QED BY <1>1, <1>2, <1>3

LEMMA OnlyParts ==
  ASSUME NEW s \in Seq(Frames), NEW t \in Seq(Frames), NEW types, Only(s \o t, types)
  PROVE  Only(s, types) /\ Only(t, types)
<1>1. Only(s, types)
  BY Joined DEF Only
<1>2. Only(t, types)
  <2> SUFFICES ASSUME NEW k \in DOMAIN t PROVE t[k].type \in types
    BY DEF Only
  <2>1. Len(s) + k \in DOMAIN (s \o t) /\ (s \o t)[Len(s) + k] = t[k]
    BY Joined
  <2> QED BY <2>1 DEF Only
<1> QED BY <1>1, <1>2

(* The held frames and the completed response are safe behind what has     *)
(* been released.                                                          *)
LEMMA CommitReleased ==
  ASSUME Typed, Waiting, pending = {}, NEW c \in Frames, c.type = "completed"
  PROVE  LET X == Append(held, c) IN
         /\ X \in Seq(Frames) /\ CommittedIn(X) /\ AnnouncedIn(X)
         /\ EndedIn(Delivery \o X) /\ DistinctIn(Delivery \o X) /\ Has(X, Terminals)
<1> DEFINE X == Append(held, c)
           L == Len(held) + 1
           D == Delivery \o X
<1>1. held \in Seq(Frames) /\ Delivery \in Seq(Frames)
  BY ConcatProperties DEF Typed, Delivery
<1>2. /\ X \in Seq(Frames) /\ L \in DOMAIN X /\ X[L] = c /\ X = held \o <<c>> /\ L \in Nat
      /\ \A i \in DOMAIN X : (i \in DOMAIN held /\ X[i] = held[i] /\ i < L) \/ i = L
      /\ \A i \in DOMAIN held : i \in DOMAIN X
  BY <1>1, Appended
<1>3. /\ Only(Delivery, Passing) /\ Only(held, Passing \cup CallFrames)
  BY DEF Waiting, Unsaid
<1> HIDE DEF X, L
<1>4. CommittedIn(X) /\ Has(X, Terminals)
  BY <1>2 DEF CommittedIn, Has, CallFrames, Terminals
<1>5. AnnouncedIn(X)
  <2>1. AnnouncedIn(held)
    BY DEF Waiting, Traced, AnnouncedIn
  <2>2. <<c>> \in Seq(Frames) /\ AnnouncedIn(<<c>>)
    BY DEF AnnouncedIn, Shown
  <2> QED BY <1>1, <1>2, <2>1, <2>2, AnnouncedJoined
<1> HIDE DEF D
<1>6. /\ Len(Delivery) \in Nat /\ DOMAIN Delivery = 1 .. Len(Delivery)
      /\ DOMAIN D = 1 .. Len(Delivery) + Len(X) /\ DOMAIN X = 1 .. Len(X)
      /\ \A i \in DOMAIN Delivery : D[i] = Delivery[i]
      /\ \A i \in DOMAIN X : D[Len(Delivery) + i] = X[i]
      /\ \A i \in DOMAIN D : \/ i \in DOMAIN Delivery
                             \/ \E k \in DOMAIN X : i = Len(Delivery) + k /\ i \notin DOMAIN Delivery
  <2>1. X \in Seq(Frames)
    BY <1>2
  <2>2. \A i \in DOMAIN D : \/ i \in DOMAIN Delivery
                             \/ \E k \in DOMAIN X : i = Len(Delivery) + k /\ i \notin DOMAIN Delivery
    BY <1>1, <2>1, FromOneSide DEF D
  <2>3. /\ Len(Delivery) \in Nat /\ DOMAIN Delivery = 1 .. Len(Delivery)
        /\ DOMAIN D = 1 .. Len(Delivery) + Len(X) /\ DOMAIN X = 1 .. Len(X)
        /\ \A i \in DOMAIN Delivery : D[i] = Delivery[i]
        /\ \A i \in DOMAIN X : D[Len(Delivery) + i] = X[i]
    BY <1>1, <2>1, Joined DEF D
  <2> QED BY <2>2, <2>3
<1>7. EndedIn(D)
  <2> SUFFICES ASSUME NEW i \in DOMAIN D, NEW j \in DOMAIN D, D[i].type \in Terminals, j > i
               PROVE  FALSE
    BY DEF EndedIn
  <2>1. i \notin DOMAIN Delivery
    BY <1>3, <1>6 DEF Only, Passing, Terminals
  <2>2. PICK k \in DOMAIN X : i = Len(Delivery) + k
    BY <1>6, <2>1
  <2>3. k = L
    BY <1>2, <1>3, <1>6, <2>2 DEF Only, Passing, CallFrames, Terminals
  <2>4. PICK m \in DOMAIN X : j = Len(Delivery) + m
    BY <1>6, <2>2
  <2>5. m > L
    BY <1>2, <1>6, <2>2, <2>3, <2>4
  <2> QED BY SMTT(30), <1>2, <1>6, <2>5
<1>8. DistinctIn(D)
  <2>1. ASSUME NEW i \in DOMAIN D, D[i].type = "done"
        PROVE  \E k \in DOMAIN held : i = Len(Delivery) + k /\ D[i] = held[k]
    <3>1. i \notin DOMAIN Delivery
      BY <1>3, <1>6, <2>1 DEF Only, Passing
    <3>2. PICK k \in DOMAIN X : i = Len(Delivery) + k
      BY <1>6, <3>1
    <3>3. k \in DOMAIN held /\ X[k] = held[k]
      BY <1>2, <1>6, <2>1, <3>2
    <3> QED BY <1>6, <3>2, <3>3
  <2>2. NewCalls(D)
    BY <2>1 DEF Waiting, Apart, NewCalls
  <2>3. ASSUME NEW i \in DOMAIN D, NEW k \in DOMAIN D, D[i].type = "done",
               D[k].type \in {"other", "otherDone"}
        PROVE  ClashFree(D[i], D[k])
    <3>1. D[k].loc.item \in others.items \cup {Absent} /\ D[k].loc.index \in others.indexes \cup {Absent}
      <4>1. CASE k \in DOMAIN Delivery
        BY <1>6, <2>3, <4>1 DEF Waiting, Apart, Remembered
      <4>2. CASE \E m \in DOMAIN X : k = Len(Delivery) + m
        <5>1. PICK m \in DOMAIN X : k = Len(Delivery) + m
          BY <4>2
        <5>2. m \in DOMAIN held /\ X[m] = held[m]
          BY <1>2, <1>6, <2>3, <5>1
        <5> QED BY <1>6, <2>3, <5>1, <5>2 DEF Waiting, Apart, Remembered
      <4> QED BY <1>6, <4>1, <4>2
    <3>2. PICK e \in Emitted : e.loc = D[i].loc
      BY <2>1, <2>3 DEF Waiting, Apart, Recorded
    <3> QED BY <3>1, <3>2 DEF Waiting, Apart, ClashFree, Agree
  <2> QED BY <2>2, <2>3 DEF DistinctIn
<1> QED BY <1>2, <1>4, <1>5, <1>7, <1>8 DEF X, D

LEMMA ListingsTyped ==
  ASSUME Typed, NEW listing \in Listings
  PROVE  listing \in Seq(ListedCalls \cup {Absent})
<1> DEFINE calls == {[kind |-> e.kind, item |-> e.loc.item, call |-> e.call, args |-> a] :
                       e \in Emitted, a \in Arguments \ {0}}
<1>1. Cardinality(Indexes) \in Nat
  <2>1. IsFiniteSet(0 .. 1)
    <3>1. 0 \in Int /\ 1 \in Int
      OBVIOUS
    <3> QED BY <3>1, FS_Interval, Zenon
  <2> QED BY <2>1, FS_CardinalityType DEF Indexes
<1>2. Emitted \subseteq Calls
  <2>1. emitted \in Seq(Calls)
    BY DEF Typed
  <2> QED BY <2>1, ElementOfSeq, LenProperties DEF Emitted, ToSet
<1>3. calls \subseteq ListedCalls
  <2> SUFFICES ASSUME NEW e \in Emitted, NEW a \in Arguments \ {0}
               PROVE  [kind |-> e.kind, item |-> e.loc.item, call |-> e.call, args |-> a] \in ListedCalls
    OBVIOUS
  <2>1. e.kind \in Kinds /\ e.loc \in Located /\ e.call \in CallIds
    BY <1>2 DEF Calls
  <2>2. e.loc.item \in ItemIds \cup {Absent}
    BY <2>1, Locating
  <2> QED BY <2>1, <2>2 DEF ListedCalls
<1>4. PICK n \in 0 .. Cardinality(Indexes) : listing \in [1 .. n -> calls \cup {Absent}]
  BY DEF Listings
<1> HIDE DEF calls
<1>5. n \in Nat /\ listing \in [1 .. n -> ListedCalls \cup {Absent}]
  BY <1>1, <1>3, <1>4
<1> QED BY <1>5

LEMMA CompletedKeeps == StreamInv /\ Completed => StreamInv'
<1> SUFFICES ASSUME StreamInv, Completed PROVE StreamInv'
  OBVIOUS
<1>1. /\ Typed /\ Waiting /\ Reading /\ pending = {} /\ held' = <<>> /\ phase' = "terminal"
      /\ Accepted /\ UNCHANGED <<pending, emitted, others>>
  BY DEF StreamInv, Completed, Open
<1>2. PICK listing \in {Absent} \cup Listings :
        Release(Append(held, [type |-> "completed", listing |-> listing]), TRUE)
  BY DEF Completed
<1> DEFINE c == [type |-> "completed", listing |-> listing]
           X == Append(held, c)
<1>3. c \in Frames /\ c.type = "completed"
  BY <1>1, <1>2, ListingsTyped DEF Frames, Commits
<1> HIDE DEF c
<1>4. /\ X \in Seq(Frames) /\ CommittedIn(X) /\ AnnouncedIn(X)
      /\ EndedIn(Delivery \o X) /\ DistinctIn(Delivery \o X) /\ Has(X, Terminals)
  BY <1>1, <1>3, CommitReleased
<1>5. output' = output \o X /\ claimed' = (claimed \/ TRUE) /\ known' = known /\ client' = client
  BY <1>1, <1>2 DEF Release, Accepted, c
<1> HIDE DEF X
<1>6. /\ output' \in Seq(Frames) /\ Delivery \in Seq(Frames) /\ Delivery' = Delivery \o X
      /\ client \in Seq(Frames) /\ output \in Seq(Frames)
  BY <1>1, <1>4, <1>5, ReleasedJoins DEF Typed
<1>7. Only(client, Passing) /\ Only(output, Passing)
  BY <1>1, <1>6, OnlyParts DEF Waiting, Unsaid, Delivery
<1>8. /\ CommittedIn(client) /\ AnnouncedIn(client) /\ ~Has(client, Terminals)
      /\ CommittedIn(output) /\ AnnouncedIn(output)
  BY <1>7, PassingIsSafe
<1>9. CommittedIn(output \o X) /\ AnnouncedIn(output \o X)
  BY <1>4, <1>6, <1>8, CommittedJoined, AnnouncedJoined
<1>10. Has(output \o X, Terminals) /\ Has(Delivery \o X, Terminals)
  BY <1>4, <1>6, HasJoined
<1>11. known' = FALSE /\ claimed' = TRUE
  <2>1. known' = known /\ claimed' = (claimed \/ TRUE)
    BY <1>5
  <2>2. ~known /\ known \in BOOLEAN
    BY <1>1 DEF Waiting, Unsaid, Typed
  <2> QED BY <2>1, <2>2
<1>12. Has(client', Terminals) = FALSE /\ Has(output', Terminals) = TRUE
  BY <1>5, <1>8, <1>10 DEF Has
<1>13. /\ CommittedIn(client') /\ AnnouncedIn(client')
       /\ CommittedIn(output') /\ AnnouncedIn(output')
       /\ EndedIn(Delivery') /\ DistinctIn(Delivery') /\ Has(Delivery', Terminals \cup {"error"})
  <2>1. Has(Delivery \o X, Terminals \cup {"error"})
    BY <1>10 DEF Has
  <2> QED BY <1>4, <1>5, <1>6, <1>8, <1>9, <2>1
<1>14. Over'
  BY <1>1, <1>11, <1>12, <1>13 DEF Over
<1>15. Typed'
  BY <1>1, <1>5, <1>6, <1>11, StreamAssumption DEF Typed, Accepted, Reading
<1> QED BY <1>1, <1>14, <1>15 DEF StreamInv

LEMMA DroppedKeeps == StreamInv /\ Dropped => StreamInv'
<1> SUFFICES ASSUME StreamInv, Dropped PROVE StreamInv'
  OBVIOUS
<1>1. PICK type \in {"failed", "incomplete", "error"} :
        /\ pending' = {} /\ emitted' = <<>> /\ others' = NoItems /\ held' = <<>>
        /\ Release(<<Plain(type)>>, type # "error")
        /\ phase' = "terminal"
        /\ Accepted
  BY DEF Dropped
<1>2. Typed /\ Waiting /\ Reading
  BY DEF StreamInv, Dropped, Open
<1> DEFINE e == Plain(type)
<1>3. e \in Frames /\ e.type = type
  BY DEF Plain, Entry, Frames, Entries, Arguments
<1> HIDE DEF e
<1>4. <<e>> \in Seq(Frames) /\ output' = output \o <<e>> /\ client' = client
      /\ known' = known /\ claimed' = (claimed \/ type # "error")
  BY <1>1, <1>3 DEF Release, Accepted, e
<1>5. /\ output' \in Seq(Frames) /\ Delivery \in Seq(Frames) /\ Delivery' = Delivery \o <<e>>
      /\ client \in Seq(Frames) /\ output \in Seq(Frames)
  BY <1>2, <1>4, ReleasedJoins DEF Typed
<1>6. Delivery' = Append(Delivery, e) /\ output' = Append(output, e)
  BY <1>3, <1>4, <1>5, Appended
<1>7. Only(client, Passing) /\ Only(output, Passing)
  BY <1>2, <1>5, OnlyParts DEF Waiting, Unsaid, Delivery
<1>8. /\ CommittedIn(client) /\ AnnouncedIn(client) /\ ~Has(client, Terminals)
      /\ CommittedIn(output) /\ AnnouncedIn(output) /\ ~Has(output, Terminals)
      /\ EndedIn(Delivery) /\ DistinctIn(Delivery) /\ ~Has(Delivery, Terminals)
  BY <1>2, <1>7, PassingIsSafe DEF Waiting, Unsaid
<1>9. /\ CommittedIn(output') /\ AnnouncedIn(output')
      /\ EndedIn(Delivery') /\ DistinctIn(Delivery') /\ Has(Delivery', Terminals \cup {"error"})
      /\ Has(output', Terminals) <=> type # "error"
  <2>1. e.type \in Terminals <=> type # "error"
    BY <1>3 DEF Terminals
  <2>2. e.type \in Terminals \cup {"error"} /\ e.type \in {"raw", "mark", "failed", "incomplete", "error"}
    BY <1>3 DEF Terminals
  <2>3. /\ EndedIn(Append(Delivery, e)) /\ DistinctIn(Append(Delivery, e))
        /\ Has(Append(Delivery, e), Terminals \cup {"error"})
    BY <1>3, <1>5, <1>8, <2>2, PlainAppended
  <2>4. /\ CommittedIn(Append(output, e)) /\ AnnouncedIn(Append(output, e))
        /\ Has(Append(output, e), Terminals) <=> type # "error"
    BY <1>3, <1>5, <1>8, <2>1, <2>2, PlainAppended
  <2> QED BY <1>6, <2>3, <2>4
<1>10. known' = FALSE /\ claimed' = (type # "error")
  BY <1>2, <1>4 DEF Waiting, Unsaid
<1>11. Has(client', Terminals) = FALSE /\ Has(output', Terminals) = (type # "error")
  BY <1>4, <1>8, <1>9 DEF Has
<1>12. CommittedIn(client') /\ AnnouncedIn(client')
  BY <1>4, <1>8
<1>13. Over'
  BY <1>1, <1>9, <1>10, <1>11, <1>12 DEF Over
<1>14. Typed'
  <2>1. Cardinality({}) = 0 /\ IsFiniteSet({})
    BY FS_EmptySet
  <2>2. /\ pending' = {} /\ emitted' = <<>> /\ held' = <<>> /\ IsFiniteSet(pending')
        /\ Len(emitted') + Cardinality(pending') <= MaxCalls
    BY <1>1, <2>1, StreamAssumption
  <2>3. others' \in [items : SUBSET ItemIds, indexes : SUBSET Indexes]
    BY <1>1 DEF NoItems
  <2>4. frames' \in 0 .. MaxFrames
    BY <1>1, <1>2, StreamAssumption DEF Typed, Accepted, Reading
  <2>5. emitted' \in Seq(Calls) /\ held' \in Seq(Frames)
    BY <2>2
  <2> QED BY <1>1, <1>2, <1>4, <1>5, <1>10, <2>2, <2>3, <2>4, <2>5 DEF Typed, Accepted, Reading
<1> QED BY <1>1, <1>13, <1>14 DEF StreamInv

-----------------------------------------------------------------------------
(* The chunk is written, and the stream ends.                              *)

LEMMA EndChunkKeeps == StreamInv /\ EndChunk => StreamInv'
<1> SUFFICES ASSUME StreamInv, EndChunk PROVE StreamInv'
  OBVIOUS
<1>1. /\ Typed /\ end = "open" /\ phase # "closed"
      /\ client' = client \o output /\ output' = <<>>
      /\ known' = (known \/ claimed) /\ claimed' = FALSE
      /\ UNCHANGED <<phase, rewriter, frames, end>>
  BY DEF StreamInv, EndChunk, Typed
<1>2. client \in Seq(Frames) /\ output \in Seq(Frames) /\ <<>> \in Seq(Frames)
  BY <1>1 DEF Typed
<1>3. client' \in Seq(Frames) /\ Delivery \in Seq(Frames)
  BY <1>1, <1>2, ConcatProperties DEF Delivery
<1>4. Delivery' = Delivery /\ client' = Delivery
  <2>1. Delivery \o <<>> = Delivery
    BY <1>3, ConcatEmptySeq
  <2> QED BY <1>1, <2>1 DEF Delivery
<1>5. Typed'
  BY <1>1, <1>2, <1>3 DEF Typed, rewriter
<1>6. CASE phase = "open"
  <2>1. Waiting
    BY <1>6 DEF StreamInv
  <2>2. ~known' /\ ~claimed'
    BY <1>1, <2>1 DEF Waiting, Unsaid
  <2>3. Unsaid'
    BY <1>1, <1>4, <2>1, <2>2 DEF Waiting, Unsaid, Only, rewriter
  <2>4. Apart'
    BY <1>1, <1>4, <2>1 DEF Waiting, Apart, Remembered, Recorded, NewCalls, Emitted, rewriter
  <2>5. Traced(held, pending)'
    BY <1>1, <2>1 DEF Waiting, Traced, AnsweredIn, FollowsIn, rewriter
  <2>6. Introduced(held, pending)'
    BY <1>1, <2>1 DEF Waiting, Introduced, rewriter
  <2>7. Waiting'
    BY <2>3, <2>4, <2>5, <2>6 DEF Waiting
  <2> QED BY <1>1, <1>5, <1>6, <2>7 DEF StreamInv
<1>7. CASE phase # "open"
  <2>1. Over /\ phase \in {"terminal", "marked"}
    BY <1>1, <1>7 DEF StreamInv, Typed
  <2>2. CommittedIn(client') /\ AnnouncedIn(client')
    BY <1>1, <1>2, <2>1, CommittedJoined, AnnouncedJoined DEF Over
  <2>3. CommittedIn(output') /\ AnnouncedIn(output') /\ ~Has(output', Terminals)
    BY <1>1 DEF CommittedIn, AnnouncedIn, Has
  <2>4. known' = Has(client', Terminals)
    <3>1. Has(client \o output, Terminals) <=> Has(client, Terminals) \/ Has(output, Terminals)
      BY <1>2, HasJoined
    <3>2. known' = (Has(client, Terminals) \/ Has(output, Terminals))
      BY <1>1, <2>1 DEF Over
    <3>3. Has(client', Terminals) \in BOOLEAN
      BY DEF Has
    <3> QED BY <1>1, <3>1, <3>2, <3>3
  <2>5. claimed' = Has(output', Terminals)
    BY <1>1, <2>3 DEF Has
  <2>6. EndedIn(Delivery') /\ DistinctIn(Delivery') /\ Has(Delivery', Terminals \cup {"error"})
    BY <1>4, <2>1 DEF Over
  <2>7. pending' = {} /\ held' = <<>>
    BY <1>1, <2>1 DEF Over, rewriter
  <2>8. Over'
    BY <2>2, <2>3, <2>4, <2>5, <2>6, <2>7 DEF Over
  <2> QED BY <1>1, <1>5, <2>1, <2>8 DEF StreamInv
<1> QED BY <1>6, <1>7

(* What the client has is safe in every phase.                             *)
LEMMA ClientSafe ==
  ASSUME StreamInv
  PROVE  /\ CommittedIn(client) /\ AnnouncedIn(client) /\ EndedIn(client) /\ DistinctIn(client)
         /\ phase # "closed" => (known <=> Has(client, Terminals))
<1>1. client \in Seq(Frames) /\ output \in Seq(Frames)
      /\ phase \in {"open", "terminal", "marked", "closed"}
  BY DEF StreamInv, Typed
<1>2. CASE phase = "open"
  <2>1. Waiting
    BY <1>2 DEF StreamInv
  <2>2. Only(client, Passing)
    BY <1>1, <2>1, OnlyParts DEF Waiting, Unsaid, Delivery
  <2> QED BY <2>1, <2>2, PassingIsSafe DEF Waiting, Unsaid
<1>3. CASE phase \in {"terminal", "marked"}
  <2>1. Over
    BY <1>3 DEF StreamInv
  <2>2. EndedIn(client) /\ DistinctIn(client)
    BY <1>1, <2>1, PrefixKeeps DEF Over, Delivery
  <2> QED BY <2>1, <2>2 DEF Over
<1>4. CASE phase = "closed"
  BY <1>4 DEF StreamInv, Closed
<1> QED BY <1>1, <1>2, <1>3, <1>4

(* An end discards the rewriter.                                           *)
LEMMA DiscardedTyped ==
  ASSUME Typed, Discarded, client' \in Seq(Frames), claimed' \in BOOLEAN, known' \in BOOLEAN,
         end' \in {"clean", "told", "error", "cut"}
  PROVE  Typed'
<1>1. Cardinality({}) = 0 /\ IsFiniteSet({})
  BY FS_EmptySet
<1>2. /\ phase' = "closed" /\ frames' = 0 /\ output' = <<>>
      /\ pending' = {} /\ emitted' = <<>> /\ others' = NoItems /\ held' = <<>>
  BY DEF Discarded
<1>3. /\ Len(emitted') + Cardinality(pending') <= MaxCalls /\ IsFiniteSet(pending')
      /\ frames' \in 0 .. MaxFrames
  BY <1>1, <1>2, StreamAssumption
<1>4. emitted' \in Seq(Calls) /\ held' \in Seq(Frames) /\ output' \in Seq(Frames)
  BY <1>2
<1>5. others' \in [items : SUBSET ItemIds, indexes : SUBSET Indexes]
  BY <1>2 DEF NoItems
<1> QED BY <1>2, <1>3, <1>4, <1>5 DEF Typed

LEMMA FinishKeepsStream == StreamInv /\ Finish => StreamInv'
<1> SUFFICES ASSUME StreamInv, Finish PROVE StreamInv'
  OBVIOUS
<1>1. /\ Typed /\ Over /\ Discarded /\ end' = "clean" /\ client' = client \o output
      /\ known' = (known \/ claimed) /\ claimed' = FALSE
  BY DEF StreamInv, Finish
<1>2. client \in Seq(Frames) /\ output \in Seq(Frames) /\ client' = Delivery
      /\ client' \in Seq(Frames)
  BY <1>1, ConcatProperties DEF Typed, Delivery
<1>3. Typed'
  BY <1>1, <1>2, DiscardedTyped DEF Typed
<1>4. CommittedIn(client') /\ AnnouncedIn(client')
  BY <1>1, <1>2, CommittedJoined, AnnouncedJoined DEF Over
<1>5. EndedIn(client') /\ DistinctIn(client') /\ Has(client', Terminals \cup {"error"})
  BY <1>1, <1>2 DEF Over
<1>6. Closed'
  BY <1>1, <1>4, <1>5 DEF Closed
<1> QED BY <1>1, <1>3, <1>6 DEF StreamInv, Discarded

LEMMA RefusalKeeps == StreamInv /\ Refusal => StreamInv'
<1> SUFFICES ASSUME StreamInv, Refusal PROVE StreamInv'
  OBVIOUS
<1>1. /\ Typed /\ end = "open" /\ phase # "closed" /\ Discarded /\ claimed' = FALSE /\ known' = known
      /\ client \in Seq(Frames) /\ output \in Seq(Frames)
  BY DEF StreamInv, Refusal, Refuse, Typed
<1>2. /\ CommittedIn(client) /\ AnnouncedIn(client) /\ EndedIn(client) /\ DistinctIn(client)
      /\ known <=> Has(client, Terminals)
  BY <1>1, ClientSafe
<1>3. CASE known
  <2>1. end' = "cut" /\ client' = client
    BY <1>3 DEF Refusal, Refuse
  <2>2. Typed'
    BY <1>1, <2>1, DiscardedTyped DEF Typed
  <2>3. CommittedIn(client') /\ AnnouncedIn(client') /\ EndedIn(client') /\ DistinctIn(client')
        /\ Has(client', Terminals)
    BY <1>2, <1>3, <2>1
  <2> QED BY <1>1, <2>1, <2>2, <2>3 DEF StreamInv, Discarded, Closed
<1>4. CASE ~known /\ client = <<>>
  <2>1. end' = "error" /\ client' = client
    BY <1>4 DEF Refusal, Refuse
  <2>2. Typed'
    BY <1>1, <2>1, DiscardedTyped DEF Typed
  <2>3. CommittedIn(client') /\ AnnouncedIn(client') /\ EndedIn(client') /\ DistinctIn(client')
    BY <1>2, <2>1
  <2> QED BY <1>1, <2>1, <2>2, <2>3 DEF StreamInv, Discarded, Closed
<1>5. CASE ~known /\ client # <<>>
  <2> DEFINE e == Plain("failed")
  <2>1. end' = "told" /\ client' = Append(client, e)
    BY <1>5 DEF Refusal, Refuse
  <2>2. e \in Frames /\ e.type = "failed"
    BY DEF Plain, Entry, Frames, Entries, Arguments
  <2> HIDE DEF e
  <2>3. Append(client, e) \in Seq(Frames)
    BY <1>1, <2>2, Appended
  <2>4. Typed'
    BY <1>1, <2>1, <2>3, DiscardedTyped DEF Typed
  <2>5. /\ CommittedIn(Append(client, e)) /\ AnnouncedIn(Append(client, e))
        /\ EndedIn(Append(client, e)) /\ DistinctIn(Append(client, e))
        /\ Has(Append(client, e), Terminals \cup {"error"})
    BY <1>1, <1>2, <1>5, <2>2, PlainAppended DEF Terminals
  <2> QED BY <1>1, <2>1, <2>4, <2>5 DEF StreamInv, Discarded, Closed
<1> QED BY <1>3, <1>4, <1>5

-----------------------------------------------------------------------------
(* The theorems.                                                           *)

LEMMA NextKeepsStream == StreamInv /\ [Next]_vars => StreamInv'
<1>1. StreamInv /\ Next => StreamInv'
  BY CallAddedKeeps, ArgumentsDeltaKeeps, ArgumentsDoneKeeps, CallDoneKeeps, OtherItemKeeps,
     CompletedKeeps, DroppedKeeps, RawKeeps, DoneMarkerKeeps, EndChunkKeeps, FinishKeepsStream,
     RefusalKeeps DEF Next
<1>2. StreamInv /\ UNCHANGED vars => StreamInv'
  <2> SUFFICES ASSUME StreamInv, UNCHANGED vars PROVE StreamInv'
    OBVIOUS
  <2>1. Delivery' = Delivery /\ Emitted' = Emitted
    BY DEF vars, Delivery, Emitted
  <2>2. Typed'
    BY DEF StreamInv, Typed, vars
  <2>3. Waiting => Waiting'
    BY <2>1 DEF vars, Waiting, Unsaid, Apart, Only, Remembered, Recorded, NewCalls, Traced,
       Introduced, AnsweredIn, FollowsIn
  <2>4. Over => Over'
    <3> SUFFICES ASSUME Over PROVE Over'
      OBVIOUS
    <3>1. EndedIn(Delivery)' /\ DistinctIn(Delivery)' /\ Has(Delivery, Terminals \cup {"error"})'
      BY <2>1 DEF Over, EndedIn, DistinctIn, NewCalls, Has
    <3>2. CommittedIn(client)' /\ CommittedIn(output)'
      BY DEF vars, Over, CommittedIn
    <3>3. AnnouncedIn(client)' /\ AnnouncedIn(output)'
      BY DEF vars, Over, AnnouncedIn, AnsweredIn, FollowsIn
    <3>4. known' = Has(client, Terminals)' /\ claimed' = Has(output, Terminals)'
      BY DEF vars, Over, Has
    <3> QED BY <3>1, <3>2, <3>3, <3>4 DEF Over, vars
  <2>5. Closed => Closed'
    BY DEF vars, Closed, EndedIn, DistinctIn, NewCalls, Has, CommittedIn, AnnouncedIn,
       AnsweredIn, FollowsIn
  <2> QED BY <2>2, <2>3, <2>4, <2>5 DEF StreamInv, vars
<1> QED BY <1>1, <1>2

(* The invariant of a streamed response: FunctionStream in every phase.    *)
THEOREM StreamHolds == Spec => []StreamInv
  BY StreamStarts, NextKeepsStream, PTL DEF Spec

(* Every variable keeps its shape and its bounds: the state of the rewriter *)
(* of efficient-fidelity.mjs and of the transformer.                        *)
THEOREM StreamTyped == Spec => []TypeOK
<1>1. StreamInv => TypeOK
  BY DEF StreamInv, Typed, TypeOK, PendingCalls
<1> QED BY <1>1, StreamHolds, PTL

(* Whatever the chunking, no frame of a call (announcement, argument piece, *)
(* completed item) reaches Codex without the completed response behind it:  *)
(* the rewriter holds entries back until then.                              *)
THEOREM CallsAlwaysCommitted == Spec => []CallsCommitted
<1>1. StreamInv => CallsCommitted
  BY ClientSafe DEF CallsCommitted, CommittedIn, Received
<1> QED BY <1>1, StreamHolds, PTL

LEMMA OneTerminal ==
  ASSUME StreamInv
  PROVE  Cardinality(Received(Terminals)) <= 1
<1>1. client \in Seq(Frames) /\ DOMAIN client = 1 .. Len(client) /\ Len(client) \in Nat
  BY LenProperties DEF StreamInv, Typed
<1>2. \A i, j \in Received(Terminals) : i = j
  <2> SUFFICES ASSUME NEW i \in Received(Terminals), NEW j \in Received(Terminals), i # j
               PROVE  FALSE
    OBVIOUS
  <2>1. i < j \/ j < i
    BY <1>1 DEF Received
  <2> QED BY <1>1, <2>1, ClientSafe DEF EndedIn, Received, Terminals
<1>3. CASE Received(Terminals) = {}
  BY <1>3, FS_EmptySet
<1>4. CASE Received(Terminals) # {}
  <2>1. PICK i \in Received(Terminals) : TRUE
    BY <1>4
  <2>2. Received(Terminals) = {i}
    BY <1>2, <2>1
  <2>3. Cardinality({i}) = 1
    BY FS_Singleton
  <2> QED BY <2>2, <2>3
<1> QED BY <1>3, <1>4

(* Codex is told once how the response ended, and told whenever it has a   *)
(* part of it: fail and hasTerminalEvent of the relay.                     *)
THEOREM AlwaysToldOnce == Spec => []ToldOnce
<1>1. StreamInv => ToldOnce
  <2> SUFFICES ASSUME StreamInv PROVE ToldOnce
    OBVIOUS
  <2>1. \A i \in Received(Terminals), j \in DOMAIN client :
          j > i => client[j].type \in {"raw", "mark"}
    BY ClientSafe DEF EndedIn, Received
  <2>2. /\ end \in {"clean", "told"} => Has(client, Terminals \cup {"error"})
        /\ end = "cut" => Has(client, Terminals)
    BY DEF StreamInv, Typed, Closed
  <2>3. /\ end \in {"clean", "told"} => Received(Terminals \cup {"error"}) # {}
        /\ end = "cut" => Received(Terminals) # {}
    BY <2>2 DEF Has, Received
  <2> QED BY <2>1, <2>3, OneTerminal DEF ToldOnce
<1> QED BY <1>1, StreamHolds, PTL

(* The calls Codex gets are new, distinct and apart from its other items,  *)
(* whatever locators the server used: findPending and the identity rules.  *)
THEOREM CallsAlwaysDistinct == Spec => []CallsDistinct
<1>1. StreamInv => CallsDistinct
  BY ClientSafe DEF CallsDistinct, DistinctIn, NewCalls, ClashFree, Received
<1> QED BY <1>1, StreamHolds, PTL

(* A call is executed as it was announced: the deltas, the announcement    *)
(* and the completed item of one call agree, and hidden searches stay so.  *)
THEOREM CallsAlwaysAsAnnounced == Spec => []AsAnnounced
<1>1. StreamInv => AsAnnounced
  <2> SUFFICES ASSUME StreamInv, NEW i \in Received({"added", "delta", "arguments"})
               PROVE  \E j \in Received({"done"}) :
                        LET e == client[i]
                            d == client[j] IN
                        /\ j > i /\ d.kind = "call" /\ Follows(d, e)
                        /\ e.type = "added" => e.call \in {Absent, d.call}
                        /\ e.type = "arguments" => e.args = d.args
                        /\ e.type = "delta" => e.args <= d.args
    BY DEF AsAnnounced
  <2>1. AnsweredIn(client, i)
    BY ClientSafe DEF AnnouncedIn, Received, Shown
  <2>2. PICK j \in DOMAIN client :
          client[j].type = "done" /\ j > i /\ client[j].kind = "call"
          /\ FollowsIn(client, client[j], client[i]) /\ Matches(client[i], client[j])
    BY <2>1 DEF AnsweredIn
  <2>3. j \in Received({"done"}) /\ Follows(client[j], client[i])
    BY <2>2 DEF Received, Follows, FollowsIn
  <2> QED BY <2>2, <2>3 DEF Matches
<1> QED BY <1>1, StreamHolds, PTL

=============================================================================
