------------------------- MODULE RpcSession_proofs --------------------------
(***************************************************************************)
(* The inductive invariant of module RpcSession, the proofs that every step*)
(* of the server and of the client keeps it, and what follows from it: the *)
(* poll mode, the answers, that both sides never wait for each other, and  *)
(* that the session implements EventDelivery.                              *)
(*                                                                         *)
(* IInv says, besides the types:                                           *)
(*   - the stack has at most two frames, and only a list of names, an event*)
(*     of an appcall and a message are sent from within one (StackShape);  *)
(*   - between two steps every frame waits for an answer (StackWaits);     *)
(*   - one request other than OTHER is pending at a time, none while the   *)
(*     server polls (OneAtATime, MainWhenIdle);                            *)
(*   - an answer is on its way only to a waiting call (AnswersExpected);   *)
(*   - what is known of the event that is out (EventsInOrder);             *)
(*   - while the connection is up, each call of either side is on its way, *)
(*     being performed or answered, exactly once (Conserved), and one thing*)
(*     at a time drives the cycle of an event (Stage, Cycle);              *)
(*   - once it is down, nothing but the server's part matters.             *)
(* Each of these is needed for another one: the answers match because calls*)
(* are conserved, calls are conserved because the stack has the shape it   *)
(* has, and it has that shape because the poll mode is off while a request *)
(* is pending, which is the cycle of the event.                            *)
(***************************************************************************)
EXTENDS RpcSession, FiniteSets, FiniteSetTheorems, SequenceTheorems, TLAPS

-----------------------------------------------------------------------------
(* Counting packets, and stacks *)

One(b) == IF b THEN 1 ELSE 0
Count(q, S) == Cardinality({i \in 1 .. Len(q) : q[i] \in S})

\* How many packets of a kind are on their way is a number.
LEMMA CountNat ==
    ASSUME NEW T, NEW q \in Seq(T), NEW S
    PROVE  /\ Count(q, S) \in Nat
           /\ IsFiniteSet({i \in 1 .. Len(q) : q[i] \in S})
<1>1. IsFiniteSet(1 .. Len(q))
    BY FS_Interval, LenProperties
<1>2. IsFiniteSet({i \in 1 .. Len(q) : q[i] \in S})
    BY <1>1, FS_Subset
<1> QED BY <1>2, FS_CardinalityType DEF Count

\* One is on its way if and only if the queue has one.
LEMMA CountSome ==
    ASSUME NEW T, NEW q \in Seq(T), NEW S
    PROVE  Count(q, S) >= 1 <=> \E i \in 1 .. Len(q) : q[i] \in S
<1> DEFINE I == {i \in 1 .. Len(q) : q[i] \in S}
<1>1. IsFiniteSet(I) /\ Cardinality(I) \in Nat
    BY CountNat DEF Count
<1>2. Cardinality(I) = 0 <=> I = {}
    BY <1>1, FS_EmptySet
<1> QED BY <1>1, <1>2 DEF Count

\* An empty stream has none.
LEMMA CountEmpty == ASSUME NEW S PROVE Count(<< >>, S) = 0
<1>1. {i \in 1 .. Len(<< >>) : << >>[i] \in S} = {}
    BY EmptySeq
<1> QED BY <1>1, FS_EmptySet DEF Count

\* A packet that is sent counts if it is of the kind.
LEMMA CountAppend ==
    ASSUME NEW T, NEW q \in Seq(T), NEW p \in T, NEW S
    PROVE  Count(Append(q, p), S) = Count(q, S) + One(p \in S)
<1> DEFINE I == {i \in 1 .. Len(q) : q[i] \in S}
           J == {i \in 1 .. Len(Append(q, p)) : Append(q, p)[i] \in S}
<1>1. /\ Len(q) \in Nat /\ Len(Append(q, p)) = Len(q) + 1
      /\ \A i \in 1 .. Len(q) : Append(q, p)[i] = q[i]
      /\ Append(q, p)[Len(q) + 1] = p
    BY AppendProperties, LenProperties
<1>2. J = IF p \in S THEN I \cup {Len(q) + 1} ELSE I
    BY <1>1
<1>3. IsFiniteSet(I) /\ Cardinality(I) \in Nat
    BY CountNat DEF Count
<1>4. Len(q) + 1 \notin I
    BY <1>1
<1>5. Cardinality(I \cup {Len(q) + 1}) = Cardinality(I) + 1
    BY <1>3, <1>4, FS_AddElement
<1> HIDE DEF I, J
<1>6. Cardinality(J) = Cardinality(I) + One(p \in S)
    BY <1>2, <1>3, <1>5 DEF One
<1> QED BY <1>6 DEF Count, I, J

\* A packet that is read counts no more.
LEMMA CountTail ==
    ASSUME NEW T, NEW q \in Seq(T), q # << >>, NEW S
    PROVE  Count(q, S) = Count(Tail(q), S) + One(Head(q) \in S)
<1> DEFINE I == {i \in 1 .. Len(q) : q[i] \in S}
           J == {i \in 1 .. Len(Tail(q)) : Tail(q)[i] \in S}
           f == [j \in J |-> j + 1]
<1>1. /\ Tail(q) \in Seq(T) /\ Len(q) \in Nat \ {0} /\ Len(Tail(q)) = Len(q) - 1
      /\ \A i \in 1 .. Len(Tail(q)) : Tail(q)[i] = q[i + 1]
      /\ Head(q) = q[1]
    BY HeadTailProperties, EmptySeq
<1>2. f \in Bijection(J, I \ {1})
  <2>1. f \in [J -> I \ {1}]
    BY <1>1
  <2>2. \A a, b \in J : f[a] = f[b] => a = b
    BY <1>1
  <2>3. \A b \in I \ {1} : \E a \in J : f[a] = b
    <3> SUFFICES ASSUME NEW b \in I \ {1} PROVE \E a \in J : f[a] = b
        OBVIOUS
    <3>1. b \in 2 .. Len(q) /\ q[b] \in S
        BY <1>1
    <3>2. b - 1 \in 1 .. Len(Tail(q)) /\ (b - 1) + 1 = b
        BY <1>1, <3>1
    <3>3. Tail(q)[b - 1] = q[b]
        BY <1>1, <3>2
    <3> QED BY <3>1, <3>2, <3>3
  <2> HIDE DEF f, I, J
  <2> QED BY <2>1, <2>2, <2>3 DEF Bijection, Injection, Surjection, IsInjective
<1>3. IsFiniteSet(I) /\ IsFiniteSet(J) /\ Cardinality(I) \in Nat /\ Cardinality(J) \in Nat
    BY <1>1, CountNat DEF Count
<1>4. Cardinality(J) = Cardinality(I \ {1})
  <2> HIDE DEF f, I, J
  <2>1. IsFiniteSet(I \ {1})
      BY <1>3, FS_RemoveElement
  <2>2. ExistsBijection(J, I \ {1})
      BY <1>2 DEF ExistsBijection
  <2> QED BY <1>3, <2>2, FS_Bijection
<1>5. 1 \in I <=> Head(q) \in S
    BY <1>1
<1>6. Cardinality(I) = Cardinality(J) + One(Head(q) \in S)
  <2> HIDE DEF f, I, J
  <2>1. Cardinality(I \ {1}) = IF 1 \in I THEN Cardinality(I) - 1 ELSE Cardinality(I)
      BY <1>3, FS_RemoveElement
  <2> QED BY <1>3, <1>4, <1>5, <2>1 DEF One
<1> QED BY <1>6 DEF Count

\* What is left of the stream when its end is lost.
LEMMA CountPrefix ==
    ASSUME NEW T, NEW q \in Seq(T), NEW k \in 0 .. Len(q), NEW S
    PROVE  /\ SubSeq(q, 1, k) \in Seq(T)
           /\ Len(SubSeq(q, 1, k)) = k
           /\ \A i \in 1 .. k : SubSeq(q, 1, k)[i] = q[i]
           /\ Count(SubSeq(q, 1, k), S) <= Count(q, S)
<1>1. Len(q) \in Nat /\ \A i \in 1 .. k : q[i] \in T
    BY LenProperties, ElementOfSeq
<1>2. /\ SubSeq(q, 1, k) \in Seq(T)
      /\ Len(SubSeq(q, 1, k)) = k
      /\ \A i \in 1 .. k : SubSeq(q, 1, k)[i] = q[i]
    BY <1>1, SubSeqProperties
<1> DEFINE I == {i \in 1 .. Len(q) : q[i] \in S}
           J == {i \in 1 .. Len(SubSeq(q, 1, k)) : SubSeq(q, 1, k)[i] \in S}
<1>3. J \subseteq I
    BY <1>1, <1>2
<1>4. IsFiniteSet(I)
    BY CountNat
<1>5. Cardinality(J) <= Cardinality(I)
  <2> HIDE DEF I, J
  <2> QED BY <1>3, <1>4, FS_Subset
<1> QED BY <1>2, <1>5 DEF Count

\* A stack without its top.
LEMMA Popping ==
    ASSUME NEW T, NEW q \in Seq(T), q # << >>
    PROVE  /\ Pop(q) \in Seq(T) /\ Len(q) \in Nat \ {0} /\ Len(Pop(q)) = Len(q) - 1
           /\ \A i \in 1 .. Len(q) - 1 : Pop(q)[i] = q[i]
           /\ TopOf(q) \in T
<1>1. Len(q) \in Nat \ {0} /\ Len(q) - 1 \in Nat
    BY EmptySeq
<1>2. \A i \in 1 .. Len(q) : q[i] \in T
    BY ElementOfSeq
<1>3. Len(q) - 1 \in 0 .. Len(q)
    BY <1>1
<1>4. /\ Pop(q) \in Seq(T)
      /\ Len(Pop(q)) = Len(q) - 1
      /\ \A i \in 1 .. Len(q) - 1 : Pop(q)[i] = q[i]
    BY <1>3, CountPrefix DEF Pop
<1> QED BY <1>1, <1>2, <1>4 DEF TopOf

-----------------------------------------------------------------------------
(* The records of the model, field by field *)

\* The fields of rpc_server_t.
LEMMA FieldsTyped ==
    ASSUME NEW s \in Server
    PROVE  /\ s.pc \in {"recv", "null", "loop", "ended"} /\ s.frames \in Seq(Frame)
           /\ s.poll_debug_events \in BOOLEAN /\ s.has_pending_event \in BOOLEAN
           /\ s.network_error_code \in BOOLEAN /\ s.broken_connection \in BOOLEAN
           /\ s.in_event \in BOOLEAN /\ s.got \in Nat
BY DEF Server

\* The fields of a frame.
LEMMA FrameTyped ==
    ASSUME NEW f \in Frame
    PROVE  /\ f.op \in Requests \cup {"POLL"} /\ f.saved \in BOOLEAN
           /\ f.wait \in Callbacks \cup {"none"} /\ f.last \in BOOLEAN
           /\ f.left \in 0 .. MaxNames /\ f.timed \in BOOLEAN /\ f.late \in BOOLEAN
BY DEF Frame

\* The packets that the code builds.
LEMMA PacketsTyped ==
    /\ \A c \in Requests \cup Callbacks \cup {"OK", "EVENT", "EVOK"} :
          /\ Bare(c) \in Packet /\ Bare(c).code = c /\ Bare(c).n = 0
          /\ \A k \in Nat : Carrying(c, k) \in Packet /\ Carrying(c, k).code = c
                            /\ Carrying(c, k).n = k
    /\ \A r \in Requests \cup Callbacks \cup {"CLOSE"}, k \in Nat :
          /\ Answer(r, k) \in Packet /\ Answer(r, k).code = "OK"
          /\ Answer(r, k).re = r /\ Answer(r, k).n = k
BY DEF Bare, Carrying, Answer, Packet

\* Only the frame on top of the stack changes.
LEMMA Retopped ==
    ASSUME NEW s \in Server, s.frames # << >>, NEW f \in Frame
    PROVE  /\ Retop(s, f) \in Server
           /\ Retop(s, f).frames \in Seq(Frame)
           /\ Len(Retop(s, f).frames) = Len(s.frames)
           /\ \A i \in 1 .. Len(s.frames) :
                 Retop(s, f).frames[i] = IF i = Len(s.frames) THEN f ELSE s.frames[i]
           /\ Retop(s, f).frames # << >>
           /\ Top(Retop(s, f)) = f
           /\ Retop(s, f).pc = s.pc
           /\ Retop(s, f).poll_debug_events = s.poll_debug_events
           /\ Retop(s, f).has_pending_event = s.has_pending_event
           /\ Retop(s, f).network_error_code = s.network_error_code
           /\ Retop(s, f).broken_connection = s.broken_connection
           /\ Retop(s, f).in_event = s.in_event
           /\ Retop(s, f).got = s.got
<1> DEFINE q == [s.frames EXCEPT ![Len(s.frames)] = f]
<1>1. s.frames \in Seq(Frame) /\ Len(s.frames) \in Nat \ {0} /\ Len(s.frames) \in 1 .. Len(s.frames)
    BY FieldsTyped, EmptySeq
<1>2. /\ q \in Seq(Frame) /\ Len(q) = Len(s.frames)
      /\ \A j \in 1 .. Len(s.frames) : q[j] = IF j = Len(s.frames) THEN f ELSE s.frames[j]
    BY <1>1, ExceptSeq
<1>3. Retop(s, f) = [s EXCEPT !.frames = q]
    BY DEF Retop, Server
<1> HIDE DEF q
<1>4. /\ Retop(s, f) \in Server
      /\ Retop(s, f).frames = q
      /\ Retop(s, f).pc = s.pc
      /\ Retop(s, f).poll_debug_events = s.poll_debug_events
      /\ Retop(s, f).has_pending_event = s.has_pending_event
      /\ Retop(s, f).network_error_code = s.network_error_code
      /\ Retop(s, f).broken_connection = s.broken_connection
      /\ Retop(s, f).in_event = s.in_event
      /\ Retop(s, f).got = s.got
    BY <1>2, <1>3 DEF Server
<1>5. q # << >> /\ q[Len(q)] = f
    BY <1>1, <1>2, EmptySeq
<1> QED BY <1>2, <1>4, <1>5 DEF Top, TopOf

\* Only the frame on top of the stack goes.
LEMMA PoppedFields ==
    ASSUME NEW s \in Server, s.frames # << >>
    PROVE  /\ Popped(s) \in Server /\ Popped(s).frames \in Seq(Frame)
           /\ Len(s.frames) \in Nat \ {0}
           /\ Len(Popped(s).frames) = Len(s.frames) - 1
           /\ \A i \in 1 .. Len(s.frames) - 1 : Popped(s).frames[i] = s.frames[i]
           /\ Popped(s).pc = s.pc
           /\ Popped(s).poll_debug_events = s.poll_debug_events
           /\ Popped(s).has_pending_event = s.has_pending_event
           /\ Popped(s).network_error_code = s.network_error_code
           /\ Popped(s).broken_connection = s.broken_connection
           /\ Popped(s).in_event = s.in_event
           /\ Popped(s).got = s.got
           /\ Top(s) \in Frame /\ Top(s) = s.frames[Len(s.frames)]
<1>1. s.frames \in Seq(Frame)
    BY FieldsTyped
<1>2. /\ Pop(s.frames) \in Seq(Frame) /\ Len(s.frames) \in Nat \ {0}
      /\ Len(Pop(s.frames)) = Len(s.frames) - 1
      /\ \A i \in 1 .. Len(s.frames) - 1 : Pop(s.frames)[i] = s.frames[i]
      /\ TopOf(s.frames) \in Frame
    BY <1>1, Popping
<1> QED BY <1>1, <1>2 DEF Popped, Server, Top, TopOf

\* perform_request and poll_events begin with one more frame and the poll mode off.
LEMMA EnteredFields ==
    ASSUME NEW s \in Server, NEW op \in Requests \cup {"POLL"}
    PROVE  /\ Entered(s, op) \in Server /\ Entered(s, op).frames \in Seq(Frame)
           /\ Len(s.frames) \in Nat
           /\ Len(Entered(s, op).frames) = Len(s.frames) + 1
           /\ \A i \in 1 .. Len(s.frames) : Entered(s, op).frames[i] = s.frames[i]
           /\ Entered(s, op).frames[Len(s.frames) + 1]
                 = NewFrame(op, op # "POLL" /\ s.poll_debug_events)
           /\ NewFrame(op, op # "POLL" /\ s.poll_debug_events) \in Frame
           /\ Top(Entered(s, op)) = NewFrame(op, op # "POLL" /\ s.poll_debug_events)
           /\ Entered(s, op).frames # << >>
           /\ Entered(s, op).pc = s.pc
           /\ ~Entered(s, op).poll_debug_events
           /\ Entered(s, op).has_pending_event = s.has_pending_event
           /\ Entered(s, op).network_error_code = s.network_error_code
           /\ Entered(s, op).broken_connection = s.broken_connection
           /\ Entered(s, op).in_event = s.in_event
           /\ Entered(s, op).got = s.got
<1> DEFINE f == NewFrame(op, op # "POLL" /\ s.poll_debug_events)
           q == Append(s.frames, f)
<1>1. s.frames \in Seq(Frame)
    BY FieldsTyped
<1>2. f \in Frame
    BY BoundsAssumption, FieldsTyped DEF NewFrame, Frame
<1>3. /\ q \in Seq(Frame) /\ Len(s.frames) \in Nat /\ Len(q) = Len(s.frames) + 1
      /\ \A i \in 1 .. Len(s.frames) : q[i] = s.frames[i]
      /\ q[Len(s.frames) + 1] = f
    BY <1>1, <1>2, AppendProperties, LenProperties
<1>4. q # << >>
  <2> HIDE DEF q, f
  <2> QED BY <1>3, EmptySeq
<1>5. Entered(s, op) = [s EXCEPT !.frames = q, !.poll_debug_events = FALSE]
    BY DEF Entered, Push, Server
<1> HIDE DEF f, q
<1>6. /\ Entered(s, op) \in Server
      /\ Entered(s, op).frames = q
      /\ Entered(s, op).pc = s.pc
      /\ ~Entered(s, op).poll_debug_events
      /\ Entered(s, op).has_pending_event = s.has_pending_event
      /\ Entered(s, op).network_error_code = s.network_error_code
      /\ Entered(s, op).broken_connection = s.broken_connection
      /\ Entered(s, op).in_event = s.in_event
      /\ Entered(s, op).got = s.got
    BY <1>3, <1>5 DEF Server
<1>7. Top(Entered(s, op)) = f
    BY <1>3, <1>6 DEF Top, TopOf
<1> QED BY <1>2, <1>3, <1>4, <1>6, <1>7 DEF f

\* Only the place in the code changes.
LEMMA AtFields ==
    ASSUME NEW s \in Server, NEW pc \in {"recv", "null", "loop", "ended"}
    PROVE  /\ At(s, pc) \in Server
           /\ At(s, pc).frames = s.frames
           /\ At(s, pc).pc = pc
           /\ At(s, pc).poll_debug_events = s.poll_debug_events
           /\ At(s, pc).has_pending_event = s.has_pending_event
           /\ At(s, pc).network_error_code = s.network_error_code
           /\ At(s, pc).broken_connection = s.broken_connection
           /\ At(s, pc).in_event = s.in_event
           /\ At(s, pc).got = s.got
BY DEF At, Server

\* An event is taken.
LEMMA FetchedFields ==
    ASSUME NEW s \in Server
    PROVE  /\ Fetched(s) \in Server
           /\ Fetched(s).frames = s.frames
           /\ Fetched(s).pc = s.pc
           /\ Fetched(s).poll_debug_events = s.poll_debug_events
           /\ Fetched(s).has_pending_event = s.has_pending_event
           /\ Fetched(s).network_error_code = s.network_error_code
           /\ Fetched(s).broken_connection = s.broken_connection
           /\ Fetched(s).in_event = TRUE
           /\ Fetched(s).got = s.got + 1
<1>1. s.got + 1 \in Nat
    BY FieldsTyped
<1> DEFINE k == s.got + 1
<1>2. Fetched(s) = [s EXCEPT !.in_event = TRUE, !.got = k]
    BY DEF Fetched, Server
<1> HIDE DEF k
<1>3. k \in Nat
    BY <1>1 DEF k
<1> QED BY <1>2, <1>3 DEF Server, k

\* The process is resumed.
LEMMA ContinuedFields ==
    ASSUME NEW s \in Server
    PROVE  /\ Continued(s) \in Server
           /\ Continued(s).frames = s.frames
           /\ Continued(s).pc = s.pc
           /\ Continued(s).poll_debug_events = s.poll_debug_events
           /\ Continued(s).has_pending_event = s.has_pending_event
           /\ Continued(s).network_error_code = s.network_error_code
           /\ Continued(s).broken_connection = s.broken_connection
           /\ Continued(s).in_event = FALSE
           /\ Continued(s).got = s.got
BY DEF Continued, Server

\* perform_request restores the poll mode on its return.
LEMMA PerformedFields ==
    ASSUME NEW s \in Server, s.frames # << >>
    PROVE  /\ Performed(s) \in Server
           /\ Performed(s).frames = Popped(s).frames
           /\ Performed(s).pc = s.pc
           /\ Performed(s).poll_debug_events = (s.poll_debug_events \/ Top(s).saved)
           /\ Performed(s).has_pending_event = s.has_pending_event
           /\ Performed(s).network_error_code = s.network_error_code
           /\ Performed(s).broken_connection = s.broken_connection
           /\ Performed(s).in_event = s.in_event
           /\ Performed(s).got = s.got
<1>1. Popped(s) \in Server /\ Top(s) \in Frame
    BY PoppedFields
<1> QED BY <1>1, PoppedFields DEF Performed, Server, Frame

-----------------------------------------------------------------------------
(* Shapes: which frames can be on the stack *)

\* What a frame that waits looks like: a list of names that waits has a packet
\* to send, and poll_events only sends messages.
FrameOK(f) ==
    /\ f \in Frame
    /\ f.wait = "SET_DEBUG_NAMES" => f.left # 0
    /\ f.op = "POLL" => f.wait = "MSG"

\* The server record between two steps, and in the middle of one, when the
\* frame on top is being performed.
Shaped(s) ==
    /\ s \in Server
    /\ \A i \in 1 .. Len(s.frames) : FrameOK(s.frames[i])
    /\ s.pc = "loop" => s.frames # << >> /\ Top(s).op # "POLL" /\ Top(s).wait = "none"
Entering(s) ==
    /\ s \in Server /\ s.frames # << >> /\ Top(s).wait = "none"
    /\ \A i \in 1 .. Len(s.frames) - 1 : FrameOK(s.frames[i])

TypedOutcomes(outcomes) == \A o \in outcomes : Shaped(o.srv) /\ o.out \in Seq(Packet)

\* Nothing is sent.
LEMMA SilentTyped ==
    ASSUME NEW s, Shaped(s)
    PROVE  TypedOutcomes(Silent(s))
<1>1. << >> \in Seq(Packet)
    BY EmptySeq
<1>2. Outcome(s, << >>).srv = s /\ Outcome(s, << >>).out = << >>
    BY DEF Outcome
<1> QED BY <1>1, <1>2 DEF TypedOutcomes, Silent

\* send_request leaves one of two records, or the one after a failure.
LEMMA SendingTyped ==
    ASSUME NEW sent, NEW unsent, NEW p \in Packet, Shaped(sent), Shaped(unsent)
    PROVE  TypedOutcomes(Sending(sent, unsent, p))
<1> DEFINE failed == [unsent EXCEPT !.network_error_code = TRUE, !.broken_connection = TRUE]
<1>1. /\ failed \in Server /\ failed.frames = unsent.frames /\ failed.pc = unsent.pc
    BY DEF Shaped, Server
<1> HIDE DEF failed
<1>2. Shaped(failed)
    BY <1>1 DEF Shaped, Top
<1>3. <<p>> \in Seq(Packet)
    OBVIOUS
<1>4. \A o \in Sending(sent, unsent, p) :
          \/ o.srv \in {sent, unsent, failed} /\ o.out = << >>
          \/ o.srv = sent /\ o.out = <<p>>
    BY DEF Sending, Silent, Outcome, failed
<1> QED BY <1>2, <1>3, <1>4, EmptySeq DEF TypedOutcomes

\* What remains of the stack when the frame on top is popped or waits.
LEMMA EnteringParts ==
    ASSUME NEW s, Entering(s)
    PROVE  /\ Top(s) \in Frame
           /\ Entering(Fetched(s)) /\ Entering(Continued(s))
           /\ Top(Fetched(s)) = Top(s) /\ Top(Continued(s)) = Top(s)
           /\ \A pc \in {"recv", "null"} : Shaped(At(Popped(s), pc)) /\ Shaped(At(Performed(s), pc))
           /\ \A f \in Frame :
                 /\ f.wait = "none" => Entering(Retop(s, f))
                 /\ FrameOK(f) => \A pc \in {"recv", "null"} : Shaped(At(Retop(s, f), pc))
                 /\ f.op # "POLL" /\ f.wait = "none" =>
                       Shaped(At(Continued(Retop(s, f)), "loop")) /\ Shaped(At(Retop(s, f), "loop"))
<1> USE DEF Entering
<1>1. /\ Popped(s) \in Server /\ Performed(s) \in Server
      /\ Performed(s).frames = Popped(s).frames
      /\ Len(Popped(s).frames) = Len(s.frames) - 1
      /\ \A i \in 1 .. Len(s.frames) - 1 : Popped(s).frames[i] = s.frames[i]
      /\ Top(s) \in Frame /\ Top(s) = s.frames[Len(s.frames)] /\ Len(s.frames) \in Nat \ {0}
    BY PoppedFields, PerformedFields
<1>2. /\ Fetched(s) \in Server /\ Fetched(s).frames = s.frames
      /\ Continued(s) \in Server /\ Continued(s).frames = s.frames
    BY FetchedFields, ContinuedFields
<1>3. \A i \in 1 .. Len(Popped(s).frames) : FrameOK(Popped(s).frames[i])
    BY <1>1
<1>4. ASSUME NEW pc \in {"recv", "null"}
      PROVE  Shaped(At(Popped(s), pc)) /\ Shaped(At(Performed(s), pc))
  <2>1. /\ At(Popped(s), pc) \in Server /\ At(Popped(s), pc).frames = Popped(s).frames
        /\ At(Popped(s), pc).pc # "loop"
      BY <1>1, AtFields
  <2>2. /\ At(Performed(s), pc) \in Server /\ At(Performed(s), pc).frames = Popped(s).frames
        /\ At(Performed(s), pc).pc # "loop"
      BY <1>1, AtFields
  <2> QED BY <1>3, <2>1, <2>2 DEF Shaped
<1>5. ASSUME NEW f \in Frame
      PROVE  /\ f.wait = "none" => Entering(Retop(s, f))
             /\ FrameOK(f) => \A pc \in {"recv", "null"} : Shaped(At(Retop(s, f), pc))
             /\ f.op # "POLL" /\ f.wait = "none" =>
                   Shaped(At(Continued(Retop(s, f)), "loop")) /\ Shaped(At(Retop(s, f), "loop"))
  <2>1. /\ Retop(s, f) \in Server /\ Retop(s, f).frames # << >>
        /\ Len(Retop(s, f).frames) = Len(s.frames) /\ Top(Retop(s, f)) = f
        /\ \A i \in 1 .. Len(s.frames) :
              Retop(s, f).frames[i] = IF i = Len(s.frames) THEN f ELSE s.frames[i]
      BY Retopped
  <2>2. f.wait = "none" => Entering(Retop(s, f))
      BY <1>1, <2>1
  <2>3. FrameOK(f) => \A i \in 1 .. Len(s.frames) : FrameOK(Retop(s, f).frames[i])
      BY <1>1, <2>1
  <2>4. Continued(Retop(s, f)) \in Server /\ Continued(Retop(s, f)).frames = Retop(s, f).frames
      BY <2>1, ContinuedFields
  <2>5. \A pc \in {"recv", "null", "loop"} :
           /\ At(Retop(s, f), pc) \in Server /\ At(Retop(s, f), pc).pc = pc
           /\ At(Retop(s, f), pc).frames = Retop(s, f).frames
           /\ At(Continued(Retop(s, f)), pc) \in Server /\ At(Continued(Retop(s, f)), pc).pc = pc
           /\ At(Continued(Retop(s, f)), pc).frames = Retop(s, f).frames
      BY <2>1, <2>4, AtFields
  <2>6. /\ Top(At(Continued(Retop(s, f)), "loop")) = f /\ Top(At(Retop(s, f), "loop")) = f
      BY <2>1, <2>5 DEF Top
  <2>7. f.op # "POLL" /\ f.wait = "none" => FrameOK(f)
      BY DEF FrameOK
  <2> QED BY <2>1, <2>2, <2>3, <2>5, <2>6, <2>7 DEF Shaped
<1> QED BY <1>1, <1>2, <1>4, <1>5 DEF Top

\* The reply of a request.
LEMMA ReplyingTyped ==
    ASSUME NEW s, Entering(s), Top(s).op # "POLL", NEW k \in Nat
    PROVE  TypedOutcomes(Replying(s, k))
<1>1. Top(s).op \in Requests
    BY EnteringParts, FrameTyped
<1> QED BY <1>1, EnteringParts, PacketsTyped, SendingTyped DEF Replying

\* The beginning of a nested process_request.
LEMMA CallingTyped ==
    ASSUME NEW s, Entering(s), NEW c \in Callbacks, NEW k \in Nat,
           Top(s).op = "POLL" => c = "MSG", c = "SET_DEBUG_NAMES" => Top(s).left # 0
    PROVE  TypedOutcomes(Calling(s, c, k))
<1> DEFINE f == [Top(s) EXCEPT !.wait = c]
<1>1. f \in Frame /\ f.wait = c /\ f.op = Top(s).op /\ f.left = Top(s).left
    BY EnteringParts, SMTT(20) DEF Frame
<1> HIDE DEF f
<1>2. FrameOK(f)
    BY <1>1 DEF FrameOK
<1>3. TypedOutcomes(Sending(At(Retop(s, f), "recv"), At(Retop(s, f), "null"), Carrying(c, k)))
    BY <1>1, <1>2, EnteringParts, PacketsTyped, SendingTyped
<1> QED BY <1>3 DEF Calling, f

\* One packet of names.
LEMMA SendNamesTyped ==
    ASSUME NEW s, Entering(s), Top(s).op # "POLL", NEW k \in 0 .. MaxNames
    PROVE  TypedOutcomes(SendNames(s, k))
<1> DEFINE f == [Top(s) EXCEPT !.left = k]
<1>1. f \in Frame /\ f.op = Top(s).op /\ f.left = k /\ f.wait = "none"
    BY EnteringParts DEF Frame, Entering
<1> HIDE DEF f
<1>2. Entering(Retop(s, f)) /\ Top(Retop(s, f)) = f
    BY <1>1, EnteringParts, Retopped DEF Entering
<1>3. k # 0 => TypedOutcomes(Calling(Retop(s, f), "SET_DEBUG_NAMES", 0))
    BY <1>1, <1>2, CallingTyped DEF Callbacks
<1> QED BY <1>3, ReplyingTyped DEF SendNames, f

\* Outcomes of two kinds.
LEMMA UnionTyped ==
    ASSUME NEW A, NEW B, TypedOutcomes(A), TypedOutcomes(B)
    PROVE  TypedOutcomes(A \cup B)
BY DEF TypedOutcomes

\* The number of the next event.
LEMMA GotTyped ==
    ASSUME NEW s, Entering(s)
    PROVE  s.got \in Nat /\ s.got + 1 \in Nat
BY FieldsTyped DEF Entering

\* The rest of poll_events.
LEMMA PollEventsTyped ==
    ASSUME NEW s, Entering(s)
    PROVE  TypedOutcomes(PollEvents(s))
<1> DEFINE idle == At(Popped(s), "recv")
<1>1. Shaped(idle) /\ idle.pc = "recv"
    BY EnteringParts, PoppedFields, AtFields DEF Entering
<1> HIDE DEF idle
<1>2. /\ Fetched(idle) \in Server /\ Fetched(idle).frames = idle.frames /\ Fetched(idle).pc = "recv"
    BY <1>1, FetchedFields DEF Shaped
<1>3. /\ At(Fetched(idle), "null") \in Server /\ At(Fetched(idle), "null").frames = idle.frames
      /\ At(Fetched(idle), "null").pc = "null"
    BY <1>2, AtFields
<1>4. Shaped(Fetched(idle)) /\ Shaped(At(Fetched(idle), "null"))
    BY <1>1, <1>2, <1>3 DEF Shaped
<1>5. TypedOutcomes(Sending(Fetched(idle), At(Fetched(idle), "null"), Carrying("EVENT", s.got + 1)))
    BY <1>4, GotTyped, PacketsTyped, SendingTyped
<1>6. /\ [idle EXCEPT !.poll_debug_events = TRUE] \in Server
      /\ [idle EXCEPT !.poll_debug_events = TRUE].frames = idle.frames
      /\ [idle EXCEPT !.poll_debug_events = TRUE].pc = "recv"
    BY <1>1 DEF Shaped, Server
<1>7. Shaped([idle EXCEPT !.poll_debug_events = TRUE])
    BY <1>1, <1>6 DEF Shaped
<1>8. TypedOutcomes(Silent([idle EXCEPT !.poll_debug_events = TRUE]))
    BY <1>7, SilentTyped
<1> QED BY <1>5, <1>8 DEF PollEvents, idle

\* dbg_appcall up to its event loop.
LEMMA AppcallTyped ==
    ASSUME NEW s, Entering(s), Top(s).op # "POLL"
    PROVE  TypedOutcomes(Appcall(s))
<1>1. TypedOutcomes(Replying(s, s.got))
    BY GotTyped, ReplyingTyped
<1>2. TypedOutcomes(Replying(Continued(s), s.got))
  <2>1. Entering(Continued(s)) /\ Top(Continued(s)).op # "POLL"
      BY EnteringParts
  <2> QED BY <2>1, GotTyped, ReplyingTyped
<1>3. ASSUME NEW t \in BOOLEAN
      PROVE  Shaped(At(Continued(Retop(s, [Top(s) EXCEPT !.timed = t])), "loop"))
  <2> DEFINE f == [Top(s) EXCEPT !.timed = t]
  <2>1. f \in Frame /\ f.op # "POLL" /\ f.wait = "none"
      BY EnteringParts DEF Frame, Entering
  <2> HIDE DEF f
  <2>2. Shaped(At(Continued(Retop(s, f)), "loop"))
      BY <2>1, EnteringParts
  <2> QED BY <2>2 DEF f
<1>4. ASSUME NEW t \in BOOLEAN
      PROVE  TypedOutcomes(Silent(At(Continued(Retop(s, [Top(s) EXCEPT !.timed = t])), "loop")))
    BY <1>3, SilentTyped
<1> QED BY <1>1, <1>2, <1>4 DEF Appcall, TypedOutcomes

\* RPC_GET_DEBUG_EVENT.
LEMMA GetDebugEventTyped ==
    ASSUME NEW s, Entering(s), Top(s).op # "POLL"
    PROVE  TypedOutcomes(GetDebugEvent(s))
<1>1. TypedOutcomes(Replying(s, 0)) /\ TypedOutcomes(Replying(Fetched(s), s.got + 1))
  <2>1. Entering(Fetched(s)) /\ Top(Fetched(s)).op # "POLL"
      BY EnteringParts
  <2> QED BY <2>1, GotTyped, ReplyingTyped
<1> DEFINE f == [Top(s) EXCEPT !.saved = TRUE]
<1>2. f \in Frame /\ f.op # "POLL" /\ f.wait = "none"
    BY EnteringParts DEF Frame, Entering
<1> HIDE DEF f
<1>3. Entering(Retop(s, f)) /\ Top(Retop(s, f)) = f
    BY <1>2, EnteringParts, Retopped DEF Entering
<1>4. TypedOutcomes(Replying(Retop(s, f), 0))
    BY <1>2, <1>3, ReplyingTyped
<1> QED BY <1>1, <1>4 DEF GetDebugEvent, f

\* The switch of perform_request.
LEMMA BodyTyped ==
    ASSUME NEW s, Entering(s)
    PROVE  TypedOutcomes(Body(s))
<1>1. Top(s).op = "GET_DEBUG_EVENT" => TypedOutcomes(GetDebugEvent(s))
    BY GetDebugEventTyped
<1>2. Top(s).op # "POLL" => TypedOutcomes(Replying(Continued(s), 0)) /\ TypedOutcomes(Replying(s, 0))
    BY EnteringParts, ReplyingTyped
<1>3. Top(s).op # "POLL" => TypedOutcomes(UNION {SendNames(s, k) : k \in 0 .. MaxNames})
    BY SendNamesTyped DEF TypedOutcomes
<1>4. Top(s).op # "POLL" => TypedOutcomes(Appcall(s))
    BY AppcallTyped
<1>5. TypedOutcomes(PollEvents(s))
    BY PollEventsTyped
<1> QED BY <1>1, <1>2, <1>3, <1>4, <1>5 DEF Body

\* The client has answered about an event of an appcall.
LEMMA AppcallAnsweredTyped ==
    ASSUME NEW s, Entering(s), Top(s).op # "POLL", NEW good \in BOOLEAN
    PROVE  TypedOutcomes(AppcallAnswered(s, good))
<1>1. TypedOutcomes(Replying(s, s.got))
    BY GotTyped, ReplyingTyped
<1>2. Shaped(At(Continued(s), "loop"))
  <2>1. Continued(s) \in Server /\ Continued(s).frames = s.frames
      BY ContinuedFields DEF Entering
  <2>2. /\ At(Continued(s), "loop") \in Server /\ At(Continued(s), "loop").frames = s.frames
        /\ At(Continued(s), "loop").pc = "loop"
      BY <2>1, AtFields
  <2>3. Top(s) \in Frame /\ Top(s) = s.frames[Len(s.frames)] /\ Len(s.frames) \in Nat \ {0}
      BY PoppedFields DEF Entering
  <2>4. FrameOK(Top(s))
      BY <2>3 DEF Entering, FrameOK
  <2>5. \A i \in 1 .. Len(s.frames) : FrameOK(s.frames[i])
      BY <2>3, <2>4 DEF Entering
  <2> QED BY <2>2, <2>5 DEF Shaped, Entering, Top
<1>3. TypedOutcomes(Silent(At(Continued(s), "loop")))
    BY <1>2, SilentTyped
<1> QED BY <1>1, <1>3 DEF AppcallAnswered

\* The nested process_request returns.
LEMMA ReturnedTyped ==
    ASSUME NEW s, Shaped(s), s.frames # << >>, NEW good \in BOOLEAN
    PROVE  TypedOutcomes(Returned(s, good))
<1> DEFINE f == Top(s)
           g == [f EXCEPT !.wait = "none"]
           s1 == Retop(s, g)
<1>1. /\ f \in Frame /\ FrameOK(f) /\ Len(s.frames) \in Nat \ {0}
      /\ \A i \in 1 .. Len(s.frames) - 1 : FrameOK(s.frames[i])
    BY PoppedFields DEF Shaped
<1>2. g \in Frame /\ g.wait = "none" /\ g.op = f.op
    BY <1>1 DEF Frame
<1> HIDE DEF f, g
<1>3. Entering(s1) /\ Top(s1) = g
  <2>1. s \in Server
      BY DEF Shaped
  <2>2. /\ s1 \in Server /\ s1.frames # << >> /\ Len(s1.frames) = Len(s.frames)
        /\ \A i \in 1 .. Len(s.frames) : s1.frames[i] = IF i = Len(s.frames) THEN g ELSE s.frames[i]
        /\ Top(s1) = g
      BY <1>2, <2>1, Retopped
  <2> HIDE DEF s1
  <2> QED BY <1>1, <1>2, <2>2 DEF Entering
<1> HIDE DEF s1
<1>4. TypedOutcomes(Body(s1))
    BY <1>3, BodyTyped
<1>5. f.wait = "SET_DEBUG_NAMES" => TypedOutcomes(SendNames(s1, IF good THEN f.left - 1 ELSE 0))
  <2>1. f.wait = "SET_DEBUG_NAMES" => (IF good THEN f.left - 1 ELSE 0) \in 0 .. MaxNames
      BY <1>1, FrameTyped, BoundsAssumption DEF FrameOK
  <2>2. f.wait = "SET_DEBUG_NAMES" => Top(s1).op # "POLL"
      BY <1>1, <1>2, <1>3 DEF FrameOK
  <2> QED BY <1>3, <2>1, <2>2, SendNamesTyped
<1>6. f.wait # "MSG" => TypedOutcomes(AppcallAnswered(s1, good))
    BY <1>1, <1>2, <1>3, AppcallAnsweredTyped DEF FrameOK
<1> QED BY <1>4, <1>5, <1>6 DEF Returned, f, g, s1

\* The fields of the client.
LEMMA ClientTyped ==
    ASSUME NEW c \in ClientState
    PROVE  /\ c.calls \in Seq(Requests \cup Callbacks) /\ c.held \in Nat /\ c.pending \in Nat
           /\ c.polling \in BOOLEAN /\ c.told \in Nat /\ c.gone \in BOOLEAN
BY DEF ClientState

\* A step of the server has one of the outcomes.
LEMMA TakesTyped ==
    ASSUME NEW O, TypedOutcomes(O), Takes(O), toClient \in Seq(Packet)
    PROVE  Shaped(srv)' /\ toClient' \in Seq(Packet)
<1>1. PICK o \in O : srv' = o.srv /\ toClient' = toClient \o o.out
    BY DEF Takes
<1>2. Shaped(o.srv) /\ o.out \in Seq(Packet)
    BY <1>1 DEF TypedOutcomes
<1>3. Shaped(srv)'
    BY <1>1, <1>2 DEF Shaped, Top, TopOf
<1> QED BY <1>1, <1>2, <1>3, ConcatProperties

Shapes == TypeOK /\ Shaped(srv)

\* A request enters perform_request, or poll_events begins.
LEMMA EnteredTyped ==
    ASSUME NEW s, Shaped(s), NEW op \in Requests \cup {"POLL"}
    PROVE  Entering(Entered(s, op)) /\ Top(Entered(s, op)).op = op
<1>1. s \in Server
    BY DEF Shaped
<1>2. NewFrame(op, op # "POLL" /\ s.poll_debug_events).op = op
      /\ NewFrame(op, op # "POLL" /\ s.poll_debug_events).wait = "none"
    BY DEF NewFrame
<1>3. Len(Entered(s, op).frames) - 1 = Len(s.frames)
    BY <1>1, EnteredFields
<1> QED BY <1>1, <1>2, <1>3, EnteredFields DEF Entering, Shaped

\* The packet that is read.
LEMMA HeadTyped ==
    ASSUME NEW q \in Seq(Packet), q # << >>
    PROVE  Head(q) \in Packet /\ Tail(q) \in Seq(Packet) /\ Head(q).good \in BOOLEAN
           /\ Head(q).n \in Nat /\ Head(q).code \in Requests \cup Callbacks \cup {"OK", "EVENT", "EVOK"}
<1>1. Head(q) \in Packet /\ Tail(q) \in Seq(Packet)
    BY HeadTailProperties
<1> QED BY <1>1 DEF Packet

\* Every step of the server keeps the shapes.
LEMMA ServerTyped ==
    ASSUME Shapes, ServerStep
    PROVE  Shapes'
<1> USE DEF Shapes
<1>1. /\ srv \in Server /\ cl \in ClientState
      /\ toServer \in Seq(Packet) /\ toClient \in Seq(Packet)
      /\ net \in {"up", "down"} /\ made \in Nat /\ budget \in [extra : Nat, talk : Nat]
      /\ Shaped(srv)
    BY DEF TypeOK
<1>2. \A c \in SUBSET (Requests \cup Callbacks \cup {"OK", "EVENT", "EVOK"}) :
         PacketArrived(c) => /\ Head(toServer).code \in c /\ Tail(toServer) \in Seq(Packet)
                             /\ Head(toServer).good \in BOOLEAN
    BY <1>1, HeadTyped DEF PacketArrived
<1>3. Shaped(srv)' /\ toClient' \in Seq(Packet) /\ toServer' \in Seq(Packet)
      /\ cl' = cl /\ net' = net /\ made' \in Nat /\ budget' \in [extra : Nat, talk : Nat]
      => Shapes'
    BY <1>1 DEF TypeOK, Shaped
<1>4. CASE ServerPerforms
  <2>1. Head(toServer).code \in Requests /\ Tail(toServer) \in Seq(Packet)
      BY <1>2, <1>4 DEF ServerPerforms
  <2>2. TypedOutcomes(Body(Entered(srv, Head(toServer).code)))
      BY <1>1, <2>1, EnteredTyped, BodyTyped
  <2> QED BY <1>1, <1>3, <1>4, <2>1, <2>2, TakesTyped DEF ServerPerforms
<1>5. CASE ServerTalks
  <2>1. Head(toServer).code \in Requests /\ Tail(toServer) \in Seq(Packet)
      BY <1>2, <1>5 DEF ServerTalks
  <2>2. TypedOutcomes(Calling(Entered(srv, Head(toServer).code), "MSG", 0))
      BY <1>1, <2>1, EnteredTyped, CallingTyped DEF Callbacks
  <2>3. budget' \in [extra : Nat, talk : Nat]
      BY <1>1, <1>5 DEF ServerTalks
  <2> QED BY <1>1, <1>3, <1>5, <2>1, <2>2, <2>3, TakesTyped DEF ServerTalks
<1>6. CASE ServerEvok
  <2>1. Tail(toServer) \in Seq(Packet)
      BY <1>2, <1>6 DEF ServerEvok
  <2>2. At(srv, "null") \in Server /\ At(srv, "null").frames = srv.frames
        /\ At(srv, "null").pc = "null"
      BY <1>1, AtFields
  <2>3. Shaped(At(srv, "null"))
      BY <1>1, <2>2 DEF Shaped
  <2>4. TypedOutcomes(Evok(srv))
      BY <1>1, <2>3, SilentTyped DEF Evok
  <2> QED BY <1>1, <1>3, <1>6, <2>1, <2>4, TakesTyped DEF ServerEvok
<1>7. CASE ServerAnswered
  <2>1. Tail(toServer) \in Seq(Packet) /\ Head(toServer).good \in BOOLEAN
      BY <1>2, <1>7 DEF ServerAnswered
  <2>2. At(srv, "ended") \in Server /\ At(srv, "ended").frames = srv.frames
        /\ At(srv, "ended").pc = "ended"
      BY <1>1, AtFields
  <2>3. Shaped(At(srv, "ended"))
      BY <1>1, <2>2 DEF Shaped
  <2>4. TypedOutcomes(IF srv.frames = << >> THEN Silent(At(srv, "ended"))
                      ELSE Returned(srv, Head(toServer).good))
      BY <1>1, <2>1, <2>3, SilentTyped, ReturnedTyped
  <2> QED BY <1>1, <1>3, <1>7, <2>1, <2>4, TakesTyped DEF ServerAnswered
<1>8. CASE ServerPolls
  <2>1. TypedOutcomes(Body(Entered(srv, "POLL")))
      BY <1>1, EnteredTyped, BodyTyped
  <2> QED BY <1>1, <1>3, <1>8, <2>1, TakesTyped DEF ServerPolls
<1>9. CASE ServerPollTalks
  <2>1. TypedOutcomes(Calling(Entered(srv, "POLL"), "MSG", 0))
      BY <1>1, EnteredTyped, CallingTyped DEF Callbacks
  <2>2. budget' \in [extra : Nat, talk : Nat]
      BY <1>1, <1>9 DEF ServerPollTalks
  <2> QED BY <1>1, <1>3, <1>9, <2>1, <2>2, TakesTyped DEF ServerPollTalks
<1>10. CASE ServerLost
  <2>1. srv' \in Server /\ srv'.frames = srv.frames /\ srv'.pc = "null"
    <3>1. PICK code \in BOOLEAN :
             srv' = [At(srv, "null") EXCEPT !.network_error_code = @ \/ code,
                                            !.broken_connection = TRUE]
        BY <1>10 DEF ServerLost
    <3>2. PICK r \in Server : r = At(srv, "null") /\ r.frames = srv.frames /\ r.pc = "null"
        BY <1>1, AtFields
    <3>3. srv' = [r EXCEPT !.network_error_code = (r.network_error_code \/ code),
                           !.broken_connection = TRUE]
        BY <3>1, <3>2
    <3>4. (r.network_error_code \/ code) \in BOOLEAN
        OBVIOUS
    <3> QED BY <3>2, <3>3, <3>4 DEF Server
  <2> QED BY <1>1, <1>3, <1>10, <2>1 DEF ServerLost, Shaped
<1>11. CASE ServerUnwinds
  <2>1. /\ At(srv, "ended") \in Server /\ At(srv, "ended").frames = srv.frames
        /\ At(srv, "ended").pc = "ended"
        /\ At(srv, "recv") \in Server /\ At(srv, "recv").frames = srv.frames
        /\ At(srv, "recv").pc = "recv"
      BY <1>1, AtFields
  <2>2. Shaped(At(srv, "ended")) /\ Shaped(At(srv, "recv"))
      BY <1>1, <2>1 DEF Shaped
  <2>3. TypedOutcomes(Unwound(srv))
      BY <1>1, <2>1, <2>2, SilentTyped, ReturnedTyped DEF Unwound
  <2> QED BY <1>1, <1>3, <1>11, <2>3, TakesTyped DEF ServerUnwinds
<1>12. CASE AppcallEvent
  <2> DEFINE s == Fetched(srv)
             Shown(last) == Calling(Retop(s, [Top(s) EXCEPT !.last = last]),
                                    "HANDLE_DEBUG_EVENT", s.got)
  <2>1. Entering(srv) /\ Top(srv).op # "POLL"
      BY <1>1, <1>12, PoppedFields DEF Shaped, Entering, AppcallEvent
  <2>2. Entering(s) /\ Top(s).op # "POLL"
      BY <2>1, EnteringParts
  <2> HIDE DEF s
  <2>3. ASSUME NEW last \in BOOLEAN PROVE TypedOutcomes(Shown(last))
    <3> DEFINE f == [Top(s) EXCEPT !.last = last]
    <3>1. f \in Frame /\ f.op # "POLL" /\ f.wait = "none"
        BY <2>2, EnteringParts DEF Frame, Entering
    <3> HIDE DEF f
    <3>2. Entering(Retop(s, f)) /\ Top(Retop(s, f)) = f
        BY <2>2, <3>1, EnteringParts, Retopped DEF Entering
    <3>3. TypedOutcomes(Calling(Retop(s, f), "HANDLE_DEBUG_EVENT", s.got))
        BY <2>2, <3>1, <3>2, GotTyped, CallingTyped DEF Callbacks
    <3> QED BY <3>3 DEF f
  <2>4. TypedOutcomes(Replying(s, s.got))
      BY <2>2, GotTyped, ReplyingTyped
  <2> HIDE DEF Shown
  <2>5. TypedOutcomes(IF Top(s).late THEN Shown(TRUE)
                      ELSE Replying(s, s.got) \cup Shown(TRUE) \cup Shown(FALSE))
      BY <2>3, <2>4 DEF TypedOutcomes
  <2>6. Takes(IF Top(s).late THEN Shown(TRUE)
              ELSE Replying(s, s.got) \cup Shown(TRUE) \cup Shown(FALSE))
      BY <1>12 DEF AppcallEvent, s, Shown
  <2> QED BY <1>1, <1>3, <1>12, <2>5, <2>6, TakesTyped DEF AppcallEvent
<1>13. CASE AppcallTimeout
  <2>1. Entering(srv) /\ Top(srv).op # "POLL"
      BY <1>1, <1>13, PoppedFields DEF Shaped, Entering, AppcallTimeout
  <2>2. TypedOutcomes(Replying(srv, srv.got))
      BY <2>1, GotTyped, ReplyingTyped
  <2> DEFINE f == [Top(srv) EXCEPT !.late = TRUE]
  <2>3. f \in Frame /\ f.op # "POLL" /\ f.wait = "none"
      BY <2>1, EnteringParts DEF Frame, Entering
  <2> HIDE DEF f
  <2>4. /\ Retop(srv, f) \in Server /\ Retop(srv, f).frames # << >>
        /\ Len(Retop(srv, f).frames) = Len(srv.frames)
        /\ \A i \in 1 .. Len(srv.frames) :
              Retop(srv, f).frames[i] = IF i = Len(srv.frames) THEN f ELSE srv.frames[i]
        /\ Top(Retop(srv, f)) = f
      BY <2>1, <2>3, Retopped DEF Entering
  <2>5. FrameOK(f)
      BY <2>3 DEF FrameOK
  <2>6. Shaped(Retop(srv, f))
      BY <1>1, <2>3, <2>4, <2>5 DEF Shaped
  <2>7. TypedOutcomes(Silent(Retop(srv, f)))
      BY <2>6, SilentTyped
  <2>8. \/ Takes(Replying(srv, srv.got)) /\ made' = made
        \/ Takes(Silent(Retop(srv, f))) /\ made' = made + 1
      BY <1>13 DEF AppcallTimeout, f
  <2> QED BY <1>1, <1>3, <1>13, <2>2, <2>7, <2>8, TakesTyped DEF AppcallTimeout
<1> QED BY <1>4, <1>5, <1>6, <1>7, <1>8, <1>9, <1>10, <1>11, <1>12, <1>13 DEF ServerStep

\* So does every request of the client.
LEMMA AskingTyped ==
    ASSUME Shapes, NEW r \in Requests, Asks(r), budget' \in [extra : Nat, talk : Nat]
    PROVE  Shapes'
<1>1. cl.calls \in Seq(Requests \cup Callbacks)
    BY ClientTyped DEF Shapes, TypeOK
<1>2. Append(cl.calls, r) \in Seq(Requests \cup Callbacks)
    BY <1>1, AppendProperties
<1>3. cl' \in ClientState
    BY <1>2 DEF Asks, Shapes, TypeOK, ClientState
<1>4. toServer' \in Seq(Packet)
    BY PacketsTyped, AppendProperties DEF Asks, Shapes, TypeOK
<1>5. Shaped(srv)'
    BY DEF Asks, Shapes, Shaped
<1> QED BY <1>3, <1>4, <1>5 DEF Asks, Shapes, TypeOK

\* So does every step of the client.
LEMMA ClientStepTyped ==
    ASSUME Shapes, ClientStep
    PROVE  Shapes'
<1>1. /\ srv \in Server /\ cl \in ClientState
      /\ toServer \in Seq(Packet) /\ toClient \in Seq(Packet)
      /\ net \in {"up", "down"} /\ made \in Nat /\ budget \in [extra : Nat, talk : Nat]
      /\ Shaped(srv)
    BY DEF Shapes, TypeOK
<1>2. \A c : ToClientArrived(c) =>
          /\ Head(toClient).code \in c /\ Head(toClient).n \in Nat
          /\ Tail(toClient) \in Seq(Packet)
    BY <1>1, HeadTyped DEF ToClientArrived
<1>3. /\ cl.calls \in Seq(Requests \cup Callbacks)
      /\ cl.calls # << >> => /\ Pop(cl.calls) \in Seq(Requests \cup Callbacks)
                             /\ TopOf(cl.calls) \in Requests \cup Callbacks
    BY <1>1, ClientTyped, Popping
<1>4. /\ srv' = srv /\ cl' \in ClientState
      /\ toServer' \in Seq(Packet) /\ toClient' \in Seq(Packet)
      /\ net' \in {"up", "down"} /\ made' \in Nat /\ budget' \in [extra : Nat, talk : Nat]
      => Shapes'
    BY <1>1 DEF Shapes, TypeOK, Shaped
<1>5. CASE ClientGetEvent
    BY <1>1, <1>5, AskingTyped DEF ClientGetEvent, Requests
<1>6. CASE ClientContinues
    BY <1>1, <1>6, AskingTyped DEF ClientContinues, Requests
<1>7. CASE ClientExtra
  <2>1. budget' \in [extra : Nat, talk : Nat]
      BY <1>1, <1>7 DEF ClientExtra
  <2> QED BY <1>7, <2>1, AskingTyped DEF ClientExtra, Requests
<1>8. CASE ClientTakesEvent
  <2>1. cl' \in ClientState
      BY <1>1, <1>8 DEF ClientTakesEvent, ClientState
  <2> QED BY <1>1, <1>4, <1>8, <2>1 DEF ClientTakesEvent
<1>9. CASE ClientReply
  <2> DEFINE k == Head(toClient).n
             t == IF k = 0 THEN cl.told ELSE k
             q == Pop(cl.calls)
  <2>1. k \in Nat /\ t \in Nat /\ q \in Seq(Requests \cup Callbacks) /\ Tail(toClient) \in Seq(Packet)
      BY <1>1, <1>2, <1>3, <1>9, ClientTyped DEF ClientReply, Waiting
  <2>2. \/ cl' = [cl EXCEPT !.calls = q, !.told = t]
        \/ cl' = [cl EXCEPT !.calls = q, !.told = t, !.held = k]
        \/ cl' = [cl EXCEPT !.calls = q, !.told = t, !.held = 0]
        \/ cl' = [cl EXCEPT !.calls = q, !.told = t, !.polling = ClientPolls]
      BY <1>1, <1>9 DEF ClientReply, ClientState
  <2> HIDE DEF k, t, q
  <2>3. /\ [cl EXCEPT !.calls = q, !.told = t] \in ClientState
        /\ [cl EXCEPT !.calls = q, !.told = t, !.held = k] \in ClientState
        /\ [cl EXCEPT !.calls = q, !.told = t, !.held = 0] \in ClientState
        /\ [cl EXCEPT !.calls = q, !.told = t, !.polling = ClientPolls] \in ClientState
      BY <1>1, <2>1, PollsAssumption DEF ClientState
  <2>4. cl' \in ClientState
      BY <2>2, <2>3
  <2> QED BY <1>1, <1>4, <1>9, <2>1, <2>4 DEF ClientReply
<1>10. CASE ClientEvent
  <2>1. cl' \in ClientState
      BY <1>1, <1>2, <1>10 DEF ClientEvent, ClientState
  <2>2. toServer' \in Seq(Packet)
      BY <1>1, <1>10, PacketsTyped, AppendProperties DEF ClientEvent
  <2> QED BY <1>1, <1>2, <1>4, <1>10, <2>1, <2>2 DEF ClientEvent
<1>11. CASE ClientCallback
  <2> DEFINE k == Head(toClient).n
             t == IF k = 0 THEN cl.told ELSE k
             q == Append(cl.calls, Head(toClient).code)
  <2>1. t \in Nat /\ q \in Seq(Requests \cup Callbacks) /\ Tail(toClient) \in Seq(Packet)
      BY <1>1, <1>2, <1>3, <1>11, ClientTyped, AppendProperties DEF ClientCallback
  <2>2. cl' = [cl EXCEPT !.calls = q, !.told = t]
      BY <1>1, <1>11 DEF ClientCallback, ClientState
  <2> HIDE DEF t, q
  <2>3. cl' \in ClientState
      BY <1>1, <2>1, <2>2 DEF ClientState
  <2> QED BY <1>1, <1>4, <1>11, <2>1, <2>3 DEF ClientCallback
<1>12. CASE ClientAnswers
  <2>1. cl' \in ClientState
      BY <1>1, <1>3, <1>12 DEF ClientAnswers, Answering, ClientState
  <2>2. PICK good \in BOOLEAN :
           toServer' = Append(toServer, [Answer(TopOf(cl.calls), 0) EXCEPT !.good = good])
      BY <1>12 DEF ClientAnswers
  <2>3. TopOf(cl.calls) \in Callbacks
      BY <1>12 DEF ClientAnswers, Answering
  <2>4. [Answer(TopOf(cl.calls), 0) EXCEPT !.good = good] \in Packet
      BY <2>3, PacketsTyped DEF Packet
  <2>5. toServer' \in Seq(Packet)
      BY <1>1, <2>2, <2>4, AppendProperties
  <2> QED BY <1>1, <1>4, <1>12, <2>1, <2>5 DEF ClientAnswers
<1>13. CASE ClientCloses
  <2>1. cl' = [cl EXCEPT !.calls = << >>, !.gone = TRUE] /\ << >> \in Seq(Requests \cup Callbacks)
      BY <1>13, EmptySeq DEF ClientCloses, Gone
  <2>3. cl' \in ClientState
      BY <1>1, <2>1 DEF ClientState
  <2>2. toServer' \in Seq(Packet)
      BY <1>1, <1>13, PacketsTyped, AppendProperties DEF ClientCloses
  <2> QED BY <1>1, <1>4, <1>13, <2>3, <2>2 DEF ClientCloses
<1>14. CASE ConnectionBreaks
  <2>1. cl' = [cl EXCEPT !.calls = << >>, !.gone = TRUE] /\ << >> \in Seq(Requests \cup Callbacks)
      BY <1>14, EmptySeq DEF ConnectionBreaks, Gone
  <2>3. cl' \in ClientState
      BY <1>1, <2>1 DEF ClientState
  <2>2. toServer' \in Seq(Packet)
      BY <1>1, <1>14, CountPrefix DEF ConnectionBreaks
  <2> QED BY <1>1, <1>4, <1>14, <2>3, <2>2 DEF ConnectionBreaks
<1> QED BY <1>5, <1>6, <1>7, <1>8, <1>9, <1>10, <1>11, <1>12, <1>13, <1>14 DEF ClientStep

\* So does every step.
LEMMA NextTyped ==
    ASSUME Shapes, [Next]_vars
    PROVE  Shapes'
<1>1. CASE Happens
    BY <1>1 DEF Happens, Shapes, TypeOK, Shaped
<1>2. CASE Terminated \/ UNCHANGED vars
    BY <1>2 DEF Terminated, vars, Shapes, TypeOK, Shaped
<1> QED BY <1>1, <1>2, ServerTyped, ClientStepTyped DEF Next

\* Whatever the client does, rpc_server_t, its stack and the packets have the
\* values their types allow; no frame waits for names it has none left of.
THEOREM TypesHold == Spec => []TypeOK
<1>1. Init => Shapes
  <2> SUFFICES ASSUME Init PROVE Shapes
      OBVIOUS
  <2>1. srv \in Server /\ srv.frames = << >> /\ srv.pc = "recv"
      BY DEF Init, Server
  <2>2. cl \in ClientState
      BY DEF Init, ClientState
  <2>3. Shaped(srv)
      BY <2>1 DEF Shaped
  <2> QED BY <2>1, <2>2, <2>3, BoundsAssumption DEF Init, Shapes, TypeOK
<1> QED BY <1>1, NextTyped, PTL DEF Spec, Shapes

Coded(x) == {p \in Packet : p.code = x}
AnswersTo(x) == {p \in Packet : p.code = "OK" /\ p.re = x}

\* Answers to GET_DEBUG_EVENT without and with an event.
Empty == {p \in AnswersTo("GET_DEBUG_EVENT") : p.n = 0}
Full == {p \in AnswersTo("GET_DEBUG_EVENT") : p.n # 0}

\* The packets that tell the client of the event that is out.
News == Coded("EVENT") \cup Full \cup Coded("HANDLE_DEBUG_EVENT") \cup AnswersTo("APPCALL")

\* The requests that a client sends only when it does nothing else.
Main == Requests \ {"OTHER"}

-----------------------------------------------------------------------------
(* The server's stack *)

Performs(s, r) == One(Len(s.frames) >= 1 /\ s.frames[1].op = r) +
                  One(Len(s.frames) >= 2 /\ s.frames[2].op = r)
Waits(s, c) == One(Len(s.frames) >= 1 /\ s.frames[1].wait = c) +
               One(Len(s.frames) >= 2 /\ s.frames[2].wait = c)

\* The poll mode is on, put off until a request has been performed, or in use.
Polls(s) == One(s.poll_debug_events) +
            One(Len(s.frames) >= 1 /\ (s.frames[1].saved \/ s.frames[1].op = "POLL"))

\* At most two process_requests are nested, and only the names of an event, the
\* events of an appcall and messages are sent from within one.
StackShape(s) ==
    /\ Len(s.frames) <= 2
    /\ Len(s.frames) >= 1 =>
          LET f == s.frames[1]
          IN /\ ~s.poll_debug_events
             /\ f.saved => f.op = "OTHER"
             /\ f.wait = "SET_DEBUG_NAMES" => f.op = "STOPPED_AT_DEBUG_EVENT"
             /\ f.wait = "HANDLE_DEBUG_EVENT" => f.op = "APPCALL"
    /\ Len(s.frames) = 2 =>
          LET f == s.frames[2]
          IN /\ f.op = "OTHER" /\ ~f.saved /\ f.wait \in {"none", "MSG"}
             /\ s.frames[1].op # "OTHER" /\ s.frames[1].wait # "none"

\* Between two steps every process_request on the stack waits for an answer,
\* except that of an appcall in its event loop.
StackWaits(s) ==
    /\ s.pc \in {"recv", "null"} => \A i \in 1 .. Len(s.frames) : s.frames[i].wait # "none"
    /\ s.pc = "loop" => /\ Len(s.frames) = 1 /\ s.frames[1].op = "APPCALL"
                        /\ s.frames[1].wait = "none" /\ ~s.in_event
    /\ s.pc = "ended" => s.frames = << >>
    /\ s.pc = "recv" /\ s.network_error_code => s.frames = << >>

\* In the middle of a step the request on top is being performed.
Performing(s) ==
    /\ Len(s.frames) >= 1 /\ Top(s).wait = "none"
    /\ Len(s.frames) = 2 => s.frames[1].wait # "none"

-----------------------------------------------------------------------------
(* What the server has to do, whether the client is there or not *)

Pending(s, ts, r) == Count(ts, Coded(r)) + Performs(s, r)

\* One request of the main kind at a time, and none while the server polls.
OneAtATime(s, ts) ==
    /\ Pending(s, ts, "GET_DEBUG_EVENT") + Pending(s, ts, "CONTINUE_AFTER_EVENT") +
       Pending(s, ts, "STOPPED_AT_DEBUG_EVENT") + Pending(s, ts, "APPCALL") + Polls(s) <= 1
    /\ Pending(s, ts, "OTHER") <= 1

MainWhenIdle(s, ts) ==
    \A r \in Main : Count(ts, Coded(r)) >= 1 => s.frames = << >> /\ Count(ts, Coded("OTHER")) = 0

\* An answer is on its way only to a call that waits for it.  After a failed send
\* only the answer to a message can be left over.
AnswersExpected(s, ts) ==
    LET answers(c) == Count(ts, AnswersTo(c))
    IN /\ answers("SET_DEBUG_NAMES") <= Waits(s, "SET_DEBUG_NAMES")
       /\ answers("HANDLE_DEBUG_EVENT") <= Waits(s, "HANDLE_DEBUG_EVENT")
       /\ ~s.network_error_code => answers("MSG") <= Waits(s, "MSG")
       /\ answers("SET_DEBUG_NAMES") + answers("HANDLE_DEBUG_EVENT") >= 1 =>
             ~s.network_error_code /\ Pending(s, ts, "OTHER") = 0

\* The client's goodbye is its last packet and finds no request.
GoodbyeLast(s, ts) ==
    \A i \in 1 .. Len(ts) : ts[i] \in AnswersTo("CLOSE") =>
        /\ i = Len(ts)
        /\ \A r \in Requests : Pending(s, ts, r) = 0

ToServerOK(ts) ==
    \A i \in 1 .. Len(ts) :
        \/ ts[i].code \in Requests \cup {"EVOK"}
        \/ ts[i].code = "OK" /\ ts[i].re \in Callbacks \cup {"CLOSE"}

\* An appcall sends a message before it resumes the process.
Talking(s) == Len(s.frames) >= 1 /\ s.frames[1].op = "APPCALL" /\ s.frames[1].wait = "MSG"

\* Events are taken one at a time, and the process is resumed when the client
\* knows the last one.
EventsInOrder(s, ts, told) ==
    /\ s.got \in {told, told + 1}
    /\ s.in_event => s.got # 0
    /\ ~s.in_event => told = s.got
    /\ Pending(s, ts, "GET_DEBUG_EVENT") + Polls(s) >= 1 => ~s.in_event
    /\ Pending(s, ts, "CONTINUE_AFTER_EVENT") + Count(ts, Coded("APPCALL")) +
       Count(ts, AnswersTo("HANDLE_DEBUG_EVENT")) >= 1 => told = s.got
    /\ Talking(s) => told = s.got

ServerInv(s, ts, told) ==
    /\ StackShape(s) /\ OneAtATime(s, ts) /\ MainWhenIdle(s, ts) /\ AnswersExpected(s, ts)
    /\ GoodbyeLast(s, ts) /\ ToServerOK(ts) /\ EventsInOrder(s, ts, told)

-----------------------------------------------------------------------------
(* The conversation, while the connection lasts *)

CallsShape(calls) ==
    /\ Len(calls) <= 4
    /\ Len(calls) >= 1 => calls[1] \in Requests \cup {"MSG"}
    /\ Len(calls) >= 2 => /\ calls[1] \in Requests /\ calls[2] \in Callbacks
                          /\ calls[2] = "SET_DEBUG_NAMES" => calls[1] = "STOPPED_AT_DEBUG_EVENT"
                          /\ calls[2] = "HANDLE_DEBUG_EVENT" => calls[1] = "APPCALL"
    /\ Len(calls) >= 3 => calls[2] # "MSG" /\ calls[3] = "OTHER"
    /\ Len(calls) = 4 => calls[4] = "MSG"

InCalls(c, x) == One(\E i \in 1 .. Len(c.calls) : c.calls[i] = x)

\* Every call of either side is on its way, being performed, or answered.
Balanced(s, ts, tc, c, r) == InCalls(c, r) = Pending(s, ts, r) + Count(tc, AnswersTo(r))
Awaited(s, ts, tc, c, b) ==
    Waits(s, b) = Count(tc, Coded(b)) + InCalls(c, b) + Count(ts, AnswersTo(b))
Conserved(s, ts, tc, c) ==
    /\ \A r \in Requests : Balanced(s, ts, tc, c, r)
    /\ \A b \in Callbacks : Awaited(s, ts, tc, c, b)

ToClientOK(tc, got) ==
    \A i \in 1 .. Len(tc) :
        /\ \/ tc[i].code \in Callbacks \cup {"EVENT"}
           \/ tc[i].code = "OK" /\ tc[i].re \in Requests
        /\ tc[i].n # 0 => tc[i] \in News
        /\ tc[i] \in News => tc[i].n = got

\* Where the cycle of one event stands: it is asked for, polled for, known, or
\* being handled.
Stage(c) ==
    /\ InCalls(c, "GET_DEBUG_EVENT") + One(c.polling) + One(c.pending # 0) + One(c.held # 0) <= 1
    /\ InCalls(c, "CONTINUE_AFTER_EVENT") + InCalls(c, "STOPPED_AT_DEBUG_EVENT") +
       InCalls(c, "APPCALL") >= 1 => c.held # 0
Cycle(s, tc, c) ==
    /\ One(c.polling) + Count(tc, Empty) = Polls(s) + Count(tc, Coded("EVENT"))
    /\ s.in_event => Count(tc, Full) + Count(tc, Coded("EVENT")) + One(c.pending # 0) +
                     One(c.held # 0) >= 1
    /\ Count(tc, AnswersTo("CONTINUE_AFTER_EVENT")) >= 1 => ~s.in_event
    /\ s.got # c.told => Count(tc, News) >= 1
AnswerFirst(tc) ==
    Count(tc, AnswersTo("GET_DEBUG_EVENT")) >= 1 => tc[1] \in AnswersTo("GET_DEBUG_EVENT")

Connected(s, ts, tc, c) ==
    /\ ~s.network_error_code /\ s.pc \in {"recv", "loop"} /\ ~c.gone
    /\ \A i \in 1 .. Len(ts) : ts[i] \notin AnswersTo("CLOSE")
    /\ CallsShape(c.calls)
    /\ Conserved(s, ts, tc, c)
    /\ ToClientOK(tc, s.got)
    /\ Stage(c) /\ Cycle(s, tc, c) /\ AnswerFirst(tc)

Disconnected(s, ts, tc, c) ==
    /\ tc = << >> /\ c.calls = << >> /\ c.gone
    /\ s.pc = "null" => s.network_error_code \/ ts = << >>

Linked(s, ts, tc, c) ==
    /\ net = "up" => Connected(s, ts, tc, c)
    /\ net = "down" => Disconnected(s, ts, tc, c)

Session(s, ts, tc, c) ==
    /\ s \in Server /\ ts \in Seq(Packet) /\ tc \in Seq(Packet) /\ c \in ClientState
    /\ ~s.has_pending_event /\ s.got <= made
    /\ ServerInv(s, ts, c.told) /\ Linked(s, ts, tc, c)

\* Between two steps, and in the middle of one.
Good(s, ts, tc, c) ==
    /\ Session(s, ts, tc, c)
    /\ StackWaits(s)
    /\ s.pc = "loop" => c.told = s.got
Mid(s, ts, tc, c) == Session(s, ts, tc, c) /\ Performing(s) /\ s.pc \in {"recv", "loop"}

IInv == Shapes /\ Good(srv, toServer, toClient, cl)

-----------------------------------------------------------------------------
(* What the steps of the server do to its stack *)

\* What the server's stack counts: every value is a number of at most two.
LEMMA StackCounts ==
    ASSUME NEW s \in Server, NEW x
    PROVE  Performs(s, x) \in 0 .. 2 /\ Waits(s, x) \in 0 .. 2 /\ Polls(s) \in 0 .. 2
BY DEF Performs, Waits, Polls, One

\* A stack that is not empty has one frame or two.
LEMMA OneOrTwo == \A n \in Nat : n >= 1 /\ n <= 2 => n \in {1, 2}
OBVIOUS

\* A request has been performed: its frame is popped.
LEMMA StackPops ==
    ASSUME NEW s \in Server, NEW s2 \in Server, StackShape(s), Performing(s),
           s2.frames = Popped(s).frames, s2.poll_debug_events => Len(s.frames) = 1
    PROVE  /\ Len(s.frames) \in {1, 2}
           /\ \A x : Performs(s2, x) = Performs(s, x) - One(x = Top(s).op)
           /\ Performs(s, Top(s).op) >= 1
           /\ \A b \in Callbacks : Waits(s2, b) = Waits(s, b)
           /\ Len(s.frames) = 1 => /\ \A b \in Callbacks : Waits(s, b) = 0
                                   /\ s2.frames = << >>
                                   /\ Polls(s2) = One(s2.poll_debug_events)
                                   /\ Polls(s) = One(Top(s).saved \/ Top(s).op = "POLL")
           /\ Len(s.frames) = 2 => /\ Top(s).op = "OTHER" /\ ~Top(s).saved
                                   /\ Polls(s2) = Polls(s)
           /\ StackShape(s2)
           /\ \A i \in 1 .. Len(s2.frames) : s2.frames[i].wait # "none"
<1>1. /\ s.frames # << >> /\ Len(s.frames) \in {1, 2} /\ s.frames \in Seq(Frame)
      /\ ~s.poll_debug_events
  <2>1. s.frames \in Seq(Frame) /\ Len(s.frames) \in Nat
      BY FieldsTyped, LenProperties
  <2>2. Len(s.frames) >= 1 /\ Len(s.frames) <= 2
      BY DEF Performing, StackShape
  <2>3. Len(s.frames) \in {1, 2}
      BY <2>1, <2>2, OneOrTwo
  <2>4. Len(<< >>) = 0
      OBVIOUS
  <2>5. s.frames # << >>
      BY <2>2, <2>4
  <2>6. ~s.poll_debug_events
      BY <2>2 DEF StackShape
  <2> QED BY <2>1, <2>3, <2>5, <2>6
<1>2. /\ s2.frames \in Seq(Frame) /\ Len(s2.frames) = Len(s.frames) - 1
      /\ \A i \in 1 .. Len(s.frames) - 1 : s2.frames[i] = s.frames[i]
      /\ Top(s) = s.frames[Len(s.frames)]
    BY <1>1, PoppedFields
<1>3. CASE Len(s.frames) = 1
  <2>1. s2.frames = << >> /\ Len(s2.frames) = 0 /\ Top(s) = s.frames[1]
      BY <1>2, <1>3, EmptySeq
  <2> QED BY <1>1, <1>3, <2>1 DEF Performing, StackShape, Performs, Waits, Polls, One, Callbacks
<1>4. CASE Len(s.frames) = 2
  <2>1. Len(s2.frames) = 1 /\ s2.frames[1] = s.frames[1] /\ Top(s) = s.frames[2]
      BY <1>2, <1>4
  <2>2. /\ Top(s).wait = "none" /\ s.frames[1].wait # "none" /\ Top(s).op = "OTHER" /\ ~Top(s).saved
        /\ s.frames[1].op # "OTHER" /\ ~s2.poll_debug_events
      BY <1>4, <2>1 DEF Performing, StackShape
  <2>3. StackShape(s2)
      BY <1>4, <2>1, <2>2 DEF StackShape
  <2>4. \A x : Performs(s2, x) = Performs(s, x) - One(x = Top(s).op)
      BY <1>4, <2>1 DEF Performs, One
  <2>5. /\ Performs(s, Top(s).op) >= 1 /\ Polls(s2) = Polls(s)
        /\ \A b \in Callbacks : Waits(s2, b) = Waits(s, b)
      BY <1>1, <1>4, <2>1, <2>2 DEF Performs, Waits, Polls, One, Callbacks
  <2>6. \A i \in 1 .. Len(s2.frames) : s2.frames[i].wait # "none"
      BY <2>1, <2>2
  <2> QED BY <1>4, <2>2, <2>3, <2>4, <2>5, <2>6
<1> QED BY <1>1, <1>3, <1>4

\* The frame on top stays and calls back (or its wait is over, or it begins to wait in the
\* event loop): b is what it waits for now.
LEMMA StackCalls ==
    ASSUME NEW s \in Server, NEW s2 \in Server, StackShape(s), Performing(s),
           NEW b \in Callbacks \cup {"none"},
           Len(s2.frames) = Len(s.frames),
           \A i \in 1 .. Len(s.frames) - 1 : s2.frames[i] = s.frames[i],
           Top(s2).op = Top(s).op, Top(s2).saved = Top(s).saved, Top(s2).wait = b,
           s2.poll_debug_events = s.poll_debug_events,
           b = "SET_DEBUG_NAMES" => Top(s).op = "STOPPED_AT_DEBUG_EVENT",
           b = "HANDLE_DEBUG_EVENT" => Top(s).op = "APPCALL"
    PROVE  /\ Len(s.frames) \in {1, 2}
           /\ \A x : Performs(s2, x) = Performs(s, x)
           /\ Performs(s, Top(s).op) >= 1
           /\ \A x \in Callbacks : Waits(s2, x) = Waits(s, x) + One(x = b)
           /\ Polls(s2) = Polls(s)
           /\ Len(s.frames) = 1 => \A x \in Callbacks : Waits(s, x) = 0
           /\ Len(s.frames) = 2 => Top(s).op = "OTHER"
           /\ StackShape(s2)
           /\ b # "none" => \A i \in 1 .. Len(s2.frames) : s2.frames[i].wait # "none"
<1>1. /\ s.frames # << >> /\ Len(s.frames) \in {1, 2} /\ s.frames \in Seq(Frame)
      /\ ~s.poll_debug_events
  <2>1. s.frames \in Seq(Frame) /\ Len(s.frames) \in Nat
      BY FieldsTyped, LenProperties
  <2>2. Len(s.frames) >= 1 /\ Len(s.frames) <= 2
      BY DEF Performing, StackShape
  <2>3. Len(s.frames) \in {1, 2}
      BY <2>1, <2>2, OneOrTwo
  <2>4. Len(<< >>) = 0
      OBVIOUS
  <2>5. s.frames # << >>
      BY <2>2, <2>4
  <2>6. ~s.poll_debug_events
      BY <2>2 DEF StackShape
  <2> QED BY <2>1, <2>3, <2>5, <2>6
<1>2. CASE Len(s.frames) = 1
  <2>1. Top(s2) = s2.frames[1] /\ Top(s) = s.frames[1]
      BY <1>2 DEF Top, TopOf
  <2> QED BY <1>1, <1>2, <2>1 DEF Performing, StackShape, Performs, Waits, Polls, One, Callbacks
<1>3. CASE Len(s.frames) = 2
  <2>1. Top(s2) = s2.frames[2] /\ Top(s) = s.frames[2] /\ s2.frames[1] = s.frames[1]
      BY <1>3 DEF Top, TopOf
  <2>2. /\ Top(s).wait = "none" /\ s.frames[1].wait # "none" /\ Top(s).op = "OTHER" /\ ~Top(s).saved
        /\ s.frames[1].op # "OTHER" /\ ~s2.poll_debug_events /\ b \in {"none", "MSG"}
      BY <1>1, <1>3, <2>1 DEF Performing, StackShape, Callbacks
  <2>3. StackShape(s2)
      BY <1>3, <2>1, <2>2 DEF StackShape
  <2>4. \A x : Performs(s2, x) = Performs(s, x)
      BY <1>3, <2>1 DEF Performs, One
  <2>5. /\ Performs(s, Top(s).op) >= 1 /\ Polls(s2) = Polls(s)
        /\ \A x \in Callbacks : Waits(s2, x) = Waits(s, x) + One(x = b)
      BY <1>1, <1>3, <2>1, <2>2 DEF Performs, Waits, Polls, One, Callbacks
  <2>6. b # "none" => \A i \in 1 .. Len(s2.frames) : s2.frames[i].wait # "none"
      BY <1>3, <2>1, <2>2
  <2> QED BY <1>3, <2>2, <2>3, <2>4, <2>5, <2>6
<1> QED BY <1>1, <1>2, <1>3

\* An answer has come, or the call has failed: the frame on top waits no more.
LEMMA StackReturns ==
    ASSUME NEW s \in Server, NEW s2 \in Server, StackShape(s), s.frames # << >>,
           \A i \in 1 .. Len(s.frames) : s.frames[i].wait # "none",
           Len(s2.frames) = Len(s.frames),
           \A i \in 1 .. Len(s.frames) - 1 : s2.frames[i] = s.frames[i],
           Top(s2).op = Top(s).op, Top(s2).saved = Top(s).saved, Top(s2).wait = "none",
           s2.poll_debug_events = s.poll_debug_events
    PROVE  /\ Len(s.frames) \in {1, 2}
           /\ Top(s).wait \in Callbacks
           /\ \A x : Performs(s2, x) = Performs(s, x)
           /\ \A x \in Callbacks : Waits(s2, x) = Waits(s, x) - One(x = Top(s).wait)
           /\ Polls(s2) = Polls(s)
           /\ Len(s.frames) = 2 => Top(s).op = "OTHER" /\ Performs(s, "OTHER") >= 1 /\ Top(s).wait = "MSG"
           /\ Len(s.frames) = 1 => \A x \in Callbacks : Waits(s, x) = One(x = Top(s).wait)
           /\ Top(s).wait = "SET_DEBUG_NAMES" => Top(s).op = "STOPPED_AT_DEBUG_EVENT"
           /\ Top(s).wait = "HANDLE_DEBUG_EVENT" => Top(s).op = "APPCALL"
           /\ StackShape(s2)
           /\ Performing(s2)
<1>1. /\ Len(s.frames) \in {1, 2} /\ s.frames \in Seq(Frame) /\ ~s.poll_debug_events
  <2>1. s.frames \in Seq(Frame) /\ Len(s.frames) \in Nat \ {0}
      BY FieldsTyped, EmptySeq
  <2>2. Len(s.frames) >= 1 /\ Len(s.frames) <= 2
      BY <2>1 DEF StackShape
  <2>3. Len(s.frames) \in {1, 2}
      BY <2>1, <2>2, OneOrTwo
  <2> QED BY <2>1, <2>3 DEF StackShape
<1>2. \A i \in 1 .. Len(s.frames) : s.frames[i].wait \in Callbacks
    BY <1>1, ElementOfSeq, FrameTyped
<1>3. CASE Len(s.frames) = 1
  <2>1. Top(s2) = s2.frames[1] /\ Top(s) = s.frames[1]
      BY <1>3 DEF Top, TopOf
  <2> QED BY <1>1, <1>2, <1>3, <2>1 DEF Performing, StackShape, Performs, Waits, Polls, One, Callbacks
<1>4. CASE Len(s.frames) = 2
  <2>1. Top(s2) = s2.frames[2] /\ Top(s) = s.frames[2] /\ s2.frames[1] = s.frames[1]
      BY <1>4 DEF Top, TopOf
  <2>2. /\ s.frames[1].wait # "none" /\ Top(s).op = "OTHER" /\ ~Top(s).saved
        /\ s.frames[1].op # "OTHER" /\ ~s2.poll_debug_events /\ Top(s).wait = "MSG"
      BY <1>1, <1>2, <1>4, <2>1 DEF StackShape, Callbacks
  <2>3. StackShape(s2) /\ Performing(s2)
      BY <1>4, <2>1, <2>2 DEF StackShape, Performing
  <2>4. \A x : Performs(s2, x) = Performs(s, x)
      BY <1>4, <2>1 DEF Performs, One
  <2>5. /\ Performs(s, "OTHER") >= 1 /\ Polls(s2) = Polls(s)
        /\ \A x \in Callbacks : Waits(s2, x) = Waits(s, x) - One(x = Top(s).wait)
      BY <1>1, <1>4, <2>1, <2>2 DEF Performs, Waits, Polls, One, Callbacks
  <2> QED BY <1>2, <1>4, <2>1, <2>2, <2>3, <2>4, <2>5
<1> QED BY <1>1, <1>3, <1>4

\* A request is taken from the stream, or poll_events begins.
LEMMA StackEnters ==
    ASSUME NEW s \in Server, NEW op \in Requests \cup {"POLL"}, NEW s2, s2 = Entered(s, op),
           StackShape(s), \A i \in 1 .. Len(s.frames) : s.frames[i].wait # "none",
           s.frames = << >> \/ (Len(s.frames) = 1 /\ op = "OTHER" /\ s.frames[1].op # "OTHER"),
           s.poll_debug_events => op \in {"OTHER", "POLL"}
    PROVE  /\ s2 \in Server
           /\ \A x : Performs(s2, x) = Performs(s, x) + One(x = op)
           /\ \A x \in Callbacks : Waits(s2, x) = Waits(s, x)
           /\ Polls(s2) = IF op = "POLL" THEN 1 ELSE Polls(s)
           /\ Top(s2).op = op /\ Len(s2.frames) = Len(s.frames) + 1
           /\ StackShape(s2)
           /\ Performing(s2)
<1> DEFINE f == NewFrame(op, op # "POLL" /\ s.poll_debug_events)
<1>1. /\ s2 \in Server /\ s2.frames # << >> /\ Len(s.frames) \in Nat /\ Len(s2.frames) = Len(s.frames) + 1
      /\ \A i \in 1 .. Len(s.frames) : s2.frames[i] = s.frames[i]
      /\ s2.frames[Len(s.frames) + 1] = f /\ Top(s2) = f
      /\ ~s2.poll_debug_events /\ s.poll_debug_events \in BOOLEAN
    BY EnteredFields, FieldsTyped
<1>2. f.op = op /\ f.saved = (op # "POLL" /\ s.poll_debug_events) /\ f.wait = "none"
    BY DEF NewFrame
<1> HIDE DEF f
<1>3. CASE s.frames = << >>
  <2>1. Len(s.frames) = 0 /\ Len(s2.frames) = 1 /\ s2.frames[1] = f
      BY <1>1, <1>3, EmptySeq
  <2>2. StackShape(s2) /\ Performing(s2)
    <3>1. ~s2.poll_debug_events /\ f.wait = "none" /\ Top(s2) = f /\ (f.saved => f.op = "OTHER")
        BY <1>1, <1>2
    <3>2. Len(s2.frames) = 1 /\ s2.frames[1] = f
        BY <2>1
    <3>3. StackShape(s2)
        BY <3>1, <3>2 DEF StackShape
    <3> QED BY <3>1, <3>2, <3>3 DEF Performing
  <2>3. \A x : Performs(s2, x) = Performs(s, x) + One(x = op)
      BY <1>1, <1>2, <2>1 DEF Performs, One
  <2>4. \A x \in Callbacks : Waits(s2, x) = Waits(s, x)
      BY <1>1, <1>2, <2>1 DEF Waits, One, Callbacks
  <2>5. Polls(s2) = IF op = "POLL" THEN 1 ELSE Polls(s)
      BY <1>1, <1>2, <2>1 DEF Polls, One
  <2> QED BY <1>1, <1>2, <2>2, <2>3, <2>4, <2>5
<1>4. CASE Len(s.frames) = 1
  <2>1. /\ Len(s2.frames) = 2 /\ s2.frames[1] = s.frames[1] /\ s2.frames[2] = f /\ op = "OTHER"
        /\ s.frames[1].op # "OTHER" /\ ~s.poll_debug_events /\ s.frames[1].wait # "none"
      BY <1>1, <1>4, EmptySeq DEF StackShape
  <2>2. StackShape(s2) /\ Performing(s2)
      BY <1>1, <1>2, <1>4, <2>1 DEF StackShape, Performing
  <2> QED BY <1>1, <1>2, <1>4, <2>1, <2>2 DEF Performs, Waits, Polls, One, Callbacks
<1> QED BY <1>3, <1>4

-----------------------------------------------------------------------------
(* The server's part of the invariant, whatever a request does *)

\* The three things a server step does with the event that is out.
Keeps(s, s2) == s2.got = s.got /\ s2.in_event = s.in_event
Resumes(s, s2, told) == s2.got = s.got /\ ~s2.in_event /\ told = s.got
Fetches(s, s2, told) == ~s.in_event /\ told = s.got /\ s2.got = s.got + 1 /\ s2.in_event

\* Every count is a number.
LEMMA CountsNat == \A q \in Seq(Packet) : \A S : Count(q, S) \in Nat
BY CountNat

\* The numbers the proofs compute with.
StackTyped(s) ==
    /\ Polls(s) \in Nat
    /\ Performs(s, "GET_DEBUG_EVENT") \in Nat
    /\ Performs(s, "CONTINUE_AFTER_EVENT") \in Nat
    /\ Performs(s, "STOPPED_AT_DEBUG_EVENT") \in Nat
    /\ Performs(s, "APPCALL") \in Nat
    /\ Performs(s, "OTHER") \in Nat
    /\ Waits(s, "MSG") \in Nat
    /\ Waits(s, "SET_DEBUG_NAMES") \in Nat
    /\ Waits(s, "HANDLE_DEBUG_EVENT") \in Nat

QueueTyped(q) ==
    /\ Count(q, Coded("GET_DEBUG_EVENT")) \in Nat
    /\ Count(q, Coded("CONTINUE_AFTER_EVENT")) \in Nat
    /\ Count(q, Coded("STOPPED_AT_DEBUG_EVENT")) \in Nat
    /\ Count(q, Coded("APPCALL")) \in Nat
    /\ Count(q, Coded("OTHER")) \in Nat
    /\ Count(q, Coded("MSG")) \in Nat
    /\ Count(q, Coded("SET_DEBUG_NAMES")) \in Nat
    /\ Count(q, Coded("HANDLE_DEBUG_EVENT")) \in Nat
    /\ Count(q, Coded("EVENT")) \in Nat
    /\ Count(q, AnswersTo("GET_DEBUG_EVENT")) \in Nat
    /\ Count(q, AnswersTo("CONTINUE_AFTER_EVENT")) \in Nat
    /\ Count(q, AnswersTo("STOPPED_AT_DEBUG_EVENT")) \in Nat
    /\ Count(q, AnswersTo("APPCALL")) \in Nat
    /\ Count(q, AnswersTo("OTHER")) \in Nat
    /\ Count(q, AnswersTo("MSG")) \in Nat
    /\ Count(q, AnswersTo("SET_DEBUG_NAMES")) \in Nat
    /\ Count(q, AnswersTo("HANDLE_DEBUG_EVENT")) \in Nat
    /\ Count(q, Empty) \in Nat /\ Count(q, Full) \in Nat

\* The counts the proofs compute with are numbers.
LEMMA NumbersTyped ==
    /\ \A s \in Server : StackTyped(s)
    /\ \A q \in Seq(Packet) : QueueTyped(q)
<1>1. \A s \in Server : StackTyped(s)
    BY StackCounts DEF StackTyped
<1>2. ASSUME NEW q \in Seq(Packet) PROVE QueueTyped(q)
  <2>1. \A S : Count(q, S) \in Nat
      BY CountsNat
  <2> QED BY <2>1 DEF QueueTyped
<1> QED BY <1>1, <1>2

\* So is what is pending.
LEMMA PendingNat ==
    ASSUME NEW s \in Server, NEW ts \in Seq(Packet), NEW x
    PROVE  Pending(s, ts, x) \in Nat
BY StackCounts, CountsNat DEF Pending

\* While a request is being performed no call below it has been answered, except a message.
LEMMA NoneAnswered ==
    ASSUME NEW s \in Server, NEW ts \in Seq(Packet), NEW told \in Nat,
           ServerInv(s, ts, told), Performing(s)
    PROVE  /\ Count(ts, AnswersTo("SET_DEBUG_NAMES")) = 0
           /\ Count(ts, AnswersTo("HANDLE_DEBUG_EVENT")) = 0
           /\ \A r \in Main : Count(ts, Coded(r)) = 0
           /\ Len(s.frames) \in {1, 2}
           /\ Len(s.frames) = 1 => \A x \in Callbacks : Waits(s, x) = 0
           /\ Len(s.frames) = 2 => Top(s).op = "OTHER" /\ ~Top(s).saved
           /\ Performs(s, Top(s).op) >= 1
           /\ Top(s).saved => Top(s).op = "OTHER"
<1>1. /\ StackShape(s) /\ AnswersExpected(s, ts) /\ MainWhenIdle(s, ts)
    BY DEF ServerInv
<1>2. s.frames \in Seq(Frame) /\ s.frames # << >>
  <2>1. Len(s.frames) >= 1
      BY DEF Performing
  <2>2. Len(<< >>) = 0
      OBVIOUS
  <2> QED BY <2>1, <2>2, FieldsTyped
<1>3. PICK r \in Server : r.frames = s.frames /\ ~r.poll_debug_events
  <2>1. /\ [s EXCEPT !.poll_debug_events = FALSE] \in Server
        /\ [s EXCEPT !.poll_debug_events = FALSE].frames = s.frames
        /\ ~[s EXCEPT !.poll_debug_events = FALSE].poll_debug_events
      BY DEF Server
  <2> QED BY <2>1
<1>4. PICK s2 \in Server : s2.frames = Popped(s).frames /\ ~s2.poll_debug_events
  <2>1. Popped(r) \in Server /\ ~Popped(r).poll_debug_events
      BY <1>2, <1>3, PoppedFields
  <2>2. Popped(r).frames = Popped(s).frames
      BY <1>3 DEF Popped, Server
  <2> QED BY <2>1, <2>2
<1>5. /\ Len(s.frames) \in {1, 2} /\ Performs(s, Top(s).op) >= 1
      /\ Len(s.frames) = 1 => \A b \in Callbacks : Waits(s, b) = 0
      /\ Len(s.frames) = 2 => Top(s).op = "OTHER" /\ ~Top(s).saved
    BY <1>1, <1>4, StackPops
<1>6. Top(s) = s.frames[Len(s.frames)]
    BY DEF Top, TopOf
<1>7. Top(s).saved => Top(s).op = "OTHER"
    BY <1>1, <1>5, <1>6 DEF StackShape
<1>8. \A S : Count(ts, S) \in Nat
    BY CountsNat
<1>9. \A x \in Main : Count(ts, Coded(x)) = 0
    BY <1>1, <1>2, <1>8 DEF MainWhenIdle
<1>10. Len(s.frames) = 2 => Pending(s, ts, "OTHER") >= 1
    BY <1>5, <1>8, StackCounts DEF Pending
<1>11. /\ Count(ts, AnswersTo("SET_DEBUG_NAMES")) = 0
       /\ Count(ts, AnswersTo("HANDLE_DEBUG_EVENT")) = 0
    BY <1>1, <1>5, <1>8, <1>10 DEF AnswersExpected, Callbacks
<1> QED BY <1>5, <1>7, <1>9, <1>11

\* What a step that performs a request does to the counts of the stack, and to the event.
Shrinks(s, s2) ==
    /\ Performs(s2, "GET_DEBUG_EVENT") + Polls(s2) <= Performs(s, "GET_DEBUG_EVENT") + Polls(s)
    /\ \A x \in Requests : Performs(s2, x) <= Performs(s, x)
    /\ \A x \in Callbacks : Waits(s2, x) >= Waits(s, x)
    /\ s.network_error_code => s2.network_error_code

Moves(s, s2, told) ==
    /\ \/ Keeps(s, s2)
       \/ Resumes(s, s2, told)
       \/ /\ Fetches(s, s2, told)
          /\ Performs(s2, "GET_DEBUG_EVENT") + Polls(s2) = 0
          /\ Performs(s2, "CONTINUE_AFTER_EVENT") = 0
    /\ Talking(s2) => told = s2.got

\* Nothing but requests of the kind OTHER waits behind a request that is being performed.
Alone(ts) ==
    /\ Count(ts, AnswersTo("SET_DEBUG_NAMES")) = 0 /\ Count(ts, AnswersTo("HANDLE_DEBUG_EVENT")) = 0
    /\ Count(ts, Coded("GET_DEBUG_EVENT")) = 0 /\ Count(ts, Coded("CONTINUE_AFTER_EVENT")) = 0
    /\ Count(ts, Coded("STOPPED_AT_DEBUG_EVENT")) = 0 /\ Count(ts, Coded("APPCALL")) = 0

\* The same, for each request by name.
LEMMA ShrinksEach ==
    ASSUME NEW s, NEW s2, Shrinks(s, s2)
    PROVE  /\ Performs(s2, "CONTINUE_AFTER_EVENT") <= Performs(s, "CONTINUE_AFTER_EVENT")
           /\ Performs(s2, "STOPPED_AT_DEBUG_EVENT") <= Performs(s, "STOPPED_AT_DEBUG_EVENT")
           /\ Performs(s2, "APPCALL") <= Performs(s, "APPCALL")
           /\ Performs(s2, "OTHER") <= Performs(s, "OTHER")
           /\ Performs(s2, "GET_DEBUG_EVENT") + Polls(s2) <= Performs(s, "GET_DEBUG_EVENT") + Polls(s)
           /\ Waits(s2, "MSG") >= Waits(s, "MSG")
           /\ s.network_error_code => s2.network_error_code
BY DEF Shrinks, Requests, Callbacks

\* One request of the main kind at a time: kept when the stack performs less.
LEMMA OneKept ==
    ASSUME NEW s, NEW s2, NEW ts, StackTyped(s), StackTyped(s2), QueueTyped(ts),
           Shrinks(s, s2), Alone(ts), OneAtATime(s, ts)
    PROVE  OneAtATime(s2, ts)
<1>1. Count(ts, Coded("OTHER")) \in Nat
    BY DEF QueueTyped
<1> QED BY <1>1, ShrinksEach DEF StackTyped, Alone, OneAtATime, Pending

\* Answers are expected: kept when the stack waits for no less.
LEMMA AnswersKept ==
    ASSUME NEW s, NEW s2, NEW ts, StackTyped(s), StackTyped(s2), QueueTyped(ts),
           Shrinks(s, s2), Alone(ts), AnswersExpected(s, ts)
    PROVE  AnswersExpected(s2, ts)
<1>1. Count(ts, AnswersTo("MSG")) \in Nat
    BY DEF QueueTyped
<1> QED BY <1>1, ShrinksEach DEF StackTyped, Alone, AnswersExpected

\* Events stay in order when the step moves them as Moves says.
LEMMA EventsKept ==
    ASSUME NEW s, NEW s2, NEW ts, NEW told \in Nat, StackTyped(s), StackTyped(s2), s.got \in Nat,
           Shrinks(s, s2), Alone(ts), EventsInOrder(s, ts, told), Moves(s, s2, told)
    PROVE  EventsInOrder(s2, ts, told)
<1>1. /\ Performs(s2, "CONTINUE_AFTER_EVENT") <= Performs(s, "CONTINUE_AFTER_EVENT")
      /\ Performs(s2, "GET_DEBUG_EVENT") + Polls(s2) <= Performs(s, "GET_DEBUG_EVENT") + Polls(s)
    BY ShrinksEach
<1>2. CASE Keeps(s, s2)
    BY <1>1, <1>2 DEF StackTyped, Alone, EventsInOrder, Pending, Moves, Keeps
<1>3. CASE Resumes(s, s2, told)
    BY <1>1, <1>3 DEF StackTyped, Alone, EventsInOrder, Pending, Moves, Resumes
<1>4. CASE Fetches(s, s2, told) /\ Performs(s2, "GET_DEBUG_EVENT") + Polls(s2) = 0
           /\ Performs(s2, "CONTINUE_AFTER_EVENT") = 0
    BY <1>1, <1>4 DEF StackTyped, Alone, EventsInOrder, Pending, Moves, Fetches
<1> QED BY <1>2, <1>3, <1>4 DEF Moves

\* Whatever a request does, the server's part of the invariant survives.
LEMMA ServerKept ==
    ASSUME NEW s \in Server, NEW s2 \in Server, NEW ts \in Seq(Packet), NEW told \in Nat,
           ServerInv(s, ts, told), Performing(s), StackShape(s2),
           Shrinks(s, s2), Moves(s, s2, told)
    PROVE  ServerInv(s2, ts, told)
<1>1. StackTyped(s) /\ StackTyped(s2) /\ QueueTyped(ts) /\ s.got \in Nat
    BY NumbersTyped, FieldsTyped
<1>2. /\ OneAtATime(s, ts) /\ MainWhenIdle(s, ts) /\ AnswersExpected(s, ts) /\ GoodbyeLast(s, ts)
      /\ ToServerOK(ts) /\ EventsInOrder(s, ts, told)
    BY DEF ServerInv
<1>3. /\ Alone(ts)
      /\ \A r \in Main : ~(Count(ts, Coded(r)) >= 1)
    BY NoneAnswered DEF Main, Requests, Alone
<1>4. OneAtATime(s2, ts) /\ AnswersExpected(s2, ts) /\ EventsInOrder(s2, ts, told)
    BY <1>1, <1>2, <1>3, OneKept, AnswersKept, EventsKept
<1>5. MainWhenIdle(s2, ts)
    BY <1>3 DEF MainWhenIdle
<1>6. GoodbyeLast(s2, ts)
  <2>1. \A x \in Requests : Pending(s2, ts, x) <= Pending(s, ts, x)
                            /\ Pending(s2, ts, x) \in Nat /\ Pending(s, ts, x) \in Nat
      BY StackCounts, CountsNat DEF Pending, Shrinks
  <2>2. \A x \in Requests : Pending(s, ts, x) = 0 => Pending(s2, ts, x) = 0
      BY <2>1
  <2> QED BY <1>2, <2>2 DEF GoodbyeLast
<1> QED BY <1>2, <1>4, <1>5, <1>6 DEF ServerInv

-----------------------------------------------------------------------------
(* Counting what the client will read *)

\* Two kinds that have nothing in common.
LEMMA CountUnion ==
    ASSUME NEW q \in Seq(Packet), NEW S, NEW T, S \cap T = {}
    PROVE  Count(q, S \cup T) = Count(q, S) + Count(q, T)
<1> DEFINE A == {i \in 1 .. Len(q) : q[i] \in S}
           B == {i \in 1 .. Len(q) : q[i] \in T}
           C == {i \in 1 .. Len(q) : q[i] \in S \cup T}
<1>1. C = A \cup B /\ A \cap B = {}
    OBVIOUS
<1>2. IsFiniteSet(A) /\ IsFiniteSet(B) /\ Cardinality(A) \in Nat /\ Cardinality(B) \in Nat
    BY CountNat DEF Count
<1>3. Cardinality(C) = Cardinality(A) + Cardinality(B)
  <2> HIDE DEF A, B, C
  <2>1. Cardinality(A \cup B) = Cardinality(A) + Cardinality(B) - Cardinality(A \cap B)
      BY <1>2, FS_Union
  <2>2. Cardinality(A \cap B) = 0
      BY <1>1, FS_EmptySet
  <2> QED BY <1>1, <1>2, <2>1, <2>2
<1> QED BY <1>3 DEF Count

\* What a packet of either kind belongs to.
LEMMA AnswerClass ==
    ASSUME NEW p \in Packet, p.code = "OK"
    PROVE  /\ \A x : p \in AnswersTo(x) <=> p.re = x
           /\ \A x : p \in Coded(x) <=> x = "OK"
           /\ p \in Empty <=> p.re = "GET_DEBUG_EVENT" /\ p.n = 0
           /\ p \in Full <=> p.re = "GET_DEBUG_EVENT" /\ p.n # 0
           /\ p \in News <=> (p.re = "GET_DEBUG_EVENT" /\ p.n # 0) \/ p.re = "APPCALL"
BY DEF AnswersTo, Coded, Empty, Full, News

\* What a callback or an event packet belongs to.
LEMMA CallClass ==
    ASSUME NEW p \in Packet, p.code # "OK"
    PROVE  /\ \A x : p \notin AnswersTo(x)
           /\ \A x : p \in Coded(x) <=> p.code = x
           /\ p \notin Empty /\ p \notin Full
           /\ p \in News <=> p.code \in {"EVENT", "HANDLE_DEBUG_EVENT"}
BY DEF AnswersTo, Coded, Empty, Full, News

\* Answers to RPC_GET_DEBUG_EVENT carry an event or none; the news are of four kinds.
LEMMA ClassSums ==
    ASSUME NEW q \in Seq(Packet)
    PROVE  /\ Count(q, AnswersTo("GET_DEBUG_EVENT")) = Count(q, Empty) + Count(q, Full)
           /\ Count(q, News) = Count(q, Coded("EVENT")) + Count(q, Full) +
                 Count(q, Coded("HANDLE_DEBUG_EVENT")) + Count(q, AnswersTo("APPCALL"))
<1>1. AnswersTo("GET_DEBUG_EVENT") = Empty \cup Full /\ Empty \cap Full = {}
    BY DEF Empty, Full
<1> DEFINE A == Coded("EVENT") \cup Full
           B == A \cup Coded("HANDLE_DEBUG_EVENT")
<1>2. /\ Coded("EVENT") \cap Full = {} /\ A \cap Coded("HANDLE_DEBUG_EVENT") = {}
      /\ B \cap AnswersTo("APPCALL") = {}
    BY DEF Coded, Full, AnswersTo
<1>3. News = B \cup AnswersTo("APPCALL")
    BY DEF News
<1>4. Count(q, A) = Count(q, Coded("EVENT")) + Count(q, Full)
    BY <1>2, CountUnion
<1>5. Count(q, B) = Count(q, A) + Count(q, Coded("HANDLE_DEBUG_EVENT"))
    BY <1>2, CountUnion
<1>6. Count(q, News) = Count(q, B) + Count(q, AnswersTo("APPCALL"))
    BY <1>2, <1>3, CountUnion
<1> HIDE DEF A, B
<1> QED BY <1>1, <1>4, <1>5, <1>6, CountUnion

\* One more packet for the client, kind by kind.
LEMMA AppendCounts ==
    ASSUME NEW q \in Seq(Packet), NEW p \in Packet
    PROVE  /\ Append(q, p) \in Seq(Packet) /\ q \o <<p>> = Append(q, p)
           /\ \A S : Count(Append(q, p), S) = Count(q, S) + One(p \in S)
BY CountAppend, AppendProperties, AppendIsConcat

\* The server sends an answer, or a call or an event.
AnswerAdded(q, q2, p) ==
    /\ \A x : Count(q2, AnswersTo(x)) = Count(q, AnswersTo(x)) + One(p.re = x)
    /\ \A x \in Callbacks \cup {"EVENT"} : Count(q2, Coded(x)) = Count(q, Coded(x))
    /\ Count(q2, Empty) = Count(q, Empty) + One(p.re = "GET_DEBUG_EVENT" /\ p.n = 0)
    /\ Count(q2, Full) = Count(q, Full) + One(p.re = "GET_DEBUG_EVENT" /\ p.n # 0)
    /\ Count(q2, News) = Count(q, News) +
          One((p.re = "GET_DEBUG_EVENT" /\ p.n # 0) \/ p.re = "APPCALL")

\* A reply goes out: the counts that it changes.
LEMMA AnswerSent ==
    ASSUME NEW q \in Seq(Packet), NEW p \in Packet, p.code = "OK"
    PROVE  AnswerAdded(q, Append(q, p), p)
<1> DEFINE q2 == Append(q, p)
<1>1. \A S : Count(q2, S) = Count(q, S) + One(p \in S) /\ Count(q, S) \in Nat
    BY AppendCounts, CountsNat
<1>2. \A x \in Callbacks \cup {"EVENT"} : p \notin Coded(x)
    BY AnswerClass DEF Callbacks
<1> HIDE DEF q2
<1>3. AnswerAdded(q, q2, p)
    BY <1>1, <1>2, AnswerClass DEF One, AnswerAdded
<1> QED BY <1>3 DEF q2

CallAdded(q, q2, p) ==
    /\ \A x : Count(q2, AnswersTo(x)) = Count(q, AnswersTo(x))
    /\ \A x : Count(q2, Coded(x)) = Count(q, Coded(x)) + One(p.code = x)
    /\ Count(q2, Empty) = Count(q, Empty) /\ Count(q2, Full) = Count(q, Full)
    /\ Count(q2, News) = Count(q, News) + One(p.code \in {"EVENT", "HANDLE_DEBUG_EVENT"})

\* A callback or an event goes out: the counts that it changes.
LEMMA CallSent ==
    ASSUME NEW q \in Seq(Packet), NEW p \in Packet, p.code # "OK"
    PROVE  CallAdded(q, Append(q, p), p)
<1> DEFINE q2 == Append(q, p)
<1>1. \A S : Count(q2, S) = Count(q, S) + One(p \in S) /\ Count(q, S) \in Nat
    BY AppendCounts, CountsNat
<1> HIDE DEF q2
<1>2. CallAdded(q, q2, p)
    BY <1>1, CallClass DEF One, CallAdded
<1> QED BY <1>2 DEF q2

\* The client's stack in numbers.
CallsTyped(c) ==
    /\ InCalls(c, "GET_DEBUG_EVENT") \in {0, 1} /\ InCalls(c, "CONTINUE_AFTER_EVENT") \in {0, 1}
    /\ InCalls(c, "STOPPED_AT_DEBUG_EVENT") \in {0, 1} /\ InCalls(c, "APPCALL") \in {0, 1}
    /\ InCalls(c, "OTHER") \in {0, 1} /\ InCalls(c, "MSG") \in {0, 1}
    /\ InCalls(c, "SET_DEBUG_NAMES") \in {0, 1} /\ InCalls(c, "HANDLE_DEBUG_EVENT") \in {0, 1}
    /\ One(c.polling) \in {0, 1} /\ One(c.pending # 0) \in {0, 1} /\ One(c.held # 0) \in {0, 1}

MainCallOnce(c) ==
    InCalls(c, "GET_DEBUG_EVENT") + InCalls(c, "CONTINUE_AFTER_EVENT") +
    InCalls(c, "STOPPED_AT_DEBUG_EVENT") + InCalls(c, "APPCALL") <= 1

\* What the client has called is counted with 0 and 1.
LEMMA CallsNumbers == ASSUME NEW c PROVE CallsTyped(c)
BY DEF CallsTyped, InCalls, One

\* A client has at most one call of the main kind, at the bottom of its stack.
LEMMA MainCalls ==
    ASSUME NEW c \in ClientState, CallsShape(c.calls)
    PROVE  MainCallOnce(c)
<1>1. Len(c.calls) \in Nat
    BY ClientTyped, LenProperties
<1>2. \A i \in 1 .. Len(c.calls) : c.calls[i] \in Main => i = 1
  <2> SUFFICES ASSUME NEW i \in 1 .. Len(c.calls), i # 1 PROVE c.calls[i] \notin Main
      OBVIOUS
  <2>1. i \in {2, 3, 4} /\ i <= Len(c.calls)
      BY <1>1 DEF CallsShape
  <2>2. i = 2 => c.calls[i] \in Callbacks
      BY <1>1, <2>1 DEF CallsShape
  <2>3. i = 3 => c.calls[i] = "OTHER"
      BY <1>1, <2>1 DEF CallsShape
  <2>4. i = 4 => c.calls[i] = "MSG"
    <3>1. Len(c.calls) <= 4 /\ (Len(c.calls) = 4 => c.calls[4] = "MSG")
        BY DEF CallsShape
    <3>2. \A n \in Nat : n <= 4 /\ 4 <= n => n = 4
        OBVIOUS
    <3>3. i = 4 => Len(c.calls) = 4
        BY <1>1, <2>1, <3>1, <3>2
    <3> QED BY <3>1, <3>3
  <2> QED BY <2>1, <2>2, <2>3, <2>4 DEF Main, Requests, Callbacks
<1>3. \A x \in Main : InCalls(c, x) = 1 => c.calls[1] = x
    BY <1>2 DEF InCalls, One
<1>4. \A x \in Main : InCalls(c, x) = IF InCalls(c, x) = 1 THEN 1 ELSE 0
    BY DEF InCalls, One
<1>5. {"GET_DEBUG_EVENT", "CONTINUE_AFTER_EVENT", "STOPPED_AT_DEBUG_EVENT", "APPCALL"} = Main
    BY DEF Main, Requests
<1> QED BY <1>3, <1>4, <1>5 DEF MainCallOnce

-----------------------------------------------------------------------------
(* What the conversation says of the requests that are called *)

\* Another request is sent from within a call of the server only.
OtherWithin(c) ==
    InCalls(c, "GET_DEBUG_EVENT") + InCalls(c, "CONTINUE_AFTER_EVENT") +
    InCalls(c, "STOPPED_AT_DEBUG_EVENT") + InCalls(c, "APPCALL") + InCalls(c, "OTHER")
    <= 1 + InCalls(c, "SET_DEBUG_NAMES") + InCalls(c, "HANDLE_DEBUG_EVENT")

\* A request of the other kinds stands on top of the client's stack.
LEMMA OtherCalls ==
    ASSUME NEW c \in ClientState, CallsShape(c.calls)
    PROVE  OtherWithin(c)
<1>1. Len(c.calls) \in Nat
    BY ClientTyped, LenProperties
<1>2. CallsTyped(c) /\ MainCallOnce(c)
    BY CallsNumbers, MainCalls
<1>3. CASE \E i \in 1 .. Len(c.calls) : i > 2
  <2>1. Len(c.calls) >= 3
      BY <1>1, <1>3
  <2>2. c.calls[2] \in {"SET_DEBUG_NAMES", "HANDLE_DEBUG_EVENT"} /\ 2 \in 1 .. Len(c.calls)
      BY <1>1, <2>1 DEF CallsShape, Callbacks
  <2>3. InCalls(c, "SET_DEBUG_NAMES") = 1 \/ InCalls(c, "HANDLE_DEBUG_EVENT") = 1
      BY <2>2 DEF InCalls, One
  <2> QED BY <1>2, <2>3 DEF CallsTyped, MainCallOnce, OtherWithin
<1>4. CASE \A i \in 1 .. Len(c.calls) : ~(i > 2)
  <2>1. \A i \in 1 .. Len(c.calls) : i # 1 => c.calls[i] \in Callbacks
    <3> SUFFICES ASSUME NEW i \in 1 .. Len(c.calls), i # 1 PROVE c.calls[i] \in Callbacks
        OBVIOUS
    <3>1. i = 2 /\ Len(c.calls) >= 2
        BY <1>1, <1>4
    <3> QED BY <3>1 DEF CallsShape
  <2>2. \A x \in Requests : InCalls(c, x) = 1 => c.calls[1] = x
      BY <2>1 DEF InCalls, One, Requests, Callbacks
  <2>3. \A x \in Requests : InCalls(c, x) = IF InCalls(c, x) = 1 THEN 1 ELSE 0
      BY DEF InCalls, One
  <2>4. /\ InCalls(c, "GET_DEBUG_EVENT") = 1 => c.calls[1] = "GET_DEBUG_EVENT"
        /\ InCalls(c, "CONTINUE_AFTER_EVENT") = 1 => c.calls[1] = "CONTINUE_AFTER_EVENT"
        /\ InCalls(c, "STOPPED_AT_DEBUG_EVENT") = 1 => c.calls[1] = "STOPPED_AT_DEBUG_EVENT"
        /\ InCalls(c, "APPCALL") = 1 => c.calls[1] = "APPCALL"
        /\ InCalls(c, "OTHER") = 1 => c.calls[1] = "OTHER"
      BY <2>2 DEF Requests
  <2> QED BY <1>2, <2>4 DEF CallsTyped, OtherWithin
<1> QED BY <1>3, <1>4

\* All that the arithmetic about a conversation needs.
Numbers(s, ts, tc, c) ==
    /\ StackTyped(s) /\ QueueTyped(ts) /\ QueueTyped(tc) /\ CallsTyped(c)
    /\ MainCallOnce(c) /\ OtherWithin(c) /\ Stage(c) /\ Cycle(s, tc, c)
    /\ Balanced(s, ts, tc, c, "GET_DEBUG_EVENT") /\ Balanced(s, ts, tc, c, "CONTINUE_AFTER_EVENT")
    /\ Balanced(s, ts, tc, c, "STOPPED_AT_DEBUG_EVENT") /\ Balanced(s, ts, tc, c, "APPCALL")
    /\ Balanced(s, ts, tc, c, "OTHER")
    /\ Awaited(s, ts, tc, c, "MSG") /\ Awaited(s, ts, tc, c, "SET_DEBUG_NAMES")
    /\ Awaited(s, ts, tc, c, "HANDLE_DEBUG_EVENT")
    /\ Count(tc, AnswersTo("GET_DEBUG_EVENT")) = Count(tc, Empty) + Count(tc, Full)
    /\ Count(tc, News) = Count(tc, Coded("EVENT")) + Count(tc, Full) +
          Count(tc, Coded("HANDLE_DEBUG_EVENT")) + Count(tc, AnswersTo("APPCALL"))

\* What Connected says of the counts, request by request.
LEMMA ConnectedNumbers ==
    ASSUME NEW s \in Server, NEW ts \in Seq(Packet), NEW tc \in Seq(Packet), NEW c \in ClientState,
           Connected(s, ts, tc, c)
    PROVE  Numbers(s, ts, tc, c)
<1>1. StackTyped(s) /\ QueueTyped(ts) /\ QueueTyped(tc) /\ CallsTyped(c)
    BY NumbersTyped, CallsNumbers
<1>2. MainCallOnce(c) /\ OtherWithin(c)
    BY MainCalls, OtherCalls DEF Connected
<1>3. /\ Balanced(s, ts, tc, c, "GET_DEBUG_EVENT") /\ Balanced(s, ts, tc, c, "CONTINUE_AFTER_EVENT")
      /\ Balanced(s, ts, tc, c, "STOPPED_AT_DEBUG_EVENT") /\ Balanced(s, ts, tc, c, "APPCALL")
      /\ Balanced(s, ts, tc, c, "OTHER")
    BY DEF Connected, Conserved, Requests
<1>4. /\ Awaited(s, ts, tc, c, "MSG") /\ Awaited(s, ts, tc, c, "SET_DEBUG_NAMES")
      /\ Awaited(s, ts, tc, c, "HANDLE_DEBUG_EVENT")
    BY DEF Connected, Conserved, Callbacks
<1> QED BY <1>1, <1>2, <1>3, <1>4, ClassSums DEF Connected, Numbers

\* When a request of the main kind is performed its answer is not on its way, and no
\* other such request has been called.
LEMMA GetAlone ==
    ASSUME NEW s, NEW ts, NEW tc, NEW c, Numbers(s, ts, tc, c), Performs(s, "GET_DEBUG_EVENT") >= 1
    PROVE  /\ InCalls(c, "GET_DEBUG_EVENT") = 1 /\ Count(tc, AnswersTo("GET_DEBUG_EVENT")) = 0
           /\ InCalls(c, "CONTINUE_AFTER_EVENT") = 0 /\ InCalls(c, "APPCALL") = 0
           /\ InCalls(c, "STOPPED_AT_DEBUG_EVENT") = 0
<1>1. InCalls(c, "GET_DEBUG_EVENT") = 1 /\ Count(tc, AnswersTo("GET_DEBUG_EVENT")) = 0
  <2>1. /\ Balanced(s, ts, tc, c, "GET_DEBUG_EVENT") /\ InCalls(c, "GET_DEBUG_EVENT") \in {0, 1}
        /\ Performs(s, "GET_DEBUG_EVENT") \in Nat /\ Count(ts, Coded("GET_DEBUG_EVENT")) \in Nat
        /\ Count(tc, AnswersTo("GET_DEBUG_EVENT")) \in Nat
      BY DEF Numbers, CallsTyped, StackTyped, QueueTyped
  <2> QED BY <2>1 DEF Balanced, Pending
<1>2. MainCallOnce(c) /\ CallsTyped(c)
    BY DEF Numbers
<1> QED BY <1>1, <1>2 DEF MainCallOnce, CallsTyped

\* While an appcall is performed no other request of the main kind has been called.
LEMMA AppcallAlone ==
    ASSUME NEW s, NEW ts, NEW tc, NEW c, Numbers(s, ts, tc, c), Performs(s, "APPCALL") >= 1
    PROVE  /\ InCalls(c, "APPCALL") = 1 /\ Count(tc, AnswersTo("APPCALL")) = 0
           /\ InCalls(c, "CONTINUE_AFTER_EVENT") = 0 /\ InCalls(c, "GET_DEBUG_EVENT") = 0
           /\ InCalls(c, "STOPPED_AT_DEBUG_EVENT") = 0
<1>1. InCalls(c, "APPCALL") = 1 /\ Count(tc, AnswersTo("APPCALL")) = 0
  <2>1. /\ Balanced(s, ts, tc, c, "APPCALL") /\ InCalls(c, "APPCALL") \in {0, 1}
        /\ Performs(s, "APPCALL") \in Nat /\ Count(ts, Coded("APPCALL")) \in Nat
        /\ Count(tc, AnswersTo("APPCALL")) \in Nat
      BY DEF Numbers, CallsTyped, StackTyped, QueueTyped
  <2> QED BY <2>1 DEF Balanced, Pending
<1>2. MainCallOnce(c) /\ CallsTyped(c)
    BY DEF Numbers
<1> QED BY <1>1, <1>2 DEF MainCallOnce, CallsTyped

\* Nothing answers a call that the client has not made.
LEMMA NotCalled ==
    ASSUME NEW s, NEW ts, NEW tc, NEW c, Numbers(s, ts, tc, c)
    PROVE  /\ InCalls(c, "GET_DEBUG_EVENT") = 0 =>
                 Count(tc, AnswersTo("GET_DEBUG_EVENT")) = 0 /\ Performs(s, "GET_DEBUG_EVENT") = 0
           /\ InCalls(c, "CONTINUE_AFTER_EVENT") = 0 =>
                 Count(tc, AnswersTo("CONTINUE_AFTER_EVENT")) = 0
           /\ InCalls(c, "APPCALL") = 0 =>
                 Count(tc, AnswersTo("APPCALL")) = 0 /\ Performs(s, "APPCALL") = 0
           /\ Waits(s, "HANDLE_DEBUG_EVENT") = 0 => Count(tc, Coded("HANDLE_DEBUG_EVENT")) = 0
           /\ Count(tc, AnswersTo("GET_DEBUG_EVENT")) = 0 => Count(tc, Empty) = 0 /\ Count(tc, Full) = 0
<1>1. StackTyped(s) /\ QueueTyped(ts) /\ QueueTyped(tc) /\ CallsTyped(c)
    BY DEF Numbers
<1>2. InCalls(c, "GET_DEBUG_EVENT") = 0 =>
          Count(tc, AnswersTo("GET_DEBUG_EVENT")) = 0 /\ Performs(s, "GET_DEBUG_EVENT") = 0
  <2>1. /\ Balanced(s, ts, tc, c, "GET_DEBUG_EVENT")
        /\ Performs(s, "GET_DEBUG_EVENT") \in Nat /\ Count(ts, Coded("GET_DEBUG_EVENT")) \in Nat
        /\ Count(tc, AnswersTo("GET_DEBUG_EVENT")) \in Nat
      BY DEF Numbers, StackTyped, QueueTyped
  <2> QED BY <2>1 DEF Balanced, Pending
<1>3. InCalls(c, "CONTINUE_AFTER_EVENT") = 0 => Count(tc, AnswersTo("CONTINUE_AFTER_EVENT")) = 0
  <2>1. /\ Balanced(s, ts, tc, c, "CONTINUE_AFTER_EVENT")
        /\ Performs(s, "CONTINUE_AFTER_EVENT") \in Nat /\ Count(ts, Coded("CONTINUE_AFTER_EVENT")) \in Nat
        /\ Count(tc, AnswersTo("CONTINUE_AFTER_EVENT")) \in Nat
      BY DEF Numbers, StackTyped, QueueTyped
  <2> QED BY <2>1 DEF Balanced, Pending
<1>4. InCalls(c, "APPCALL") = 0 => Count(tc, AnswersTo("APPCALL")) = 0 /\ Performs(s, "APPCALL") = 0
  <2>1. /\ Balanced(s, ts, tc, c, "APPCALL")
        /\ Performs(s, "APPCALL") \in Nat /\ Count(ts, Coded("APPCALL")) \in Nat
        /\ Count(tc, AnswersTo("APPCALL")) \in Nat
      BY DEF Numbers, StackTyped, QueueTyped
  <2> QED BY <2>1 DEF Balanced, Pending
<1>5. Waits(s, "HANDLE_DEBUG_EVENT") = 0 => Count(tc, Coded("HANDLE_DEBUG_EVENT")) = 0
  <2>1. /\ Awaited(s, ts, tc, c, "HANDLE_DEBUG_EVENT") /\ InCalls(c, "HANDLE_DEBUG_EVENT") \in {0, 1}
        /\ Count(tc, Coded("HANDLE_DEBUG_EVENT")) \in Nat
        /\ Count(ts, AnswersTo("HANDLE_DEBUG_EVENT")) \in Nat
      BY DEF Numbers, CallsTyped, QueueTyped
  <2> QED BY <2>1 DEF Awaited
<1>6. Count(tc, AnswersTo("GET_DEBUG_EVENT")) = 0 => Count(tc, Empty) = 0 /\ Count(tc, Full) = 0
  <2>1. /\ Count(tc, AnswersTo("GET_DEBUG_EVENT")) = Count(tc, Empty) + Count(tc, Full)
        /\ Count(tc, Empty) \in Nat /\ Count(tc, Full) \in Nat
      BY DEF Numbers, QueueTyped
  <2> QED BY <2>1
<1> QED BY <1>2, <1>3, <1>4, <1>5, <1>6

\* While the server is in poll mode the client polls, or an empty answer will tell it to.
LEMMA PollAlone ==
    ASSUME NEW s, NEW ts, NEW tc, NEW c, Numbers(s, ts, tc, c), Polls(s) >= 1
    PROVE  /\ InCalls(c, "CONTINUE_AFTER_EVENT") = 0 /\ InCalls(c, "APPCALL") = 0
           /\ One(c.pending # 0) = 0 /\ One(c.held # 0) = 0
           /\ One(c.polling) + Count(tc, Empty) = 1 /\ Polls(s) = 1
           /\ Count(tc, Full) = 0 /\ Count(tc, Coded("EVENT")) = 0
<1>1. /\ One(c.polling) + Count(tc, Empty) = Polls(s) + Count(tc, Coded("EVENT"))
      /\ InCalls(c, "GET_DEBUG_EVENT") + One(c.polling) + One(c.pending # 0) + One(c.held # 0) <= 1
      /\ Count(tc, AnswersTo("GET_DEBUG_EVENT")) = Count(tc, Empty) + Count(tc, Full)
    BY DEF Numbers, Stage, Cycle
<1>2. Count(tc, AnswersTo("GET_DEBUG_EVENT")) <= InCalls(c, "GET_DEBUG_EVENT")
  <2>1. /\ Balanced(s, ts, tc, c, "GET_DEBUG_EVENT") /\ InCalls(c, "GET_DEBUG_EVENT") \in {0, 1}
        /\ Performs(s, "GET_DEBUG_EVENT") \in Nat /\ Count(ts, Coded("GET_DEBUG_EVENT")) \in Nat
        /\ Count(tc, AnswersTo("GET_DEBUG_EVENT")) \in Nat
      BY DEF Numbers, CallsTyped, StackTyped, QueueTyped
  <2> QED BY <2>1 DEF Balanced, Pending
<1>3. /\ Count(tc, Empty) \in Nat /\ Count(tc, Full) \in Nat /\ Count(tc, Coded("EVENT")) \in Nat
      /\ Polls(s) \in Nat /\ InCalls(c, "GET_DEBUG_EVENT") \in {0, 1}
      /\ One(c.polling) \in {0, 1} /\ One(c.pending # 0) \in {0, 1} /\ One(c.held # 0) \in {0, 1}
    BY DEF Numbers, QueueTyped, StackTyped, CallsTyped
<1>4. /\ One(c.pending # 0) = 0 /\ One(c.held # 0) = 0 /\ One(c.polling) + Count(tc, Empty) = 1
      /\ Polls(s) = 1 /\ Count(tc, Full) = 0 /\ Count(tc, Coded("EVENT")) = 0
    BY <1>1, <1>2, <1>3
<1>5. InCalls(c, "CONTINUE_AFTER_EVENT") = 0 /\ InCalls(c, "APPCALL") = 0
  <2>1. /\ InCalls(c, "CONTINUE_AFTER_EVENT") + InCalls(c, "STOPPED_AT_DEBUG_EVENT") +
           InCalls(c, "APPCALL") >= 1 => One(c.held # 0) = 1
        /\ InCalls(c, "CONTINUE_AFTER_EVENT") \in {0, 1} /\ InCalls(c, "APPCALL") \in {0, 1}
        /\ InCalls(c, "STOPPED_AT_DEBUG_EVENT") \in {0, 1}
      BY DEF Numbers, Stage, CallsTyped, One
  <2> QED BY <1>4, <2>1
<1> QED BY <1>4, <1>5

\* When the server takes an event, nothing on the wire tells of an earlier one.
LEMMA NoNews ==
    ASSUME NEW s, NEW ts, NEW tc, NEW c, Numbers(s, ts, tc, c), Waits(s, "HANDLE_DEBUG_EVENT") = 0,
           Performs(s, "GET_DEBUG_EVENT") + Polls(s) >= 1 \/ Performs(s, "APPCALL") >= 1
    PROVE  /\ Count(tc, News) = 0 /\ Count(tc, AnswersTo("CONTINUE_AFTER_EVENT")) = 0
           /\ Count(tc, Full) = 0 /\ Count(tc, Coded("EVENT")) = 0
           /\ Performs(s, "APPCALL") >= 1 => c.held # 0
<1>1. /\ Count(tc, News) = Count(tc, Coded("EVENT")) + Count(tc, Full) +
             Count(tc, Coded("HANDLE_DEBUG_EVENT")) + Count(tc, AnswersTo("APPCALL"))
      /\ Count(tc, Coded("HANDLE_DEBUG_EVENT")) = 0
    BY NotCalled DEF Numbers
<1>2. /\ One(c.polling) + Count(tc, Empty) = Polls(s) + Count(tc, Coded("EVENT"))
      /\ InCalls(c, "GET_DEBUG_EVENT") + One(c.polling) + One(c.pending # 0) + One(c.held # 0) <= 1
      /\ InCalls(c, "CONTINUE_AFTER_EVENT") + InCalls(c, "STOPPED_AT_DEBUG_EVENT") +
         InCalls(c, "APPCALL") >= 1 => c.held # 0
    BY DEF Numbers, Stage, Cycle
<1>3. /\ Count(tc, Coded("EVENT")) \in Nat /\ Polls(s) \in Nat /\ Performs(s, "GET_DEBUG_EVENT") \in Nat
      /\ One(c.polling) \in {0, 1} /\ One(c.pending # 0) \in {0, 1} /\ One(c.held # 0) \in {0, 1}
    BY DEF Numbers, QueueTyped, StackTyped, CallsTyped
<1>4. CASE Performs(s, "GET_DEBUG_EVENT") >= 1
  <2>1. /\ Count(tc, Empty) = 0 /\ Count(tc, Full) = 0 /\ Count(tc, AnswersTo("APPCALL")) = 0
        /\ Count(tc, AnswersTo("CONTINUE_AFTER_EVENT")) = 0 /\ Performs(s, "APPCALL") = 0
        /\ InCalls(c, "GET_DEBUG_EVENT") = 1
      BY <1>4, GetAlone, NotCalled
  <2>2. Count(tc, Coded("EVENT")) = 0
      BY <1>2, <1>3, <2>1
  <2> QED BY <1>1, <2>1, <2>2
<1>5. CASE Polls(s) >= 1
  <2>1. /\ Count(tc, Full) = 0 /\ Count(tc, AnswersTo("APPCALL")) = 0
        /\ Count(tc, AnswersTo("CONTINUE_AFTER_EVENT")) = 0 /\ Performs(s, "APPCALL") = 0
        /\ Count(tc, Coded("EVENT")) = 0
      BY <1>5, PollAlone, NotCalled
  <2> QED BY <1>1, <2>1
<1>6. CASE Performs(s, "APPCALL") >= 1
  <2>1. /\ Count(tc, Empty) = 0 /\ Count(tc, Full) = 0 /\ Count(tc, AnswersTo("APPCALL")) = 0
        /\ Count(tc, AnswersTo("CONTINUE_AFTER_EVENT")) = 0
        /\ InCalls(c, "APPCALL") = 1 /\ InCalls(c, "CONTINUE_AFTER_EVENT") = 0
        /\ InCalls(c, "STOPPED_AT_DEBUG_EVENT") = 0
      BY <1>6, AppcallAlone, NotCalled
  <2>2. c.held # 0
      BY <1>2, <2>1
  <2>3. Count(tc, Coded("EVENT")) = 0
    <3>1. One(c.held # 0) = 1
        BY <2>2 DEF One
    <3>2. InCalls(c, "GET_DEBUG_EVENT") \in {0, 1}
        BY DEF Numbers, CallsTyped
    <3> QED BY <1>2, <1>3, <2>1, <3>1, <3>2
  <2> QED BY <1>1, <2>1, <2>2, <2>3
<1> QED BY <1>3, <1>4, <1>5, <1>6

-----------------------------------------------------------------------------
(* The conversation, whatever the server sends *)

\* Two server records that differ in the program counter and the error code only.
Like(s, s2) ==
    /\ s2.frames = s.frames /\ s2.poll_debug_events = s.poll_debug_events
    /\ s2.in_event = s.in_event /\ s2.got = s.got /\ s2.has_pending_event = s.has_pending_event

\* Two records with the same stack and poll mode have the same counts.
LEMMA LikeCounts ==
    ASSUME NEW s, NEW s2, Like(s, s2)
    PROVE  /\ \A x : Performs(s2, x) = Performs(s, x) /\ Waits(s2, x) = Waits(s, x)
           /\ Polls(s2) = Polls(s) /\ (Talking(s2) <=> Talking(s))
           /\ StackShape(s) => StackShape(s2)
BY DEF Like, Performs, Waits, Polls, Talking, StackShape

\* The server performs less, or the client is told more: the conversation stays in balance.
LEMMA ConservedKept ==
    ASSUME NEW s \in Server, NEW s2 \in Server, NEW ts \in Seq(Packet), NEW tc \in Seq(Packet),
           NEW tc2 \in Seq(Packet), NEW c, Conserved(s, ts, tc, c),
           \A r \in Requests : Performs(s2, r) + Count(tc2, AnswersTo(r))
                                  = Performs(s, r) + Count(tc, AnswersTo(r)),
           \A b \in Callbacks : Waits(s2, b) + Count(tc, Coded(b))
                                  = Waits(s, b) + Count(tc2, Coded(b))
    PROVE  Conserved(s2, ts, tc2, c)
<1>1. ASSUME NEW r \in Requests PROVE Balanced(s2, ts, tc2, c, r)
  <2>1. /\ Performs(s, r) \in Nat /\ Performs(s2, r) \in Nat /\ Count(ts, Coded(r)) \in Nat
        /\ Count(tc, AnswersTo(r)) \in Nat /\ Count(tc2, AnswersTo(r)) \in Nat
      BY StackCounts, CountsNat
  <2>2. Performs(s2, r) + Count(tc2, AnswersTo(r)) = Performs(s, r) + Count(tc, AnswersTo(r))
      OBVIOUS
  <2>3. InCalls(c, r) = Count(ts, Coded(r)) + Performs(s, r) + Count(tc, AnswersTo(r))
      BY DEF Conserved, Balanced, Pending
  <2> DEFINE a == Performs(s, r)   a2 == Performs(s2, r)   q == Count(ts, Coded(r))
             b == Count(tc, AnswersTo(r))   b2 == Count(tc2, AnswersTo(r))
  <2> HIDE DEF a, a2, q, b, b2
  <2>4. /\ a \in Nat /\ a2 \in Nat /\ q \in Nat /\ b \in Nat /\ b2 \in Nat
        /\ a2 + b2 = a + b /\ InCalls(c, r) = q + a + b
      BY <2>1, <2>2, <2>3 DEF a, a2, q, b, b2
  <2>5. InCalls(c, r) = q + a2 + b2
      BY <2>4
  <2> QED BY <2>5 DEF Balanced, Pending, a2, q, b2
<1>2. ASSUME NEW x \in Callbacks PROVE Awaited(s2, ts, tc2, c, x)
  <2>1. /\ Waits(s, x) \in Nat /\ Waits(s2, x) \in Nat /\ Count(ts, AnswersTo(x)) \in Nat
        /\ Count(tc, Coded(x)) \in Nat /\ Count(tc2, Coded(x)) \in Nat /\ InCalls(c, x) \in {0, 1}
      BY StackCounts, CountsNat DEF InCalls, One
  <2>2. Waits(s2, x) + Count(tc, Coded(x)) = Waits(s, x) + Count(tc2, Coded(x))
      OBVIOUS
  <2>3. Waits(s, x) = Count(tc, Coded(x)) + InCalls(c, x) + Count(ts, AnswersTo(x))
      BY DEF Conserved, Awaited
  <2> DEFINE a == Waits(s, x)   a2 == Waits(s2, x)   q == Count(ts, AnswersTo(x))
             b == Count(tc, Coded(x))   b2 == Count(tc2, Coded(x))   k == InCalls(c, x)
  <2> HIDE DEF a, a2, q, b, b2, k
  <2>4. /\ a \in Nat /\ a2 \in Nat /\ q \in Nat /\ b \in Nat /\ b2 \in Nat /\ k \in {0, 1}
        /\ a2 + b = a + b2 /\ a = b + k + q
      BY <2>1, <2>2, <2>3 DEF a, a2, q, b, b2, k
  <2>5. a2 = b2 + k + q
      BY <2>4
  <2> QED BY <2>5 DEF Awaited, a2, q, b2, k
<1> QED BY <1>1, <1>2 DEF Conserved

\* A packet is added at the end of what the client will read.
LEMMA ToClientKept ==
    ASSUME NEW tc \in Seq(Packet), NEW p \in Packet, NEW got, NEW got2, ToClientOK(tc, got),
           got2 = got \/ Count(tc, News) = 0,
           p.code \in Callbacks \cup {"EVENT"} \/ (p.code = "OK" /\ p.re \in Requests),
           p.n # 0 => p \in News, p \in News => p.n = got2
    PROVE  ToClientOK(Append(tc, p), got2)
<1>1. /\ Len(tc) \in Nat /\ Len(Append(tc, p)) = Len(tc) + 1
      /\ \A i \in 1 .. Len(tc) : Append(tc, p)[i] = tc[i]
      /\ Append(tc, p)[Len(tc) + 1] = p
    BY AppendProperties, LenProperties
<1>2. ASSUME NEW i \in 1 .. Len(tc), tc[i] \in News PROVE tc[i].n = got2
  <2>1. Count(tc, News) >= 1
      BY <1>2, CountSome
  <2>2. got2 = got
      BY <2>1
  <2> QED BY <1>2, <2>2 DEF ToClientOK
<1>3. ASSUME NEW i \in 1 .. Len(Append(tc, p))
      PROVE  LET x == Append(tc, p)[i]
             IN /\ x.code \in Callbacks \cup {"EVENT"} \/ (x.code = "OK" /\ x.re \in Requests)
                /\ x.n # 0 => x \in News
                /\ x \in News => x.n = got2
  <2>1. CASE i \in 1 .. Len(tc)
      BY <1>1, <1>2, <2>1 DEF ToClientOK
  <2>2. CASE i = Len(tc) + 1
      BY <1>1, <2>2
  <2> QED BY <1>1, <2>1, <2>2
<1> QED BY <1>3 DEF ToClientOK

\* A packet behind the answer to RPC_GET_DEBUG_EVENT does not overtake it.
LEMMA AnswerFirstKept ==
    ASSUME NEW tc \in Seq(Packet), NEW p \in Packet, AnswerFirst(tc),
           p \notin AnswersTo("GET_DEBUG_EVENT") \/ tc = << >>
    PROVE  AnswerFirst(Append(tc, p))
<1>1. /\ Append(tc, p) \in Seq(Packet) /\ Len(tc) \in Nat
      /\ \A i \in 1 .. Len(tc) : Append(tc, p)[i] = tc[i]
      /\ Append(tc, p)[Len(tc) + 1] = p /\ Len(Append(tc, p)) = Len(tc) + 1
    BY AppendProperties, LenProperties
<1>2. CASE tc = << >>
  <2>1. Len(tc) = 0
      BY <1>2, EmptySeq
  <2>2. \A i \in 1 .. Len(Append(tc, p)) : i = 1
      BY <1>1, <2>1
  <2> QED BY <1>1, <2>2, CountSome DEF AnswerFirst
<1>3. CASE p \notin AnswersTo("GET_DEBUG_EVENT") /\ tc # << >>
  <2>1. ASSUME Count(Append(tc, p), AnswersTo("GET_DEBUG_EVENT")) >= 1
        PROVE  Count(tc, AnswersTo("GET_DEBUG_EVENT")) >= 1
    <3>1. PICK i \in 1 .. Len(Append(tc, p)) : Append(tc, p)[i] \in AnswersTo("GET_DEBUG_EVENT")
        BY <1>1, <2>1, CountSome
    <3>2. i \in 1 .. Len(tc)
        BY <1>1, <1>3, <3>1
    <3> QED BY <1>1, <3>1, <3>2, CountSome
  <2>2. 1 \in 1 .. Len(tc)
      BY <1>1, <1>3, EmptySeq
  <2> QED BY <1>1, <2>1, <2>2 DEF AnswerFirst
<1> QED BY <1>2, <1>3

\* The cycle of an event, from one step of the server to the next: what a step sends for
\* what it does with the event.
Sends(s, s2, tc, tc2, c) ==
    /\ Count(tc2, Empty) + Polls(s) + Count(tc, Coded("EVENT"))
          = Count(tc, Empty) + Polls(s2) + Count(tc2, Coded("EVENT"))
    /\ \/ /\ Keeps(s, s2)
          /\ Count(tc2, Full) + Count(tc2, Coded("EVENT")) >= Count(tc, Full) + Count(tc, Coded("EVENT"))
          /\ Count(tc2, News) >= Count(tc, News)
          /\ Count(tc2, AnswersTo("CONTINUE_AFTER_EVENT")) >= 1 =>
                ~s2.in_event \/ Count(tc, AnswersTo("CONTINUE_AFTER_EVENT")) >= 1
       \/ Resumes(s, s2, c.told)
       \/ /\ Count(tc2, News) >= 1 /\ Count(tc2, AnswersTo("CONTINUE_AFTER_EVENT")) = 0
          /\ Count(tc2, Full) + Count(tc2, Coded("EVENT")) + One(c.held # 0) >= 1

\* The cycle of one event goes on whatever the server sends.
LEMMA CycleKept ==
    ASSUME NEW s, NEW s2, NEW tc, NEW tc2, NEW c, Cycle(s, tc, c), Sends(s, s2, tc, tc2, c),
           StackTyped(s), StackTyped(s2), QueueTyped(tc), QueueTyped(tc2), CallsTyped(c),
           Count(tc, News) \in Nat, Count(tc2, News) \in Nat
    PROVE  Cycle(s2, tc2, c)
<1>1. /\ Count(tc, Empty) \in Nat /\ Count(tc2, Empty) \in Nat
      /\ Count(tc, Coded("EVENT")) \in Nat /\ Count(tc2, Coded("EVENT")) \in Nat
      /\ Count(tc, Full) \in Nat /\ Count(tc2, Full) \in Nat
      /\ Polls(s) \in Nat /\ Polls(s2) \in Nat /\ One(c.polling) \in {0, 1}
      /\ One(c.pending # 0) \in {0, 1} /\ One(c.held # 0) \in {0, 1}
    BY DEF QueueTyped, StackTyped, CallsTyped
<1>2. One(c.polling) + Count(tc2, Empty) = Polls(s2) + Count(tc2, Coded("EVENT"))
    BY <1>1 DEF Cycle, Sends
<1>3. CASE Keeps(s, s2) /\ Count(tc2, Full) + Count(tc2, Coded("EVENT")) >= Count(tc, Full) + Count(tc, Coded("EVENT"))
           /\ Count(tc2, News) >= Count(tc, News)
           /\ (Count(tc2, AnswersTo("CONTINUE_AFTER_EVENT")) >= 1 =>
                 ~s2.in_event \/ Count(tc, AnswersTo("CONTINUE_AFTER_EVENT")) >= 1)
  <2>1. s2.in_event => Count(tc2, Full) + Count(tc2, Coded("EVENT")) + One(c.pending # 0) +
                       One(c.held # 0) >= 1
      BY <1>1, <1>3 DEF Keeps, Cycle
  <2>2. s2.got # c.told => Count(tc2, News) >= 1
      BY <1>3 DEF Keeps, Cycle
  <2>3. Count(tc2, AnswersTo("CONTINUE_AFTER_EVENT")) >= 1 => ~s2.in_event
      BY <1>3 DEF Keeps, Cycle
  <2> QED BY <1>2, <2>1, <2>2, <2>3 DEF Cycle
<1>4. CASE Resumes(s, s2, c.told)
    BY <1>2, <1>4 DEF Resumes, Cycle
<1>5. CASE /\ Count(tc2, News) >= 1 /\ Count(tc2, AnswersTo("CONTINUE_AFTER_EVENT")) = 0
           /\ Count(tc2, Full) + Count(tc2, Coded("EVENT")) + One(c.held # 0) >= 1
  <2>1. Count(tc2, Full) + Count(tc2, Coded("EVENT")) + One(c.pending # 0) + One(c.held # 0) >= 1
      BY <1>1, <1>5
  <2> QED BY <1>2, <1>5, <2>1 DEF Cycle
<1> QED BY <1>3, <1>4, <1>5 DEF Sends

\* Whatever the server sends or does, the conversation goes on if all of this holds.
LEMMA UpKept ==
    ASSUME NEW s \in Server, NEW s2 \in Server, NEW ts \in Seq(Packet), NEW tc \in Seq(Packet),
           NEW tc2 \in Seq(Packet), NEW c \in ClientState, Connected(s, ts, tc, c),
           ~s2.network_error_code, s2.pc \in {"recv", "loop"},
           \A r \in Requests : Performs(s2, r) + Count(tc2, AnswersTo(r))
                                  = Performs(s, r) + Count(tc, AnswersTo(r)),
           \A b \in Callbacks : Waits(s2, b) + Count(tc, Coded(b))
                                  = Waits(s, b) + Count(tc2, Coded(b)),
           Sends(s, s2, tc, tc2, c), ToClientOK(tc2, s2.got), AnswerFirst(tc2)
    PROVE  Connected(s2, ts, tc2, c)
<1>1. Conserved(s2, ts, tc2, c)
    BY ConservedKept DEF Connected
<1>2. Cycle(s2, tc2, c)
    BY CycleKept, NumbersTyped, CallsNumbers, CountsNat DEF Connected
<1> QED BY <1>1, <1>2 DEF Connected

-----------------------------------------------------------------------------
(* The invariant after a step of the server *)

GoodOutcomes(outcomes, ts, tc, c) == \A o \in outcomes : Good(o.srv, ts, tc \o o.out, c)

\* What every step of the server leaves behind.
LEMMA GoodAfter ==
    ASSUME NEW s, NEW s2 \in Server, NEW ts, NEW tc, NEW tc2 \in Seq(Packet),
           NEW c, Mid(s, ts, tc, c), StackShape(s2), StackWaits(s2),
           Shrinks(s, s2), Moves(s, s2, c.told),
           ~s2.has_pending_event, s2.got <= made, s2.pc = "loop" => c.told = s2.got,
           net = "up" => Connected(s2, ts, tc2, c),
           net = "down" => tc2 = tc /\ (s2.pc = "null" => s2.network_error_code)
    PROVE  Good(s2, ts, tc2, c)
<1>1. /\ s \in Server /\ ts \in Seq(Packet) /\ tc \in Seq(Packet) /\ c \in ClientState /\ c.told \in Nat
      /\ ServerInv(s, ts, c.told) /\ Linked(s, ts, tc, c) /\ Performing(s)
    BY DEF Mid, Session, ClientState
<1>2. ServerInv(s2, ts, c.told)
    BY <1>1, ServerKept
<1>3. Linked(s2, ts, tc2, c)
    BY <1>1 DEF Linked, Disconnected
<1> QED BY <1>1, <1>2, <1>3 DEF Good, Session

\* A step that sends nothing.
LEMMA SilentGood ==
    ASSUME NEW s, NEW ts, NEW tc \in Seq(Packet), NEW c, Good(s, ts, tc, c)
    PROVE  GoodOutcomes(Silent(s), ts, tc, c)
<1>1. tc \o << >> = tc
    BY ConcatEmptySeq
<1>2. \A o \in Silent(s) : o.srv = s /\ o.out = << >>
    BY DEF Silent, Outcome
<1> QED BY <1>1, <1>2 DEF GoodOutcomes

\* send_request: the packet goes out, or vanishes, or the send fails.
LEMMA SendingGood ==
    ASSUME NEW s, NEW ts, NEW tc, NEW c, Mid(s, ts, tc, c), net \in {"up", "down"},
           NEW sent \in Server, NEW unsent \in Server, NEW p \in Packet,
           sent.pc = "recv", unsent.pc = "null", Like(sent, unsent),
           sent.network_error_code = s.network_error_code,
           unsent.network_error_code = s.network_error_code,
           StackShape(sent), \A i \in 1 .. Len(sent.frames) : sent.frames[i].wait # "none",
           Shrinks(s, sent), Moves(s, sent, c.told), ~sent.has_pending_event, sent.got <= made,
           net = "up" => Connected(sent, ts, Append(tc, p), c)
    PROVE  GoodOutcomes(Sending(sent, unsent, p), ts, tc, c)
<1> DEFINE failed == [unsent EXCEPT !.network_error_code = TRUE, !.broken_connection = TRUE]
<1>1. /\ failed \in Server /\ failed.pc = "null" /\ failed.network_error_code
      /\ Like(unsent, failed)
    BY DEF Server, Like
<1> HIDE DEF failed
<1>2. /\ s \in Server /\ tc \in Seq(Packet) /\ tc \o << >> = tc /\ tc \o <<p>> = Append(tc, p)
      /\ Append(tc, p) \in Seq(Packet)
    BY ConcatEmptySeq, AppendCounts DEF Mid, Session
<1>3. net = "up" => ~s.network_error_code
    BY DEF Mid, Session, Linked, Connected
<1>4. ASSUME NEW s2 \in Server, Like(sent, s2), s2.pc = "null", s2.network_error_code, net = "down"
      PROVE  Good(s2, ts, tc, c)
  <2>1. StackShape(s2) /\ StackWaits(s2)
      BY <1>4, LikeCounts DEF Like, StackWaits
  <2>2. Shrinks(s, s2)
      BY <1>4, LikeCounts DEF Shrinks
  <2>3. Moves(s, s2, c.told)
      BY <1>4, LikeCounts DEF Moves, Keeps, Resumes, Fetches, Like
  <2>4. ~s2.has_pending_event /\ s2.got <= made
      BY <1>4 DEF Like
  <2> QED BY <1>2, <1>4, <2>1, <2>2, <2>3, <2>4, GoodAfter
<1>5. ASSUME net = "down", ~s.network_error_code
      PROVE  Good(sent, ts, tc, c)
  <2>1. StackWaits(sent)
      BY <1>5 DEF StackWaits
  <2> QED BY <1>2, <1>5, <2>1, GoodAfter
<1>6. ASSUME net = "up"
      PROVE  Good(sent, ts, Append(tc, p), c)
  <2>1. StackWaits(sent)
      BY <1>3, <1>6 DEF StackWaits
  <2> QED BY <1>2, <1>6, <2>1, GoodAfter
<1>7. ASSUME NEW o \in Sending(sent, unsent, p)
      PROVE  Good(o.srv, ts, tc \o o.out, c)
  <2>1. CASE unsent.network_error_code
    <3>1. o.srv = unsent /\ o.out = << >> /\ net = "down"
        BY <1>3, <1>7, <2>1 DEF Sending, Silent, Outcome
    <3> QED BY <1>2, <1>4, <2>1, <3>1
  <2>2. CASE ~unsent.network_error_code /\ net = "up"
    <3>1. o.srv = sent /\ o.out = <<p>>
        BY <1>7, <2>2 DEF Sending, Outcome
    <3> QED BY <1>2, <1>6, <2>2, <3>1
  <2>3. CASE ~unsent.network_error_code /\ net = "down"
    <3>1. o.srv \in {sent, failed} /\ o.out = << >>
        BY <1>7, <2>3 DEF Sending, Silent, Outcome, failed
    <3>2. Like(sent, failed)
        BY <1>1 DEF Like
    <3> QED BY <1>1, <1>2, <1>4, <1>5, <2>3, <3>1, <3>2
  <2> QED BY <2>1, <2>2, <2>3
<1> QED BY <1>7 DEF GoodOutcomes

-----------------------------------------------------------------------------
(* Replies *)

\* While GET_DEBUG_EVENT is performed, at the outermost level, the client has nothing to read.
LEMMA QuietForGet ==
    ASSUME NEW s \in Server, NEW ts \in Seq(Packet), NEW tc \in Seq(Packet), NEW c \in ClientState,
           Connected(s, ts, tc, c), Performs(s, "GET_DEBUG_EVENT") >= 1,
           \A b \in Callbacks : Waits(s, b) = 0
    PROVE  tc = << >>
<1>1. Numbers(s, ts, tc, c)
    BY ConnectedNumbers
<1>2. /\ InCalls(c, "GET_DEBUG_EVENT") = 1 /\ Count(tc, AnswersTo("GET_DEBUG_EVENT")) = 0
      /\ Count(tc, AnswersTo("CONTINUE_AFTER_EVENT")) = 0 /\ Count(tc, AnswersTo("APPCALL")) = 0
      /\ InCalls(c, "CONTINUE_AFTER_EVENT") = 0 /\ InCalls(c, "APPCALL") = 0
      /\ InCalls(c, "STOPPED_AT_DEBUG_EVENT") = 0
    BY <1>1, GetAlone, NotCalled
<1>3. Count(tc, Coded("EVENT")) = 0
  <2>1. Polls(s) \in Nat /\ Performs(s, "GET_DEBUG_EVENT") \in Nat
      BY StackCounts
  <2>2. Waits(s, "HANDLE_DEBUG_EVENT") = 0
      BY DEF Callbacks
  <2> QED BY <1>1, <2>1, <2>2, NoNews
<1>4. ASSUME NEW b \in Callbacks PROVE Count(tc, Coded(b)) = 0 /\ InCalls(c, b) = 0
  <2>1. Awaited(s, ts, tc, c, b) /\ Waits(s, b) = 0
      BY DEF Connected, Conserved
  <2>2. /\ Count(tc, Coded(b)) \in Nat /\ Count(ts, AnswersTo(b)) \in Nat /\ InCalls(c, b) \in {0, 1}
      BY CountsNat DEF InCalls, One
  <2> QED BY <2>1, <2>2 DEF Awaited
<1>5. ASSUME NEW r \in Requests, InCalls(c, r) = 0 PROVE Count(tc, AnswersTo(r)) = 0
  <2>1. InCalls(c, r) = Pending(s, ts, r) + Count(tc, AnswersTo(r))
      BY DEF Connected, Conserved, Balanced
  <2>2. Pending(s, ts, r) \in Nat /\ Count(tc, AnswersTo(r)) \in Nat
      BY CountsNat, PendingNat
  <2> QED BY <1>5, <2>1, <2>2
<1>6. InCalls(c, "OTHER") = 0
  <2>1. InCalls(c, "SET_DEBUG_NAMES") = 0 /\ InCalls(c, "HANDLE_DEBUG_EVENT") = 0
      BY <1>4 DEF Callbacks
  <2>2. OtherWithin(c) /\ InCalls(c, "OTHER") \in {0, 1}
      BY <1>1 DEF Numbers, CallsTyped
  <2> QED BY <1>2, <2>1, <2>2 DEF OtherWithin
<1>7. \A r \in Requests : Count(tc, AnswersTo(r)) = 0
    BY <1>2, <1>5, <1>6 DEF Requests
<1>8. SUFFICES ASSUME tc # << >> PROVE FALSE
    OBVIOUS
<1>9. 1 \in 1 .. Len(tc)
    BY <1>8, EmptySeq
<1>10. \/ \E b \in Callbacks \cup {"EVENT"} : tc[1] \in Coded(b)
       \/ \E r \in Requests : tc[1] \in AnswersTo(r)
  <2>1. tc[1] \in Packet
      BY <1>9, ElementOfSeq
  <2> QED BY <1>9, <2>1 DEF Connected, ToClientOK, Coded, AnswersTo
<1>11. \/ \E b \in Callbacks \cup {"EVENT"} : Count(tc, Coded(b)) >= 1
       \/ \E r \in Requests : Count(tc, AnswersTo(r)) >= 1
    BY <1>9, <1>10, CountSome
<1> QED BY <1>3, <1>4, <1>7, <1>11

\* The ways in which a request ends: what is sent, and what happened to the event.
Replied(s, s2, p, told) ==
    /\ s2.frames = Popped(s).frames /\ p.code = "OK" /\ p.re = Top(s).op
    /\ s2.network_error_code = s.network_error_code
    /\ \/ /\ Top(s).op \in {"STOPPED_AT_DEBUG_EVENT", "OTHER"} /\ p.n = 0
          /\ s2.poll_debug_events = Top(s).saved /\ Keeps(s, s2)
       \/ /\ Top(s).op = "CONTINUE_AFTER_EVENT" /\ p.n = 0
          /\ ~s2.poll_debug_events /\ Resumes(s, s2, told)
       \/ /\ Top(s).op = "APPCALL" /\ p.n = s2.got /\ ~s2.poll_debug_events
          /\ Keeps(s, s2) \/ Resumes(s, s2, told) \/ Fetches(s, s2, told)
       \/ /\ Top(s).op = "GET_DEBUG_EVENT" /\ p.n = 0 /\ s2.poll_debug_events /\ Keeps(s, s2)
       \/ /\ Top(s).op = "GET_DEBUG_EVENT" /\ p.n = s2.got /\ ~s2.poll_debug_events
          /\ Fetches(s, s2, told)

\* A reply pops the stack.
LEMMA ReplyStack ==
    ASSUME NEW s \in Server, NEW s2 \in Server, NEW ts \in Seq(Packet), NEW told \in Nat, NEW p,
           ServerInv(s, ts, told), Performing(s), Replied(s, s2, p, told)
    PROVE  /\ Len(s.frames) \in {1, 2} /\ Performs(s, Top(s).op) >= 1
           /\ Top(s).op # "OTHER" => /\ Len(s.frames) = 1 /\ s2.frames = << >> /\ ~Top(s).saved
                                     /\ \A b \in Callbacks : Waits(s, b) = 0
           /\ \A x : Performs(s2, x) = Performs(s, x) - One(x = Top(s).op)
           /\ \A b \in Callbacks : Waits(s2, b) = Waits(s, b)
           /\ Polls(s2) = Polls(s) + One(Top(s).op = "GET_DEBUG_EVENT" /\ s2.poll_debug_events)
           /\ StackShape(s2)
           /\ \A i \in 1 .. Len(s2.frames) : s2.frames[i].wait # "none"
           /\ Shrinks(s, s2) /\ Moves(s, s2, told)
<1>1. /\ Len(s.frames) \in {1, 2}
      /\ Top(s).saved => Top(s).op = "OTHER"
      /\ Len(s.frames) = 2 => Top(s).op = "OTHER" /\ ~Top(s).saved
    BY NoneAnswered
<1>2. StackShape(s)
    BY DEF ServerInv
<1>3. s2.poll_debug_events => Len(s.frames) = 1
    BY <1>1 DEF Replied
<1>4. /\ \A x : Performs(s2, x) = Performs(s, x) - One(x = Top(s).op)
      /\ Performs(s, Top(s).op) >= 1
      /\ \A b \in Callbacks : Waits(s2, b) = Waits(s, b)
      /\ Len(s.frames) = 1 => /\ \A b \in Callbacks : Waits(s, b) = 0
                              /\ s2.frames = << >>
                              /\ Polls(s2) = One(s2.poll_debug_events)
                              /\ Polls(s) = One(Top(s).saved \/ Top(s).op = "POLL")
      /\ Len(s.frames) = 2 => Polls(s2) = Polls(s)
      /\ StackShape(s2)
      /\ \A i \in 1 .. Len(s2.frames) : s2.frames[i].wait # "none"
    BY <1>2, <1>3, StackPops DEF Replied
<1>5. Top(s).op # "OTHER" => Len(s.frames) = 1 /\ ~Top(s).saved
    BY <1>1
<1>6. Polls(s) \in Nat /\ \A x : Performs(s, x) \in Nat /\ Performs(s2, x) \in Nat
    BY StackCounts
<1>7. Polls(s2) = Polls(s) + One(Top(s).op = "GET_DEBUG_EVENT" /\ s2.poll_debug_events)
  <2>1. CASE Len(s.frames) = 2
      BY <1>1, <1>4, <1>6, <2>1 DEF One
  <2>2. CASE Len(s.frames) = 1
    <3>0. Top(s).op # "POLL"
        BY DEF Replied
    <3>1. Polls(s2) = One(s2.poll_debug_events) /\ Polls(s) = One(Top(s).saved)
        BY <1>4, <2>2, <3>0 DEF One
    <3>2. Top(s).saved => Top(s).op = "OTHER"
        BY <1>1
    <3> QED BY <3>1, <3>2 DEF Replied, One
  <2> QED BY <1>1, <2>1, <2>2
<1>8. Shrinks(s, s2)
  <2>1. \A x : Performs(s2, x) <= Performs(s, x)
      BY <1>4, <1>6 DEF One
  <2>2. \A x \in Callbacks : Waits(s2, x) >= Waits(s, x)
      BY <1>4, StackCounts
  <2>3. Performs(s2, "GET_DEBUG_EVENT") = Performs(s, "GET_DEBUG_EVENT") - One("GET_DEBUG_EVENT" = Top(s).op)
      BY <1>4
  <2>4. Performs(s2, "GET_DEBUG_EVENT") + Polls(s2) <= Performs(s, "GET_DEBUG_EVENT") + Polls(s)
      BY <1>6, <1>7, <2>3 DEF One
  <2>5. s.network_error_code => s2.network_error_code
      BY DEF Replied
  <2> QED BY <2>1, <2>2, <2>4, <2>5 DEF Shrinks
<1>9. Talking(s2) => Talking(s) /\ Keeps(s, s2)
  <2>1. CASE Len(s.frames) = 1
    <3>1. Len(s2.frames) = 0
        BY <1>4, <2>1, EmptySeq
    <3> QED BY <3>1 DEF Talking
  <2>2. CASE Len(s.frames) = 2
    <3>1. s.frames # << >>
        BY <2>2, EmptySeq, SMTT(20)
    <3>2. s2.frames[1] = s.frames[1]
      <4>1. \A i \in 1 .. Len(s.frames) - 1 : Popped(s).frames[i] = s.frames[i]
          BY <3>1, PoppedFields
      <4>2. 1 \in 1 .. Len(s.frames) - 1
          BY <2>2
      <4> QED BY <4>1, <4>2 DEF Replied
    <3> QED BY <1>1, <2>2, <3>2 DEF Talking, Replied
  <2> QED BY <1>1, <2>1, <2>2
<1>10. Moves(s, s2, told)
  <2>1. Talking(s2) => told = s2.got
      BY <1>9 DEF ServerInv, EventsInOrder, Keeps
  <2>2. CASE Keeps(s, s2) \/ Resumes(s, s2, told)
      BY <2>1, <2>2 DEF Moves
  <2>3. CASE Fetches(s, s2, told) /\ Top(s).op # "OTHER" /\ ~s2.poll_debug_events
    <3>1. Len(s2.frames) = 0
        BY <1>4, <1>5, <2>3, EmptySeq
    <3>2. Performs(s2, "GET_DEBUG_EVENT") + Polls(s2) = 0 /\ Performs(s2, "CONTINUE_AFTER_EVENT") = 0
        BY <2>3, <3>1 DEF Performs, Polls, One
    <3> QED BY <2>1, <2>3, <3>2 DEF Moves
  <2> QED BY <2>2, <2>3 DEF Replied
<1>11. Top(s).op # "OTHER" => s2.frames = << >> /\ \A b \in Callbacks : Waits(s, b) = 0
    BY <1>4, <1>5
<1> QED BY <1>1, <1>4, <1>5, <1>7, <1>8, <1>10, <1>11

\* A reply while the connection lasts.
LEMMA ReplyUp ==
    ASSUME NEW s \in Server, NEW s2 \in Server, NEW ts \in Seq(Packet), NEW tc \in Seq(Packet),
           NEW c \in ClientState, NEW p \in Packet, ServerInv(s, ts, c.told), Performing(s),
           Connected(s, ts, tc, c), Replied(s, s2, p, c.told), s2.pc = "recv"
    PROVE  Connected(s2, ts, Append(tc, p), c)
<1> DEFINE tc2 == Append(tc, p)
<1>1. c.told \in Nat /\ s.got \in Nat /\ s2.got \in Nat
    BY FieldsTyped DEF ClientState
<1>2. /\ Performs(s, Top(s).op) >= 1
      /\ Top(s).op # "OTHER" => \A b \in Callbacks : Waits(s, b) = 0
      /\ \A x : Performs(s2, x) = Performs(s, x) - One(x = Top(s).op)
      /\ \A b \in Callbacks : Waits(s2, b) = Waits(s, b)
      /\ Polls(s2) = Polls(s) + One(Top(s).op = "GET_DEBUG_EVENT" /\ s2.poll_debug_events)
    BY <1>1, ReplyStack
<1>3. p.code = "OK" /\ p.re = Top(s).op /\ p.re \in Requests
    BY DEF Replied, Requests
<1>4. tc2 \in Seq(Packet)
    BY AppendCounts
<1>5. /\ \A x : Count(tc2, AnswersTo(x)) = Count(tc, AnswersTo(x)) + One(p.re = x)
      /\ \A x \in Callbacks \cup {"EVENT"} : Count(tc2, Coded(x)) = Count(tc, Coded(x))
      /\ Count(tc2, Empty) = Count(tc, Empty) + One(p.re = "GET_DEBUG_EVENT" /\ p.n = 0)
      /\ Count(tc2, Full) = Count(tc, Full) + One(p.re = "GET_DEBUG_EVENT" /\ p.n # 0)
      /\ Count(tc2, News) = Count(tc, News) +
            One((p.re = "GET_DEBUG_EVENT" /\ p.n # 0) \/ p.re = "APPCALL")
  <2>1. AnswerAdded(tc, tc2, p)
      BY <1>3, AnswerSent
  <2> HIDE DEF tc2
  <2> QED BY <2>1 DEF AnswerAdded
<1> HIDE DEF tc2
<1>6. ASSUME NEW r \in Requests
      PROVE  Performs(s2, r) + Count(tc2, AnswersTo(r)) = Performs(s, r) + Count(tc, AnswersTo(r))
  <2>1. /\ Performs(s2, r) = Performs(s, r) - One(r = Top(s).op)
        /\ Count(tc2, AnswersTo(r)) = Count(tc, AnswersTo(r)) + One(Top(s).op = r)
        /\ One(r = Top(s).op) = One(Top(s).op = r) /\ One(Top(s).op = r) \in {0, 1}
      BY <1>2, <1>3, <1>5 DEF One
  <2>2. Performs(s, r) \in Nat /\ Count(tc, AnswersTo(r)) \in Nat
      BY StackCounts, CountsNat
  <2> QED BY <2>1, <2>2
<1>7. ASSUME NEW b \in Callbacks
      PROVE  Waits(s2, b) + Count(tc, Coded(b)) = Waits(s, b) + Count(tc2, Coded(b))
    BY <1>2, <1>5
<1>8. Numbers(s, ts, tc, c)
    BY ConnectedNumbers
<1>9. /\ Count(tc, Empty) \in Nat /\ Count(tc, Full) \in Nat /\ Count(tc, News) \in Nat
      /\ Count(tc, Coded("EVENT")) \in Nat /\ Polls(s) \in Nat /\ Performs(s, "GET_DEBUG_EVENT") \in Nat
      /\ Count(tc, AnswersTo("CONTINUE_AFTER_EVENT")) \in Nat
    BY CountsNat, StackCounts
<1>10. Fetches(s, s2, c.told) =>
           /\ Count(tc, News) = 0 /\ Count(tc, AnswersTo("CONTINUE_AFTER_EVENT")) = 0
           /\ Top(s).op = "APPCALL" => c.held # 0
           /\ Top(s).op \in {"GET_DEBUG_EVENT", "APPCALL"}
  <2> SUFFICES ASSUME Fetches(s, s2, c.told)
               PROVE  /\ Count(tc, News) = 0 /\ Count(tc, AnswersTo("CONTINUE_AFTER_EVENT")) = 0
                      /\ Top(s).op = "APPCALL" => c.held # 0
                      /\ Top(s).op \in {"GET_DEBUG_EVENT", "APPCALL"}
      OBVIOUS
  <2>1. Top(s).op \in {"GET_DEBUG_EVENT", "APPCALL"}
      BY <1>1 DEF Replied, Fetches, Keeps, Resumes
  <2>2. Waits(s, "HANDLE_DEBUG_EVENT") = 0
      BY <1>2, <2>1 DEF Callbacks
  <2>3. Performs(s, "GET_DEBUG_EVENT") + Polls(s) >= 1 \/ Performs(s, "APPCALL") >= 1
      BY <1>2, <1>9, <2>1
  <2>4. Top(s).op = "APPCALL" => Performs(s, "APPCALL") >= 1
      BY <1>2
  <2> QED BY <1>8, <2>1, <2>2, <2>3, <2>4, NoNews
<1>11. p.n # 0 => p \in News
  <2>1. p \in News <=> (p.re = "GET_DEBUG_EVENT" /\ p.n # 0) \/ p.re = "APPCALL"
      BY <1>3, AnswerClass
  <2> QED BY <2>1 DEF Replied
<1>12. p \in News => p.n = s2.got
  <2>1. p \in News <=> (p.re = "GET_DEBUG_EVENT" /\ p.n # 0) \/ p.re = "APPCALL"
      BY <1>3, AnswerClass
  <2> QED BY <2>1 DEF Replied
<1>13. ToClientOK(tc2, s2.got)
  <2>1. s2.got = s.got \/ Fetches(s, s2, c.told)
      BY DEF Replied, Keeps, Resumes
  <2> QED BY <1>3, <1>10, <1>11, <1>12, <2>1, ToClientKept DEF Connected, tc2
<1>14. AnswerFirst(tc2)
  <2>1. p \notin AnswersTo("GET_DEBUG_EVENT") \/ tc = << >>
    <3>1. p \in AnswersTo("GET_DEBUG_EVENT") => Top(s).op = "GET_DEBUG_EVENT"
        BY <1>3, AnswerClass
    <3> QED BY <1>2, <3>1, QuietForGet
  <2> QED BY <2>1, AnswerFirstKept DEF Connected, tc2
<1>15. Sends(s, s2, tc, tc2, c)
  <2>1. Count(tc2, Coded("EVENT")) = Count(tc, Coded("EVENT"))
      BY <1>5
  <2>2. (p.re = "GET_DEBUG_EVENT" /\ p.n = 0) = (Top(s).op = "GET_DEBUG_EVENT" /\ s2.poll_debug_events)
      BY <1>1, <1>3 DEF Replied, Fetches
  <2>3. Count(tc2, Empty) + Polls(s) + Count(tc, Coded("EVENT"))
           = Count(tc, Empty) + Polls(s2) + Count(tc2, Coded("EVENT"))
    <3>1. /\ Count(tc2, Empty) = Count(tc, Empty) + One(p.re = "GET_DEBUG_EVENT" /\ p.n = 0)
          /\ Polls(s2) = Polls(s) + One(p.re = "GET_DEBUG_EVENT" /\ p.n = 0)
          /\ One(p.re = "GET_DEBUG_EVENT" /\ p.n = 0) \in {0, 1}
        BY <1>2, <1>5, <2>2 DEF One
    <3> QED BY <1>9, <2>1, <3>1
  <2>4. Count(tc2, Full) >= Count(tc, Full) /\ Count(tc2, News) >= Count(tc, News)
      BY <1>5, <1>9 DEF One
  <2>5. CASE Keeps(s, s2) /\ ~Fetches(s, s2, c.told)
    <3>1. Count(tc2, AnswersTo("CONTINUE_AFTER_EVENT")) >= 1 =>
              ~s2.in_event \/ Count(tc, AnswersTo("CONTINUE_AFTER_EVENT")) >= 1
      <4>1. Top(s).op = "CONTINUE_AFTER_EVENT" => ~s2.in_event
          BY DEF Replied, Resumes
      <4>2. Top(s).op # "CONTINUE_AFTER_EVENT" =>
               Count(tc2, AnswersTo("CONTINUE_AFTER_EVENT")) = Count(tc, AnswersTo("CONTINUE_AFTER_EVENT"))
          BY <1>3, <1>5, <1>9 DEF One
      <4> QED BY <4>1, <4>2
    <3>2. Count(tc2, Full) + Count(tc2, Coded("EVENT")) >= Count(tc, Full) + Count(tc, Coded("EVENT"))
      <4>1. Count(tc2, Full) \in Nat
          BY <1>4, CountsNat
      <4> QED BY <1>9, <2>1, <2>4, <4>1
    <3> QED BY <2>3, <2>4, <2>5, <3>1, <3>2 DEF Sends
  <2>6. CASE Resumes(s, s2, c.told)
      BY <2>3, <2>6 DEF Sends
  <2>7. CASE Fetches(s, s2, c.told)
    <3>1. /\ Count(tc, News) = 0 /\ Count(tc, AnswersTo("CONTINUE_AFTER_EVENT")) = 0
          /\ Top(s).op = "APPCALL" => c.held # 0
          /\ Top(s).op \in {"GET_DEBUG_EVENT", "APPCALL"}
        BY <1>10, <2>7
    <3>2. s2.got # 0 /\ s2.got # s.got
        BY <1>1, <2>7 DEF Fetches
    <3>3. p.re = "GET_DEBUG_EVENT" => p.n # 0
        BY <1>3, <2>7, <3>2 DEF Replied, Fetches, Keeps
    <3>4. Count(tc2, News) >= 1
        BY <1>3, <1>5, <3>1, <3>3 DEF One
    <3>5. Count(tc2, AnswersTo("CONTINUE_AFTER_EVENT")) = 0
        BY <1>3, <1>5, <3>1 DEF One
    <3>6. p.re = "GET_DEBUG_EVENT" => Count(tc2, Full) >= 1
        BY <1>5, <1>9, <3>3 DEF One
    <3>7. One(c.held # 0) \in {0, 1} /\ (p.re = "APPCALL" => One(c.held # 0) = 1)
        BY <1>3, <3>1 DEF One
    <3>8. Count(tc2, Full) + Count(tc2, Coded("EVENT")) + One(c.held # 0) >= 1
      <4>1. Count(tc2, Full) \in Nat /\ Count(tc2, Coded("EVENT")) \in Nat
          BY <1>4, CountsNat
      <4> QED BY <1>3, <3>1, <3>6, <3>7, <4>1
    <3> QED BY <2>3, <3>4, <3>5, <3>8 DEF Sends
  <2> QED BY <2>5, <2>6, <2>7 DEF Replied
<1>16. ~s2.network_error_code
    BY DEF Connected, Replied
<1>17. Connected(s2, ts, tc2, c)
    BY <1>4, <1>6, <1>7, <1>13, <1>14, <1>15, <1>16, UpKept
<1> QED BY <1>17 DEF tc2

\* What the middle of a step has in common for all the requests.
LEMMA MidFacts ==
    ASSUME NEW s, NEW ts, NEW tc, NEW c, Mid(s, ts, tc, c)
    PROVE  /\ s \in Server /\ ts \in Seq(Packet) /\ tc \in Seq(Packet) /\ c \in ClientState
           /\ c.told \in Nat /\ s.got \in Nat /\ s.got <= made /\ ~s.has_pending_event
           /\ ServerInv(s, ts, c.told) /\ Performing(s) /\ StackShape(s)
           /\ EventsInOrder(s, ts, c.told)
           /\ s.frames # << >> /\ ~s.poll_debug_events /\ Len(s.frames) \in {1, 2}
           /\ Top(s) \in Frame /\ Top(s).wait = "none" /\ Top(s).saved \in BOOLEAN
           /\ Top(s).saved => Top(s).op = "OTHER"
           /\ Len(s.frames) = 2 => Top(s).op = "OTHER" /\ ~Top(s).saved
           /\ Performs(s, Top(s).op) >= 1
           /\ net = "up" => Connected(s, ts, tc, c)
<1>1. /\ s \in Server /\ ts \in Seq(Packet) /\ tc \in Seq(Packet) /\ c \in ClientState
      /\ s.got <= made /\ ~s.has_pending_event /\ ServerInv(s, ts, c.told) /\ Performing(s)
      /\ net = "up" => Connected(s, ts, tc, c)
    BY DEF Mid, Session, Linked
<1>2. c.told \in Nat /\ s.got \in Nat
    BY <1>1, FieldsTyped DEF ClientState
<1>3. StackShape(s) /\ EventsInOrder(s, ts, c.told)
    BY <1>1 DEF ServerInv
<1>4. /\ Len(s.frames) \in {1, 2} /\ Performs(s, Top(s).op) >= 1
      /\ Top(s).saved => Top(s).op = "OTHER"
      /\ Len(s.frames) = 2 => Top(s).op = "OTHER" /\ ~Top(s).saved
    BY <1>1, <1>2, NoneAnswered
<1>5. s.frames # << >>
    BY <1>4, EmptySeq
<1>6. ~s.poll_debug_events
    BY <1>3, <1>4 DEF StackShape
<1>7. Top(s) \in Frame
    BY <1>1, <1>5, PoppedFields
<1>8. Top(s).saved \in BOOLEAN
    BY <1>7, FrameTyped
<1> QED BY <1>1, <1>2, <1>3, <1>4, <1>5, <1>6, <1>7, <1>8 DEF Performing

\* A reply, sent, lost or failed.
LEMMA ReplyGood ==
    ASSUME NEW s, NEW ts, NEW tc, NEW c, Mid(s, ts, tc, c), net \in {"up", "down"},
           NEW sent \in Server, NEW unsent \in Server, NEW p \in Packet,
           sent.pc = "recv", unsent.pc = "null", Like(sent, unsent),
           unsent.network_error_code = s.network_error_code,
           Replied(s, sent, p, c.told), ~sent.has_pending_event, sent.got <= made
    PROVE  GoodOutcomes(Sending(sent, unsent, p), ts, tc, c)
<1>1. /\ s \in Server /\ ts \in Seq(Packet) /\ tc \in Seq(Packet) /\ c \in ClientState
      /\ c.told \in Nat /\ ServerInv(s, ts, c.told) /\ Performing(s)
      /\ net = "up" => Connected(s, ts, tc, c)
    BY MidFacts
<1>2. /\ StackShape(sent) /\ \A i \in 1 .. Len(sent.frames) : sent.frames[i].wait # "none"
      /\ Shrinks(s, sent) /\ Moves(s, sent, c.told)
    BY <1>1, ReplyStack
<1>3. net = "up" => Connected(sent, ts, Append(tc, p), c)
    BY <1>1, ReplyUp
<1>4. sent.network_error_code = s.network_error_code
    BY DEF Replied
<1> QED BY <1>2, <1>3, <1>4, SendingGood

\* r is the record with which perform_request ends.
LEMMA ReplyingGood ==
    ASSUME NEW s, NEW ts, NEW tc, NEW c, Mid(s, ts, tc, c), net \in {"up", "down"},
           NEW r \in Server, r.frames # << >>, Popped(r).frames = Popped(s).frames,
           Top(r).op = Top(s).op, Top(s).op \in Requests,
           r.network_error_code = s.network_error_code, ~r.has_pending_event, r.got <= made,
           NEW k \in Nat, Replied(s, Performed(r), Answer(Top(s).op, k), c.told)
    PROVE  GoodOutcomes(Replying(r, k), ts, tc, c)
<1> DEFINE sent == At(Performed(r), "recv")
           unsent == At(Performed(r), "null")
           p == Answer(Top(s).op, k)
<1>1. p \in Packet
    BY PacketsTyped
<1>2. /\ Performed(r) \in Server /\ Performed(r).got = r.got
      /\ Performed(r).has_pending_event = r.has_pending_event
      /\ Performed(r).network_error_code = r.network_error_code
    BY PerformedFields
<1>3. \A pc \in {"recv", "null"} :
         LET a == At(Performed(r), pc)
         IN /\ a \in Server /\ a.pc = pc /\ Like(Performed(r), a)
            /\ a.network_error_code = r.network_error_code
    BY <1>2, AtFields DEF Like
<1> HIDE DEF p
<1>4. Replied(s, sent, p, c.told)
  <2>1. Like(Performed(r), sent) /\ sent.network_error_code = r.network_error_code
      BY <1>3
  <2>2. Replied(s, Performed(r), p, c.told)
      BY DEF p
  <2> HIDE DEF sent
  <2> QED BY <2>1, <2>2 DEF Replied, Like, Keeps, Resumes, Fetches
<1>5. /\ sent \in Server /\ unsent \in Server /\ sent.pc = "recv" /\ unsent.pc = "null"
      /\ Like(sent, unsent) /\ unsent.network_error_code = s.network_error_code
      /\ ~sent.has_pending_event /\ sent.got <= made
    BY <1>2, <1>3 DEF Like
<1> HIDE DEF sent, unsent
<1>6. GoodOutcomes(Sending(sent, unsent, p), ts, tc, c)
    BY <1>1, <1>4, <1>5, ReplyGood
<1> QED BY <1>6 DEF Replying, sent, unsent, p

-----------------------------------------------------------------------------
(* The replies of each request *)

\* The packet of a reply.
LEMMA AnswerFields ==
    ASSUME NEW r \in Requests, NEW k \in Nat
    PROVE  Answer(r, k).code = "OK" /\ Answer(r, k).re = r /\ Answer(r, k).n = k
BY PacketsTyped

\* A reply that has nothing to do with the event.
LEMMA PlainReply ==
    ASSUME NEW s, NEW ts, NEW tc, NEW c, Mid(s, ts, tc, c), net \in {"up", "down"},
           Top(s).op \in {"STOPPED_AT_DEBUG_EVENT", "OTHER"}
    PROVE  GoodOutcomes(Replying(s, 0), ts, tc, c)
<1>1. /\ s \in Server /\ s.frames # << >> /\ ~s.poll_debug_events /\ ~s.has_pending_event
      /\ s.got <= made /\ Top(s).saved \in BOOLEAN
    BY MidFacts
<1>2. Top(s).op \in Requests
    BY DEF Requests
<1>3. Replied(s, Performed(s), Answer(Top(s).op, 0), c.told)
    BY <1>1, <1>2, PerformedFields, AnswerFields DEF Replied, Keeps
<1> QED BY <1>1, <1>2, <1>3, ReplyingGood

\* An appcall ends without having resumed the process.
LEMMA AppcallReply ==
    ASSUME NEW s, NEW ts, NEW tc, NEW c, Mid(s, ts, tc, c), net \in {"up", "down"},
           Top(s).op = "APPCALL"
    PROVE  GoodOutcomes(Replying(s, s.got), ts, tc, c)
<1>1. /\ s \in Server /\ s.frames # << >> /\ ~s.poll_debug_events /\ ~s.has_pending_event
      /\ s.got <= made /\ s.got \in Nat /\ ~Top(s).saved
    BY MidFacts
<1>2. Top(s).op \in Requests
    BY DEF Requests
<1>3. Replied(s, Performed(s), Answer(Top(s).op, s.got), c.told)
    BY <1>1, <1>2, PerformedFields, AnswerFields DEF Replied, Keeps
<1> QED BY <1>1, <1>2, <1>3, ReplyingGood

\* RPC_CONTINUE_AFTER_EVENT, or an appcall that could not resume the process.
LEMMA ResumeReply ==
    ASSUME NEW s, NEW ts, NEW tc, NEW c, Mid(s, ts, tc, c), net \in {"up", "down"}, NEW k,
           \/ Top(s).op = "CONTINUE_AFTER_EVENT" /\ k = 0
           \/ Top(s).op = "APPCALL" /\ k = s.got /\ c.told = s.got
    PROVE  GoodOutcomes(Replying(Continued(s), k), ts, tc, c)
<1>1. /\ s \in Server /\ s.frames # << >> /\ ~s.poll_debug_events /\ ~s.has_pending_event
      /\ s.got <= made /\ s.got \in Nat /\ ~Top(s).saved /\ ts \in Seq(Packet)
    BY MidFacts
<1>2. Top(s).op \in Requests /\ k \in Nat
    BY <1>1 DEF Requests
<1>3. c.told = s.got
  <2>1. CASE Top(s).op = "CONTINUE_AFTER_EVENT"
    <3>1. Performs(s, "CONTINUE_AFTER_EVENT") >= 1 /\ EventsInOrder(s, ts, c.told)
        BY <2>1, MidFacts
    <3>2. /\ Count(ts, Coded("CONTINUE_AFTER_EVENT")) \in Nat /\ Count(ts, Coded("APPCALL")) \in Nat
          /\ Count(ts, AnswersTo("HANDLE_DEBUG_EVENT")) \in Nat
          /\ Performs(s, "CONTINUE_AFTER_EVENT") \in Nat
        BY <1>1, CountsNat, StackCounts
    <3>3. Pending(s, ts, "CONTINUE_AFTER_EVENT") + Count(ts, Coded("APPCALL")) +
          Count(ts, AnswersTo("HANDLE_DEBUG_EVENT")) >= 1
        BY <3>1, <3>2 DEF Pending
    <3> QED BY <3>1, <3>3 DEF EventsInOrder
  <2> QED BY <2>1
<1>4. /\ Continued(s) \in Server /\ Continued(s).frames = s.frames
      /\ Continued(s).poll_debug_events = s.poll_debug_events
      /\ Continued(s).has_pending_event = s.has_pending_event
      /\ Continued(s).network_error_code = s.network_error_code
      /\ ~Continued(s).in_event /\ Continued(s).got = s.got
    BY <1>1, ContinuedFields
<1> DEFINE r == Continued(s)
<1> HIDE DEF r
<1>5. /\ r \in Server /\ r.frames = s.frames /\ ~r.poll_debug_events /\ ~r.has_pending_event
      /\ r.network_error_code = s.network_error_code /\ ~r.in_event /\ r.got = s.got
    BY <1>1, <1>4 DEF r
<1>6. Top(r) = Top(s) /\ Popped(r).frames = Popped(s).frames
  <2>1. Popped(r).frames = Pop(r.frames) /\ Popped(s).frames = Pop(s.frames)
      BY <1>1, <1>5 DEF Popped, Server
  <2> QED BY <1>5, <2>1 DEF Top
<1>7. Replied(s, Performed(r), Answer(Top(s).op, k), c.told)
  <2>1. /\ Performed(r).frames = Popped(s).frames /\ ~Performed(r).poll_debug_events
        /\ Performed(r).network_error_code = s.network_error_code
        /\ ~Performed(r).in_event /\ Performed(r).got = s.got
      BY <1>1, <1>5, <1>6, PerformedFields
  <2>2. Resumes(s, Performed(r), c.told)
      BY <1>3, <2>1 DEF Resumes
  <2> QED BY <1>2, <2>1, <2>2, AnswerFields DEF Replied
<1>8. GoodOutcomes(Replying(r, k), ts, tc, c)
    BY <1>1, <1>2, <1>5, <1>6, <1>7, ReplyingGood
<1> QED BY <1>8 DEF r

\* A reply that carries a new event.
LEMMA FetchReply ==
    ASSUME NEW s, NEW ts, NEW tc, NEW c, Mid(s, ts, tc, c), net \in {"up", "down"}, EventReady(s),
           Top(s).op \in {"GET_DEBUG_EVENT", "APPCALL"}, made \in Nat,
           Top(s).op = "APPCALL" => c.told = s.got /\ ~s.in_event
    PROVE  GoodOutcomes(Replying(Fetched(s), s.got + 1), ts, tc, c)
<1>1. /\ s \in Server /\ s.frames # << >> /\ ~s.poll_debug_events /\ ~s.has_pending_event
      /\ s.got \in Nat /\ ~Top(s).saved /\ ts \in Seq(Packet)
    BY MidFacts
<1>2. Top(s).op \in Requests /\ s.got + 1 \in Nat /\ s.got + 1 <= made
    BY <1>1 DEF Requests, EventReady
<1>3. c.told = s.got /\ ~s.in_event
  <2>1. CASE Top(s).op = "GET_DEBUG_EVENT"
    <3>1. Performs(s, "GET_DEBUG_EVENT") >= 1 /\ EventsInOrder(s, ts, c.told)
        BY <2>1, MidFacts
    <3>2. /\ Count(ts, Coded("GET_DEBUG_EVENT")) \in Nat /\ Polls(s) \in Nat
          /\ Performs(s, "GET_DEBUG_EVENT") \in Nat
        BY <1>1, CountsNat, StackCounts
    <3>3. Pending(s, ts, "GET_DEBUG_EVENT") + Polls(s) >= 1
        BY <3>1, <3>2 DEF Pending
    <3> QED BY <3>1, <3>3 DEF EventsInOrder
  <2> QED BY <2>1
<1>4. /\ Fetched(s) \in Server /\ Fetched(s).frames = s.frames
      /\ Fetched(s).poll_debug_events = s.poll_debug_events
      /\ Fetched(s).has_pending_event = s.has_pending_event
      /\ Fetched(s).network_error_code = s.network_error_code
      /\ Fetched(s).in_event /\ Fetched(s).got = s.got + 1
    BY <1>1, FetchedFields
<1> DEFINE r == Fetched(s)
           k == s.got + 1
<1> HIDE DEF r, k
<1>5. /\ r \in Server /\ r.frames = s.frames /\ ~r.poll_debug_events /\ ~r.has_pending_event
      /\ r.network_error_code = s.network_error_code /\ r.in_event /\ r.got = k
      /\ k \in Nat /\ k <= made /\ k = s.got + 1
    BY <1>1, <1>2, <1>4 DEF r, k
<1>6. Top(r) = Top(s) /\ Popped(r).frames = Popped(s).frames
  <2>1. Popped(r).frames = Pop(r.frames) /\ Popped(s).frames = Pop(s.frames)
      BY <1>1, <1>5 DEF Popped, Server
  <2> QED BY <1>5, <2>1 DEF Top
<1>7. Replied(s, Performed(r), Answer(Top(s).op, k), c.told)
  <2>1. /\ Performed(r).frames = Popped(s).frames /\ ~Performed(r).poll_debug_events
        /\ Performed(r).network_error_code = s.network_error_code
        /\ Performed(r).in_event /\ Performed(r).got = k
      BY <1>1, <1>5, <1>6, PerformedFields
  <2>2. Fetches(s, Performed(r), c.told)
      BY <1>3, <1>5, <2>1 DEF Fetches
  <2> QED BY <1>2, <1>5, <2>1, <2>2, AnswerFields DEF Replied
<1>8. GoodOutcomes(Replying(r, k), ts, tc, c)
    BY <1>1, <1>2, <1>5, <1>6, <1>7, ReplyingGood
<1> QED BY <1>8 DEF r, k

\* RPC_GET_DEBUG_EVENT finds no event and will turn the poll mode on.
LEMMA EmptyReply ==
    ASSUME NEW s, NEW ts, NEW tc, NEW c, Mid(s, ts, tc, c), net \in {"up", "down"},
           Top(s).op = "GET_DEBUG_EVENT"
    PROVE  GoodOutcomes(Replying(Retop(s, [Top(s) EXCEPT !.saved = TRUE]), 0), ts, tc, c)
<1>1. /\ s \in Server /\ s.frames # << >> /\ ~s.poll_debug_events /\ ~s.has_pending_event
      /\ s.got <= made /\ Top(s) \in Frame /\ Len(s.frames) = 1
    BY MidFacts
<1> DEFINE f == [Top(s) EXCEPT !.saved = TRUE]
<1>2. f \in Frame /\ f.op = Top(s).op /\ f.saved
    BY <1>1 DEF Frame
<1> HIDE DEF f
<1> DEFINE r == Retop(s, f)
<1>3. /\ r \in Server /\ r.frames # << >> /\ Len(r.frames) = Len(s.frames) /\ Top(r) = f
      /\ r.poll_debug_events = s.poll_debug_events /\ r.has_pending_event = s.has_pending_event
      /\ r.network_error_code = s.network_error_code /\ r.in_event = s.in_event /\ r.got = s.got
    BY <1>1, <1>2, Retopped
<1> HIDE DEF r
<1>4. Popped(r).frames = Popped(s).frames
  <2>1. /\ Popped(r).frames \in Seq(Frame) /\ Popped(s).frames \in Seq(Frame)
        /\ Len(Popped(r).frames) = 0 /\ Len(Popped(s).frames) = 0
      BY <1>1, <1>3, PoppedFields
  <2> QED BY <2>1, EmptySeq
<1>5. Replied(s, Performed(r), Answer(Top(s).op, 0), c.told)
  <2>1. /\ Performed(r).frames = Popped(s).frames /\ Performed(r).poll_debug_events
        /\ Performed(r).network_error_code = s.network_error_code
        /\ Performed(r).in_event = s.in_event /\ Performed(r).got = s.got
      BY <1>2, <1>3, <1>4, PerformedFields
  <2> QED BY <2>1, AnswerFields DEF Replied, Keeps, Requests
<1>6. GoodOutcomes(Replying(r, 0), ts, tc, c)
    BY <1>1, <1>2, <1>3, <1>4, <1>5, ReplyingGood DEF Requests
<1> QED BY <1>6 DEF r, f

-----------------------------------------------------------------------------
(* Calls of the server *)

\* The ways in which a request being performed calls the client back.
Called(s, s2, p, b, told) ==
    /\ Len(s2.frames) = Len(s.frames)
    /\ \A i \in 1 .. Len(s.frames) - 1 : s2.frames[i] = s.frames[i]
    /\ Top(s2).op = Top(s).op /\ Top(s2).saved = Top(s).saved /\ Top(s2).wait = b
    /\ s2.poll_debug_events = s.poll_debug_events
    /\ s2.network_error_code = s.network_error_code
    /\ p.code = b
    /\ \/ /\ b = "MSG" /\ p.n = 0 /\ Keeps(s, s2)
          /\ Top(s).op = "APPCALL" => told = s.got
       \/ b = "SET_DEBUG_NAMES" /\ Top(s).op = "STOPPED_AT_DEBUG_EVENT" /\ p.n = 0 /\ Keeps(s, s2)
       \/ b = "HANDLE_DEBUG_EVENT" /\ Top(s).op = "APPCALL" /\ p.n = s2.got /\ Fetches(s, s2, told)

\* What that does to the counts of the stack.
CalledCounts(s, s2, b) ==
    /\ \A x : Performs(s2, x) = Performs(s, x)
    /\ \A x \in Callbacks : Waits(s2, x) = Waits(s, x) + One(x = b)
    /\ Polls(s2) = Polls(s)
    /\ b = "HANDLE_DEBUG_EVENT" => Waits(s, "HANDLE_DEBUG_EVENT") = 0

\* A nested process_request puts a wait on the top of the stack.
LEMMA CallStack ==
    ASSUME NEW s, NEW s2 \in Server, NEW ts, NEW tc, NEW c, NEW p, NEW b \in Callbacks,
           Mid(s, ts, tc, c), Called(s, s2, p, b, c.told)
    PROVE  /\ CalledCounts(s, s2, b)
           /\ StackShape(s2)
           /\ \A i \in 1 .. Len(s2.frames) : s2.frames[i].wait # "none"
           /\ Shrinks(s, s2) /\ Moves(s, s2, c.told)
<1>1. /\ s \in Server /\ StackShape(s) /\ Performing(s) /\ Len(s.frames) \in {1, 2}
      /\ Len(s.frames) = 2 => Top(s).op = "OTHER"
      /\ Top(s).saved => Top(s).op = "OTHER"
      /\ EventsInOrder(s, ts, c.told) /\ ~s.poll_debug_events
    BY MidFacts
<1>2. /\ b \in Callbacks \cup {"none"} /\ b # "none"
      /\ b = "SET_DEBUG_NAMES" => Top(s).op = "STOPPED_AT_DEBUG_EVENT"
      /\ b = "HANDLE_DEBUG_EVENT" => Top(s).op = "APPCALL"
    BY DEF Called, Callbacks
<1>3. /\ \A x : Performs(s2, x) = Performs(s, x)
      /\ \A x \in Callbacks : Waits(s2, x) = Waits(s, x) + One(x = b)
      /\ Polls(s2) = Polls(s)
      /\ Len(s.frames) = 1 => \A x \in Callbacks : Waits(s, x) = 0
      /\ StackShape(s2)
      /\ \A i \in 1 .. Len(s2.frames) : s2.frames[i].wait # "none"
    BY <1>1, <1>2, StackCalls DEF Called
<1>4. b = "HANDLE_DEBUG_EVENT" => Waits(s, "HANDLE_DEBUG_EVENT") = 0 /\ Len(s.frames) = 1
    BY <1>1, <1>2, <1>3 DEF Callbacks
<1>5. Shrinks(s, s2)
  <2>1. \A x \in Callbacks : Waits(s2, x) >= Waits(s, x)
      BY <1>1, <1>3, StackCounts DEF One
  <2>2. \A x : Performs(s2, x) <= Performs(s, x)
      BY <1>1, <1>3, StackCounts
  <2>3. Performs(s2, "GET_DEBUG_EVENT") + Polls(s2) <= Performs(s, "GET_DEBUG_EVENT") + Polls(s)
    <3>1. Performs(s, "GET_DEBUG_EVENT") \in Nat /\ Polls(s) \in Nat
        BY <1>1, StackCounts
    <3> QED BY <1>3, <3>1
  <2> QED BY <2>1, <2>2, <2>3 DEF Shrinks, Called
<1>6. Len(s.frames) = 1 => Top(s2) = s2.frames[1] /\ Top(s) = s.frames[1]
    BY DEF Top, TopOf, Called
<1>7. Talking(s2) => c.told = s2.got
  <2>1. CASE Len(s.frames) = 1
      BY <1>6, <2>1 DEF Talking, Called, Keeps, Callbacks
  <2>2. CASE Len(s.frames) = 2
    <3>1. s2.frames[1] = s.frames[1] /\ Len(s2.frames) = 2
      <4>1. 1 \in 1 .. Len(s.frames) - 1
          BY <2>2
      <4> QED BY <2>2, <4>1 DEF Called
    <3>2. Talking(s2) => Talking(s)
        BY <2>2, <3>1 DEF Talking
    <3>3. Keeps(s, s2)
        BY <1>1, <2>2 DEF Called
    <3> QED BY <1>1, <3>2, <3>3 DEF EventsInOrder, Keeps
  <2> QED BY <1>1, <2>1, <2>2
<1>8. Moves(s, s2, c.told)
  <2>1. CASE Keeps(s, s2)
      BY <1>7, <2>1 DEF Moves
  <2>2. CASE b = "HANDLE_DEBUG_EVENT" /\ Fetches(s, s2, c.told)
    <3>1. /\ Len(s2.frames) = 1 /\ s2.frames[1].op = "APPCALL" /\ ~s2.frames[1].saved
          /\ ~s2.poll_debug_events
        BY <1>1, <1>2, <1>4, <1>6, <2>2 DEF Called
    <3>2. Performs(s2, "GET_DEBUG_EVENT") + Polls(s2) = 0 /\ Performs(s2, "CONTINUE_AFTER_EVENT") = 0
        BY <3>1 DEF Performs, Polls, One
    <3> QED BY <1>7, <2>2, <3>2 DEF Moves
  <2> QED BY <2>1, <2>2 DEF Called
<1> QED BY <1>3, <1>4, <1>5, <1>8 DEF CalledCounts

\* A call of the server while the connection lasts.
LEMMA CallUp ==
    ASSUME NEW s, NEW s2 \in Server, NEW ts, NEW tc, NEW c, NEW p \in Packet, NEW b \in Callbacks,
           Mid(s, ts, tc, c), Called(s, s2, p, b, c.told), net = "up", s2.pc = "recv"
    PROVE  Connected(s2, ts, Append(tc, p), c)
<1> DEFINE tc2 == Append(tc, p)
<1>1. /\ s \in Server /\ ts \in Seq(Packet) /\ tc \in Seq(Packet) /\ c \in ClientState
      /\ Connected(s, ts, tc, c) /\ s.got \in Nat /\ Performs(s, Top(s).op) >= 1
    BY MidFacts
<1>2. /\ \A x : Performs(s2, x) = Performs(s, x)
      /\ \A x \in Callbacks : Waits(s2, x) = Waits(s, x) + One(x = b)
      /\ Polls(s2) = Polls(s)
      /\ b = "HANDLE_DEBUG_EVENT" => Waits(s, "HANDLE_DEBUG_EVENT") = 0
  <2>1. CalledCounts(s, s2, b)
      BY CallStack
  <2> QED BY <2>1 DEF CalledCounts
<1>3. p.code = b /\ p.code # "OK" /\ p.code # "EVENT"
    BY DEF Called, Callbacks
<1>4. tc2 \in Seq(Packet)
    BY <1>1, AppendCounts
<1>5. CallAdded(tc, tc2, p)
    BY <1>1, <1>3, CallSent
<1> HIDE DEF tc2
<1>6. /\ \A x : Count(tc2, AnswersTo(x)) = Count(tc, AnswersTo(x))
      /\ \A x : Count(tc2, Coded(x)) = Count(tc, Coded(x)) + One(p.code = x)
      /\ Count(tc2, Empty) = Count(tc, Empty) /\ Count(tc2, Full) = Count(tc, Full)
      /\ Count(tc2, News) = Count(tc, News) + One(p.code \in {"EVENT", "HANDLE_DEBUG_EVENT"})
    BY <1>5 DEF CallAdded
<1>7. ASSUME NEW x \in Callbacks
      PROVE  Waits(s2, x) + Count(tc, Coded(x)) = Waits(s, x) + Count(tc2, Coded(x))
  <2>1. One(x = b) = One(p.code = x) /\ One(x = b) \in {0, 1}
      BY <1>3 DEF One
  <2>2. /\ Waits(s2, x) = Waits(s, x) + One(x = b)
        /\ Count(tc2, Coded(x)) = Count(tc, Coded(x)) + One(x = b)
      BY <1>2, <1>6, <2>1
  <2>3. Waits(s, x) \in Nat /\ Count(tc, Coded(x)) \in Nat
      BY <1>1, StackCounts, CountsNat
  <2> QED BY <2>1, <2>2, <2>3
<1>8. Numbers(s, ts, tc, c)
    BY <1>1, ConnectedNumbers
<1>9. /\ Count(tc, Empty) \in Nat /\ Count(tc, Full) \in Nat /\ Count(tc, News) \in Nat
      /\ Count(tc, Coded("EVENT")) \in Nat /\ Polls(s) \in Nat /\ Performs(s, "GET_DEBUG_EVENT") \in Nat
    BY <1>1, CountsNat, StackCounts
<1>10. Fetches(s, s2, c.told) =>
           /\ b = "HANDLE_DEBUG_EVENT"
           /\ Count(tc, News) = 0 /\ Count(tc, AnswersTo("CONTINUE_AFTER_EVENT")) = 0
           /\ c.held # 0
  <2> SUFFICES ASSUME Fetches(s, s2, c.told)
               PROVE  /\ b = "HANDLE_DEBUG_EVENT"
                      /\ Count(tc, News) = 0 /\ Count(tc, AnswersTo("CONTINUE_AFTER_EVENT")) = 0
                      /\ c.held # 0
      OBVIOUS
  <2>1. b = "HANDLE_DEBUG_EVENT" /\ Top(s).op = "APPCALL"
      BY <1>1 DEF Called, Fetches, Keeps
  <2>2. Performs(s, "APPCALL") >= 1 /\ Waits(s, "HANDLE_DEBUG_EVENT") = 0
      BY <1>1, <1>2, <2>1
  <2> QED BY <1>8, <2>1, <2>2, NoNews
<1>11. p \in News <=> b = "HANDLE_DEBUG_EVENT"
    BY <1>3, CallClass
<1>12. ToClientOK(tc2, s2.got)
  <2>1. s2.got = s.got \/ Count(tc, News) = 0
      BY <1>10 DEF Called, Keeps
  <2>2. (p.n # 0 => p \in News) /\ (p \in News => p.n = s2.got)
      BY <1>11 DEF Called
  <2>3. p.code \in Callbacks \cup {"EVENT"}
      BY <1>3
  <2> QED BY <1>1, <2>1, <2>2, <2>3, ToClientKept DEF Connected, tc2
<1>13. AnswerFirst(tc2)
  <2>1. p \notin AnswersTo("GET_DEBUG_EVENT")
      BY <1>3, CallClass
  <2> QED BY <1>1, <2>1, AnswerFirstKept DEF Connected, tc2
<1>14. Sends(s, s2, tc, tc2, c)
  <2>1. Count(tc2, Coded("EVENT")) = Count(tc, Coded("EVENT"))
      BY <1>3, <1>6, <1>9 DEF One
  <2>2. Count(tc2, Empty) + Polls(s) + Count(tc, Coded("EVENT"))
           = Count(tc, Empty) + Polls(s2) + Count(tc2, Coded("EVENT"))
      BY <1>2, <1>6, <1>9, <2>1
  <2>3. Count(tc2, News) >= Count(tc, News)
      BY <1>6, <1>9 DEF One
  <2>4. CASE Keeps(s, s2)
    <3>1. Count(tc2, Full) + Count(tc2, Coded("EVENT")) >= Count(tc, Full) + Count(tc, Coded("EVENT"))
        BY <1>6, <1>9, <2>1
    <3> QED BY <1>6, <2>2, <2>3, <2>4, <3>1 DEF Sends
  <2>5. CASE Fetches(s, s2, c.told)
    <3>1. Count(tc2, News) >= 1
        BY <1>3, <1>6, <1>10, <2>5 DEF One
    <3>2. Count(tc2, AnswersTo("CONTINUE_AFTER_EVENT")) = 0
        BY <1>6, <1>10, <2>5
    <3>3. Count(tc2, Full) + Count(tc2, Coded("EVENT")) + One(c.held # 0) >= 1
        BY <1>6, <1>9, <1>10, <2>1, <2>5 DEF One
    <3> QED BY <2>2, <3>1, <3>2, <3>3 DEF Sends
  <2> QED BY <2>4, <2>5 DEF Called
<1>15. ~s2.network_error_code
    BY <1>1 DEF Connected, Called
<1>16. Connected(s2, ts, tc2, c)
  <2>1. \A r \in Requests : Performs(s2, r) + Count(tc2, AnswersTo(r))
                               = Performs(s, r) + Count(tc, AnswersTo(r))
      BY <1>2, <1>6
  <2> QED BY <1>1, <1>4, <1>7, <1>12, <1>13, <1>14, <1>15, <2>1, UpKept
<1> QED BY <1>16 DEF tc2

\* A call of the server, sent, lost or failed.
LEMMA CallGood ==
    ASSUME NEW s, NEW ts, NEW tc, NEW c, Mid(s, ts, tc, c), net \in {"up", "down"},
           NEW sent \in Server, NEW unsent \in Server, NEW p \in Packet, NEW b \in Callbacks,
           sent.pc = "recv", unsent.pc = "null", Like(sent, unsent),
           unsent.network_error_code = s.network_error_code,
           Called(s, sent, p, b, c.told), ~sent.has_pending_event, sent.got <= made
    PROVE  GoodOutcomes(Sending(sent, unsent, p), ts, tc, c)
<1>1. /\ StackShape(sent) /\ \A i \in 1 .. Len(sent.frames) : sent.frames[i].wait # "none"
      /\ Shrinks(s, sent) /\ Moves(s, sent, c.told)
    BY CallStack
<1>2. net = "up" => Connected(sent, ts, Append(tc, p), c)
    BY CallUp
<1>3. sent.network_error_code = s.network_error_code
    BY DEF Called
<1> QED BY <1>1, <1>2, <1>3, SendingGood

\* r is the record with which the nested process_request begins.
LEMMA CallingGood ==
    ASSUME NEW s, NEW ts, NEW tc, NEW c, Mid(s, ts, tc, c), net \in {"up", "down"},
           NEW r \in Server, r.frames # << >>, Len(r.frames) = Len(s.frames),
           \A i \in 1 .. Len(s.frames) - 1 : r.frames[i] = s.frames[i],
           Top(r).op = Top(s).op, Top(r).saved = Top(s).saved,
           r.poll_debug_events = s.poll_debug_events,
           r.network_error_code = s.network_error_code, ~r.has_pending_event, r.got <= made,
           NEW b \in Callbacks, NEW k \in Nat,
           \/ /\ b = "MSG" /\ k = 0 /\ Keeps(s, r)
              /\ Top(s).op = "APPCALL" => c.told = s.got
           \/ b = "SET_DEBUG_NAMES" /\ Top(s).op = "STOPPED_AT_DEBUG_EVENT" /\ k = 0 /\ Keeps(s, r)
           \/ b = "HANDLE_DEBUG_EVENT" /\ Top(s).op = "APPCALL" /\ k = r.got /\ Fetches(s, r, c.told)
    PROVE  GoodOutcomes(Calling(r, b, k), ts, tc, c)
<1> DEFINE f == [Top(r) EXCEPT !.wait = b]
           p == Carrying(b, k)
<1>1. f \in Frame /\ f.op = Top(s).op /\ f.saved = Top(s).saved /\ f.wait = b
    BY PoppedFields, ZenonT(40) DEF Frame
<1>2. p \in Packet /\ p.code = b /\ p.n = k
    BY PacketsTyped
<1> HIDE DEF f, p
<1> DEFINE asked == Retop(r, f)
<1>3. /\ asked \in Server /\ Len(asked.frames) = Len(s.frames) /\ Top(asked) = f
      /\ \A i \in 1 .. Len(s.frames) :
            asked.frames[i] = IF i = Len(s.frames) THEN f ELSE r.frames[i]
      /\ asked.poll_debug_events = r.poll_debug_events
      /\ asked.has_pending_event = r.has_pending_event
      /\ asked.network_error_code = r.network_error_code
      /\ asked.in_event = r.in_event /\ asked.got = r.got
    BY <1>1, Retopped
<1> HIDE DEF asked
<1>4. \A i \in 1 .. Len(s.frames) - 1 : asked.frames[i] = s.frames[i]
  <2>1. Len(s.frames) \in Nat
      BY MidFacts
  <2> QED BY <1>3, <2>1
<1>5. /\ At(asked, "recv") \in Server /\ At(asked, "recv").pc = "recv"
      /\ At(asked, "null") \in Server /\ At(asked, "null").pc = "null"
      /\ Like(asked, At(asked, "recv")) /\ Like(asked, At(asked, "null"))
      /\ At(asked, "recv").network_error_code = s.network_error_code
      /\ At(asked, "null").network_error_code = s.network_error_code
    BY <1>3, AtFields DEF Like
<1> DEFINE sent == At(asked, "recv")
           unsent == At(asked, "null")
<1> HIDE DEF sent, unsent
<1>6. /\ sent \in Server /\ sent.pc = "recv" /\ unsent \in Server /\ unsent.pc = "null"
      /\ Like(asked, sent) /\ Like(sent, unsent)
      /\ sent.network_error_code = s.network_error_code
      /\ unsent.network_error_code = s.network_error_code
    BY <1>5 DEF sent, unsent, Like
<1>7. Called(s, sent, p, b, c.told)
  <2>1. sent.frames = asked.frames /\ Top(sent) = f /\ Top(asked) = f
      BY <1>3, <1>6 DEF Like, Top
  <2>2. sent.poll_debug_events = s.poll_debug_events /\ sent.in_event = r.in_event /\ sent.got = r.got
      BY <1>3, <1>6 DEF Like
  <2>3. \/ /\ b = "MSG" /\ p.n = 0 /\ Keeps(s, sent)
           /\ Top(s).op = "APPCALL" => c.told = s.got
        \/ b = "SET_DEBUG_NAMES" /\ Top(s).op = "STOPPED_AT_DEBUG_EVENT" /\ p.n = 0 /\ Keeps(s, sent)
        \/ b = "HANDLE_DEBUG_EVENT" /\ Top(s).op = "APPCALL" /\ p.n = sent.got /\ Fetches(s, sent, c.told)
      BY <1>2, <2>2 DEF Keeps, Fetches
  <2> QED BY <1>1, <1>2, <1>3, <1>4, <1>6, <2>1, <2>2, <2>3 DEF Called
<1>8. ~sent.has_pending_event /\ sent.got <= made
    BY <1>3, <1>6 DEF Like
<1>9. GoodOutcomes(Sending(sent, unsent, p), ts, tc, c)
    BY <1>2, <1>6, <1>7, <1>8, CallGood
<1> QED BY <1>9 DEF Calling, asked, sent, unsent, f, p

\* The server says something to the user.
LEMMA MsgGood ==
    ASSUME NEW s, NEW ts, NEW tc, NEW c, Mid(s, ts, tc, c), net \in {"up", "down"},
           Top(s).op = "APPCALL" => c.told = s.got
    PROVE  GoodOutcomes(Calling(s, "MSG", 0), ts, tc, c)
<1>1. s \in Server /\ s.frames # << >> /\ ~s.has_pending_event /\ s.got <= made
    BY MidFacts
<1>2. "MSG" \in Callbacks /\ 0 \in Nat /\ Keeps(s, s)
    BY DEF Callbacks, Keeps
<1> QED BY <1>1, <1>2, CallingGood

\* A packet of names.
LEMMA NamesGood ==
    ASSUME NEW s, NEW ts, NEW tc, NEW c, Mid(s, ts, tc, c), net \in {"up", "down"},
           Top(s).op = "STOPPED_AT_DEBUG_EVENT", NEW left \in 0 .. MaxNames
    PROVE  GoodOutcomes(SendNames(s, left), ts, tc, c)
<1>1. /\ s \in Server /\ s.frames # << >> /\ ~s.has_pending_event /\ s.got <= made
      /\ Top(s) \in Frame /\ Len(s.frames) \in Nat
    BY MidFacts
<1>2. CASE left = 0
    BY <1>2, PlainReply DEF SendNames
<1>3. CASE left # 0
  <2> DEFINE f == [Top(s) EXCEPT !.left = left]
             r == Retop(s, f)
  <2>1. f \in Frame /\ f.op = Top(s).op /\ f.saved = Top(s).saved
      BY <1>1 DEF Frame
  <2> HIDE DEF f
  <2>2. /\ r \in Server /\ r.frames # << >> /\ Len(r.frames) = Len(s.frames) /\ Top(r) = f
        /\ \A i \in 1 .. Len(s.frames) : r.frames[i] = IF i = Len(s.frames) THEN f ELSE s.frames[i]
        /\ r.poll_debug_events = s.poll_debug_events /\ r.has_pending_event = s.has_pending_event
        /\ r.network_error_code = s.network_error_code /\ r.in_event = s.in_event /\ r.got = s.got
      BY <1>1, <2>1, Retopped
  <2> HIDE DEF r
  <2>3. \A i \in 1 .. Len(s.frames) - 1 : r.frames[i] = s.frames[i]
      BY <1>1, <2>2
  <2>4. "SET_DEBUG_NAMES" \in Callbacks /\ 0 \in Nat /\ Keeps(s, r)
      BY <2>2 DEF Callbacks, Keeps
  <2>5. GoodOutcomes(Calling(r, "SET_DEBUG_NAMES", 0), ts, tc, c)
      BY <1>1, <2>1, <2>2, <2>3, <2>4, CallingGood
  <2> QED BY <1>3, <2>5 DEF SendNames, r, f
<1> QED BY <1>2, <1>3

\* An event of the appcall is shown to the client.
LEMMA ShownGood ==
    ASSUME NEW s, NEW ts, NEW tc, NEW c, Mid(s, ts, tc, c), net \in {"up", "down"},
           Top(s).op = "APPCALL", c.told = s.got, ~s.in_event, EventReady(s), made \in Nat,
           NEW last \in BOOLEAN
    PROVE  GoodOutcomes(Calling(Retop(Fetched(s), [Top(Fetched(s)) EXCEPT !.last = last]),
                                "HANDLE_DEBUG_EVENT", Fetched(s).got), ts, tc, c)
<1>1. /\ s \in Server /\ s.frames # << >> /\ ~s.has_pending_event /\ s.got \in Nat
      /\ Top(s) \in Frame /\ Len(s.frames) \in Nat
    BY MidFacts
<1>2. s.got + 1 \in Nat /\ s.got + 1 <= made
    BY <1>1 DEF EventReady
<1> DEFINE g == Fetched(s)
<1>3. /\ g \in Server /\ g.frames = s.frames
      /\ g.poll_debug_events = s.poll_debug_events
      /\ g.has_pending_event = s.has_pending_event
      /\ g.network_error_code = s.network_error_code
      /\ g.in_event /\ g.got = s.got + 1
    BY <1>1, FetchedFields
<1> HIDE DEF g
<1>4. Top(g) = Top(s)
    BY <1>3 DEF Top
<1> DEFINE f == [Top(g) EXCEPT !.last = last]
           r == Retop(g, f)
<1>5. f \in Frame /\ f.op = Top(s).op /\ f.saved = Top(s).saved
    BY <1>1, <1>4 DEF Frame
<1> HIDE DEF f
<1>6. /\ r \in Server /\ r.frames # << >> /\ Len(r.frames) = Len(s.frames) /\ Top(r) = f
      /\ \A i \in 1 .. Len(s.frames) : r.frames[i] = IF i = Len(s.frames) THEN f ELSE s.frames[i]
      /\ r.poll_debug_events = s.poll_debug_events /\ r.has_pending_event = s.has_pending_event
      /\ r.network_error_code = s.network_error_code /\ r.in_event /\ r.got = g.got
    BY <1>1, <1>3, <1>5, Retopped
<1> HIDE DEF r
<1>7. \A i \in 1 .. Len(s.frames) - 1 : r.frames[i] = s.frames[i]
    BY <1>1, <1>6
<1>8. Fetches(s, r, c.told) /\ r.got <= made /\ g.got \in Nat
    BY <1>2, <1>3, <1>6 DEF Fetches
<1>9. "HANDLE_DEBUG_EVENT" \in Callbacks
    BY DEF Callbacks
<1>10. GoodOutcomes(Calling(r, "HANDLE_DEBUG_EVENT", g.got), ts, tc, c)
    BY <1>1, <1>5, <1>6, <1>7, <1>8, <1>9, CallingGood
<1> QED BY <1>10 DEF r, f, g

-----------------------------------------------------------------------------
(* Poll mode, and the switch of perform_request *)

\* The event loop of an appcall begins or goes on.
LEMMA LoopGood ==
    ASSUME NEW s, NEW ts, NEW tc, NEW c, Mid(s, ts, tc, c), net \in {"up", "down"},
           Top(s).op = "APPCALL", c.told = s.got,
           NEW s2 \in Server, s2.pc = "loop", Len(s2.frames) = Len(s.frames),
           Top(s2).op = Top(s).op, Top(s2).saved = Top(s).saved, Top(s2).wait = "none",
           s2.poll_debug_events = s.poll_debug_events, ~s2.has_pending_event,
           s2.network_error_code = s.network_error_code, ~s2.in_event, s2.got = s.got
    PROVE  Good(s2, ts, tc, c)
<1>1. /\ s \in Server /\ ts \in Seq(Packet) /\ tc \in Seq(Packet) /\ c \in ClientState
      /\ StackShape(s) /\ Performing(s) /\ Len(s.frames) = 1 /\ s.got <= made
      /\ net = "up" => Connected(s, ts, tc, c)
    BY MidFacts
<1>2. \A i \in 1 .. Len(s.frames) - 1 : s2.frames[i] = s.frames[i]
    BY <1>1
<1>3. /\ \A x : Performs(s2, x) = Performs(s, x)
      /\ \A x \in Callbacks : Waits(s2, x) = Waits(s, x) + One(x = "none")
      /\ Polls(s2) = Polls(s)
      /\ StackShape(s2)
  <2>1. "none" \in Callbacks \cup {"none"} /\ "none" # "SET_DEBUG_NAMES"
        /\ "none" # "HANDLE_DEBUG_EVENT"
      OBVIOUS
  <2> QED BY <1>1, <1>2, <2>1, StackCalls, ZenonT(40)
<1>4. \A x \in Callbacks : Waits(s2, x) = Waits(s, x)
    BY <1>1, <1>3, StackCounts DEF Callbacks, One
<1>5. Resumes(s, s2, c.told)
    BY DEF Resumes
<1>6. Moves(s, s2, c.told)
    BY <1>5 DEF Moves, Resumes
<1>7. Shrinks(s, s2)
  <2>1. \A x \in Callbacks : Waits(s2, x) >= Waits(s, x)
      BY <1>1, <1>4, StackCounts
  <2>2. \A x : Performs(s2, x) <= Performs(s, x)
      BY <1>1, <1>3, StackCounts
  <2>3. Performs(s2, "GET_DEBUG_EVENT") + Polls(s2) <= Performs(s, "GET_DEBUG_EVENT") + Polls(s)
    <3>1. Performs(s, "GET_DEBUG_EVENT") \in Nat /\ Polls(s) \in Nat
        BY <1>1, StackCounts
    <3> QED BY <1>3, <3>1
  <2> QED BY <2>1, <2>2, <2>3 DEF Shrinks
<1>8. StackWaits(s2)
  <2>1. Len(s2.frames) = 1 /\ s2.frames[1] = Top(s2)
      BY <1>1 DEF Top, TopOf
  <2> QED BY <2>1 DEF StackWaits
<1>9. ASSUME net = "up" PROVE Connected(s2, ts, tc, c)
  <2>1. Connected(s, ts, tc, c)
      BY <1>1, <1>9
  <2>2. ~s2.network_error_code /\ ToClientOK(tc, s2.got) /\ AnswerFirst(tc)
      BY <2>1 DEF Connected
  <2>3. Sends(s, s2, tc, tc, c)
    <3>1. Count(tc, Empty) \in Nat /\ Polls(s) \in Nat /\ Count(tc, Coded("EVENT")) \in Nat
        BY <1>1, StackCounts, CountsNat
    <3> QED BY <1>3, <1>5, <3>1 DEF Sends
  <2>4. \A r \in Requests : Performs(s2, r) + Count(tc, AnswersTo(r))
                               = Performs(s, r) + Count(tc, AnswersTo(r))
      BY <1>3
  <2>5. \A b \in Callbacks : Waits(s2, b) + Count(tc, Coded(b)) = Waits(s, b) + Count(tc, Coded(b))
      BY <1>4
  <2> QED BY <1>1, <2>1, <2>2, <2>3, <2>4, <2>5, UpKept
<1> QED BY <1>1, <1>3, <1>6, <1>7, <1>8, <1>9, GoodAfter

\* The frame of poll_events is the only one.
LEMMA PollFacts ==
    ASSUME NEW s, NEW ts, NEW tc, NEW c, Mid(s, ts, tc, c), Top(s).op = "POLL",
           NEW s2 \in Server, s2.frames = Popped(s).frames
    PROVE  /\ Polls(s) = 1 /\ Polls(s2) = One(s2.poll_debug_events) /\ s2.frames = << >>
           /\ \A x \in Requests : Performs(s2, x) = Performs(s, x)
           /\ \A b \in Callbacks : Waits(s2, b) = Waits(s, b) /\ Waits(s, b) = 0
           /\ Performs(s, "GET_DEBUG_EVENT") = 0 /\ Performs(s2, "CONTINUE_AFTER_EVENT") = 0
           /\ StackShape(s2) /\ ~Talking(s2)
           /\ c.told = s.got /\ ~s.in_event
<1>1. /\ s \in Server /\ ts \in Seq(Packet) /\ StackShape(s) /\ Performing(s) /\ Len(s.frames) = 1
      /\ EventsInOrder(s, ts, c.told)
    BY MidFacts
<1>2. /\ \A x : Performs(s2, x) = Performs(s, x) - One(x = Top(s).op)
      /\ \A b \in Callbacks : Waits(s2, b) = Waits(s, b)
      /\ \A b \in Callbacks : Waits(s, b) = 0
      /\ s2.frames = << >>
      /\ Polls(s2) = One(s2.poll_debug_events)
      /\ Polls(s) = One(Top(s).saved \/ Top(s).op = "POLL")
      /\ StackShape(s2)
    BY <1>1, StackPops
<1>3. Polls(s) = 1
    BY <1>2 DEF One
<1>4. Len(s2.frames) = 0
    BY <1>2, EmptySeq
<1>5. ~Talking(s2) /\ \A x : Performs(s2, x) = 0
    BY <1>4 DEF Talking, Performs, One
<1>6. \A x \in Requests : Performs(s, x) = 0
  <2>1. s.frames[1] = Top(s)
      BY <1>1 DEF Top, TopOf
  <2> QED BY <1>1, <2>1 DEF Performs, One, Requests
<1>7. c.told = s.got /\ ~s.in_event
  <2>1. /\ Count(ts, Coded("GET_DEBUG_EVENT")) \in Nat /\ Performs(s, "GET_DEBUG_EVENT") \in Nat
      BY <1>1, CountsNat, StackCounts
  <2>2. Pending(s, ts, "GET_DEBUG_EVENT") + Polls(s) >= 1
      BY <1>3, <2>1 DEF Pending
  <2> QED BY <1>1, <2>2 DEF EventsInOrder
<1> QED BY <1>2, <1>3, <1>5, <1>6, <1>7 DEF Requests

\* poll_events finds an event.
LEMMA PollEventGood ==
    ASSUME NEW s, NEW ts, NEW tc, NEW c, Mid(s, ts, tc, c), net \in {"up", "down"},
           Top(s).op = "POLL", EventReady(s), made \in Nat,
           NEW sent \in Server, NEW unsent \in Server, sent.pc = "recv", unsent.pc = "null",
           Like(sent, unsent), unsent.network_error_code = s.network_error_code,
           sent.network_error_code = s.network_error_code,
           sent.frames = Popped(s).frames, ~sent.poll_debug_events, ~sent.has_pending_event,
           sent.in_event, sent.got = s.got + 1
    PROVE  GoodOutcomes(Sending(sent, unsent, Carrying("EVENT", s.got + 1)), ts, tc, c)
<1> DEFINE k == s.got + 1
           p == Carrying("EVENT", k)
           tc2 == Append(tc, p)
<1>1. /\ s \in Server /\ ts \in Seq(Packet) /\ tc \in Seq(Packet) /\ c \in ClientState
      /\ s.got \in Nat /\ c.told \in Nat
      /\ net = "up" => Connected(s, ts, tc, c)
    BY MidFacts
<1>2. /\ s.got + 1 \in Nat /\ sent.got <= made
    BY <1>1, FieldsTyped DEF EventReady
<1>3. p \in Packet /\ p.code = "EVENT" /\ p.n = sent.got
  <2>1. k \in Nat /\ k = sent.got
      BY <1>2
  <2> HIDE DEF k
  <2>2. \A n \in Nat : /\ Carrying("EVENT", n) \in Packet /\ Carrying("EVENT", n).code = "EVENT"
                       /\ Carrying("EVENT", n).n = n
      BY DEF Carrying, Bare, Packet
  <2> QED BY <2>1, <2>2
<1> HIDE DEF p
<1>4. /\ Polls(s) = 1 /\ Polls(sent) = 0 /\ sent.frames = << >>
      /\ \A x \in Requests : Performs(sent, x) = Performs(s, x)
      /\ \A b \in Callbacks : Waits(sent, b) = Waits(s, b) /\ Waits(s, b) = 0
      /\ Performs(s, "GET_DEBUG_EVENT") = 0 /\ Performs(sent, "CONTINUE_AFTER_EVENT") = 0
      /\ StackShape(sent) /\ ~Talking(sent)
      /\ c.told = s.got /\ ~s.in_event
    BY PollFacts DEF One
<1>5. Fetches(s, sent, c.told)
    BY <1>4 DEF Fetches
<1>6. Performs(sent, "GET_DEBUG_EVENT") = 0
    BY <1>4 DEF Requests
<1>7. Shrinks(s, sent)
  <2>1. \A x \in Requests : Performs(sent, x) <= Performs(s, x)
      BY <1>1, <1>4, StackCounts
  <2>2. \A x \in Callbacks : Waits(sent, x) >= Waits(s, x)
      BY <1>1, <1>4, StackCounts
  <2>3. Performs(sent, "GET_DEBUG_EVENT") + Polls(sent) <= Performs(s, "GET_DEBUG_EVENT") + Polls(s)
      BY <1>4, <1>6
  <2> QED BY <2>1, <2>2, <2>3 DEF Shrinks
<1>8. Moves(s, sent, c.told)
  <2>1. Performs(sent, "GET_DEBUG_EVENT") + Polls(sent) = 0
      BY <1>4, <1>6
  <2> QED BY <1>4, <1>5, <2>1 DEF Moves
<1>9. \A i \in 1 .. Len(sent.frames) : sent.frames[i].wait # "none"
  <2>1. Len(sent.frames) = 0
      BY <1>4, EmptySeq
  <2> QED BY <2>1
<1>10. ASSUME net = "up" PROVE Connected(sent, ts, tc2, c)
  <2>1. Connected(s, ts, tc, c) /\ Numbers(s, ts, tc, c)
      BY <1>1, <1>10, ConnectedNumbers
  <2>2. CallAdded(tc, tc2, p) /\ tc2 \in Seq(Packet)
      BY <1>1, <1>3, CallSent, AppendCounts
  <2>3. p \in News /\ p \notin AnswersTo("GET_DEBUG_EVENT")
      BY <1>3, CallClass
  <2>4. Count(tc, News) = 0 /\ Count(tc, AnswersTo("CONTINUE_AFTER_EVENT")) = 0
    <3>1. Waits(s, "HANDLE_DEBUG_EVENT") = 0 /\ Performs(s, "GET_DEBUG_EVENT") + Polls(s) >= 1
        BY <1>4 DEF Callbacks
    <3> QED BY <2>1, <3>1, NoNews
  <2>5. ToClientOK(tc2, sent.got)
      BY <1>1, <1>3, <2>1, <2>3, <2>4, ToClientKept DEF Connected
  <2>6. AnswerFirst(tc2)
      BY <1>1, <1>3, <2>1, <2>3, AnswerFirstKept DEF Connected
  <2> HIDE DEF tc2
  <2>7. /\ \A x : Count(tc2, AnswersTo(x)) = Count(tc, AnswersTo(x))
        /\ \A x : Count(tc2, Coded(x)) = Count(tc, Coded(x)) + One(p.code = x)
        /\ Count(tc2, Empty) = Count(tc, Empty) /\ Count(tc2, Full) = Count(tc, Full)
        /\ Count(tc2, News) = Count(tc, News) + One(p.code \in {"EVENT", "HANDLE_DEBUG_EVENT"})
      BY <2>2 DEF CallAdded
  <2>8. \A S : Count(tc, S) \in Nat
      BY <1>1, CountsNat
  <2>9. /\ Count(tc2, Coded("EVENT")) = Count(tc, Coded("EVENT")) + 1
        /\ \A b \in Callbacks : Count(tc2, Coded(b)) = Count(tc, Coded(b))
      BY <1>3, <2>7, <2>8 DEF One, Callbacks
  <2>10. Sends(s, sent, tc, tc2, c)
    <3>1. /\ Count(tc, Empty) \in Nat /\ Count(tc, Full) \in Nat /\ Count(tc, Coded("EVENT")) \in Nat
        BY <2>8
    <3>2. Count(tc2, Empty) + Polls(s) + Count(tc, Coded("EVENT"))
             = Count(tc, Empty) + Polls(sent) + Count(tc2, Coded("EVENT"))
        BY <1>4, <2>7, <2>9, <3>1
    <3>3. Count(tc2, News) >= 1 /\ Count(tc2, AnswersTo("CONTINUE_AFTER_EVENT")) = 0
        BY <1>3, <2>4, <2>7 DEF One
    <3>4. Count(tc2, Full) + Count(tc2, Coded("EVENT")) + One(c.held # 0) >= 1
        BY <2>7, <2>9, <3>1 DEF One
    <3> QED BY <3>2, <3>3, <3>4 DEF Sends
  <2>11. ~sent.network_error_code
      BY <2>1 DEF Connected
  <2>12. \A r \in Requests : Performs(sent, r) + Count(tc2, AnswersTo(r))
                                = Performs(s, r) + Count(tc, AnswersTo(r))
      BY <1>4, <2>7
  <2>13. \A b \in Callbacks : Waits(sent, b) + Count(tc, Coded(b)) = Waits(s, b) + Count(tc2, Coded(b))
      BY <1>4, <2>9
  <2> QED BY <1>1, <2>1, <2>2, <2>5, <2>6, <2>10, <2>11, <2>12, <2>13, UpKept
<1> HIDE DEF tc2
<1>11. net = "up" => Connected(sent, ts, Append(tc, p), c)
    BY <1>10 DEF tc2
<1>12. GoodOutcomes(Sending(sent, unsent, p), ts, tc, c)
    BY <1>2, <1>3, <1>4, <1>7, <1>8, <1>9, <1>11, SendingGood
<1> QED BY <1>12 DEF p, k

\* poll_events finds none and turns the poll mode on again.
LEMMA PollNoneGood ==
    ASSUME NEW s, NEW ts, NEW tc, NEW c, Mid(s, ts, tc, c), net \in {"up", "down"},
           Top(s).op = "POLL",
           NEW s2 \in Server, s2.pc = "recv", s2.network_error_code = s.network_error_code,
           s2.frames = Popped(s).frames, s2.poll_debug_events, ~s2.has_pending_event, Keeps(s, s2)
    PROVE  Good(s2, ts, tc, c)
<1>1. /\ s \in Server /\ ts \in Seq(Packet) /\ tc \in Seq(Packet) /\ c \in ClientState
      /\ s.got <= made
      /\ net = "up" => Connected(s, ts, tc, c)
    BY MidFacts
<1>2. /\ Polls(s) = 1 /\ Polls(s2) = 1 /\ s2.frames = << >>
      /\ \A x \in Requests : Performs(s2, x) = Performs(s, x)
      /\ \A b \in Callbacks : Waits(s2, b) = Waits(s, b) /\ Waits(s, b) = 0
      /\ StackShape(s2) /\ ~Talking(s2)
    BY PollFacts DEF One
<1>3. Moves(s, s2, c.told)
    BY <1>2 DEF Moves
<1>4. Shrinks(s, s2)
  <2>1. \A x \in Requests : Performs(s2, x) <= Performs(s, x)
      BY <1>1, <1>2, StackCounts
  <2>2. \A x \in Callbacks : Waits(s2, x) >= Waits(s, x)
      BY <1>1, <1>2, StackCounts
  <2>3. Performs(s2, "GET_DEBUG_EVENT") + Polls(s2) <= Performs(s, "GET_DEBUG_EVENT") + Polls(s)
    <3>1. /\ Performs(s2, "GET_DEBUG_EVENT") = Performs(s, "GET_DEBUG_EVENT")
          /\ Performs(s, "GET_DEBUG_EVENT") \in Nat
        BY <1>1, <1>2, StackCounts DEF Requests
    <3> QED BY <1>2, <3>1
  <2> QED BY <2>1, <2>2, <2>3 DEF Shrinks
<1>5. StackWaits(s2)
    BY <1>2, EmptySeq DEF StackWaits
<1>6. ASSUME net = "up" PROVE Connected(s2, ts, tc, c)
  <2>1. Connected(s, ts, tc, c)
      BY <1>1, <1>6
  <2>2. ~s2.network_error_code /\ ToClientOK(tc, s2.got) /\ AnswerFirst(tc)
      BY <2>1 DEF Connected, Keeps
  <2>3. Sends(s, s2, tc, tc, c)
    <3>1. /\ Count(tc, Empty) \in Nat /\ Count(tc, Coded("EVENT")) \in Nat
          /\ Count(tc, Full) \in Nat /\ Count(tc, News) \in Nat
        BY <1>1, CountsNat
    <3> QED BY <1>2, <3>1 DEF Sends
  <2>4. \A r \in Requests : Performs(s2, r) + Count(tc, AnswersTo(r))
                               = Performs(s, r) + Count(tc, AnswersTo(r))
      BY <1>2
  <2>5. \A b \in Callbacks : Waits(s2, b) + Count(tc, Coded(b)) = Waits(s, b) + Count(tc, Coded(b))
      BY <1>2
  <2> QED BY <1>1, <2>1, <2>2, <2>3, <2>4, <2>5, UpKept
<1>7. s2.got <= made
    BY <1>1 DEF Keeps
<1> QED BY <1>1, <1>2, <1>3, <1>4, <1>5, <1>6, <1>7, GoodAfter

\* The rest of poll_events.
LEMMA PollEventsGood ==
    ASSUME NEW s, NEW ts, NEW tc, NEW c, Mid(s, ts, tc, c), net \in {"up", "down"},
           Top(s).op = "POLL", made \in Nat
    PROVE  GoodOutcomes(PollEvents(s), ts, tc, c)
<1>1. /\ s \in Server /\ tc \in Seq(Packet) /\ s.frames # << >> /\ ~s.poll_debug_events
      /\ ~s.has_pending_event /\ s.got \in Nat
    BY MidFacts
<1> DEFINE idle == At(Popped(s), "recv")
<1>2. /\ idle \in Server /\ idle.pc = "recv" /\ idle.frames = Popped(s).frames
      /\ ~idle.poll_debug_events /\ ~idle.has_pending_event
      /\ idle.network_error_code = s.network_error_code
      /\ idle.in_event = s.in_event /\ idle.got = s.got
    BY <1>1, PoppedFields, AtFields
<1> HIDE DEF idle
<1>3. CASE EventReady(s)
  <2> DEFINE sent == Fetched(idle)
             unsent == At(Fetched(idle), "null")
  <2>1. /\ sent \in Server /\ sent.pc = "recv" /\ sent.frames = Popped(s).frames
        /\ ~sent.poll_debug_events /\ ~sent.has_pending_event
        /\ sent.network_error_code = s.network_error_code
        /\ sent.in_event /\ sent.got = s.got + 1
      BY <1>2, FetchedFields
  <2>2. /\ unsent \in Server /\ unsent.pc = "null" /\ Like(sent, unsent)
        /\ unsent.network_error_code = s.network_error_code
    <3> HIDE DEF sent
    <3> QED BY <2>1, AtFields DEF Like, sent
  <2> HIDE DEF sent, unsent
  <2>3. GoodOutcomes(Sending(sent, unsent, Carrying("EVENT", s.got + 1)), ts, tc, c)
      BY <1>3, <2>1, <2>2, PollEventGood
  <2> QED BY <1>3, <2>3 DEF PollEvents, idle, sent, unsent
<1>4. CASE ~EventReady(s)
  <2> DEFINE s2 == [idle EXCEPT !.poll_debug_events = TRUE]
  <2>1. /\ s2 \in Server /\ s2.pc = "recv" /\ s2.frames = Popped(s).frames
        /\ s2.poll_debug_events /\ ~s2.has_pending_event
        /\ s2.network_error_code = s.network_error_code
        /\ s2.in_event = s.in_event /\ s2.got = s.got
      BY <1>2 DEF Server
  <2> HIDE DEF s2
  <2>2. Good(s2, ts, tc, c)
      BY <2>1, PollNoneGood DEF Keeps
  <2>3. GoodOutcomes(Silent(s2), ts, tc, c)
      BY <1>1, <2>2, SilentGood
  <2> QED BY <1>4, <2>3 DEF PollEvents, idle, s2
<1> QED BY <1>3, <1>4

\* Outcomes of two kinds.
LEMMA UnionGood ==
    ASSUME NEW A, NEW B, NEW ts, NEW tc, NEW c,
           GoodOutcomes(A, ts, tc, c), GoodOutcomes(B, ts, tc, c)
    PROVE  GoodOutcomes(A \cup B, ts, tc, c)
BY DEF GoodOutcomes

\* dbg_appcall up to its event loop.
LEMMA AppcallGood ==
    ASSUME NEW s, NEW ts, NEW tc, NEW c, Mid(s, ts, tc, c), net \in {"up", "down"},
           Top(s).op = "APPCALL", c.told = s.got
    PROVE  GoodOutcomes(Appcall(s), ts, tc, c)
<1>1. GoodOutcomes(Replying(s, s.got), ts, tc, c)
    BY AppcallReply
<1>2. GoodOutcomes(Replying(Continued(s), s.got), ts, tc, c)
    BY ResumeReply
<1>3. ASSUME NEW t \in BOOLEAN
      PROVE  GoodOutcomes(Silent(At(Continued(Retop(s, [Top(s) EXCEPT !.timed = t])), "loop")), ts, tc, c)
  <2>1. /\ s \in Server /\ tc \in Seq(Packet) /\ s.frames # << >> /\ Top(s) \in Frame
        /\ ~s.has_pending_event /\ Top(s).wait = "none"
      BY MidFacts
  <2> DEFINE f == [Top(s) EXCEPT !.timed = t]
             r == Retop(s, f)
             s2 == At(Continued(r), "loop")
  <2>2. f \in Frame /\ f.op = Top(s).op /\ f.saved = Top(s).saved /\ f.wait = "none"
      BY <2>1 DEF Frame
  <2> HIDE DEF f
  <2>3. /\ r \in Server /\ Len(r.frames) = Len(s.frames) /\ Top(r) = f
        /\ r.poll_debug_events = s.poll_debug_events /\ r.has_pending_event = s.has_pending_event
        /\ r.network_error_code = s.network_error_code /\ r.got = s.got
      BY <2>1, <2>2, Retopped
  <2> HIDE DEF r
  <2>4. /\ Continued(r) \in Server /\ Continued(r).frames = r.frames
        /\ Continued(r).poll_debug_events = r.poll_debug_events
        /\ Continued(r).has_pending_event = r.has_pending_event
        /\ Continued(r).network_error_code = r.network_error_code
        /\ ~Continued(r).in_event /\ Continued(r).got = r.got
      BY <2>3, ContinuedFields
  <2>5. /\ s2 \in Server /\ s2.pc = "loop" /\ s2.frames = r.frames
        /\ s2.poll_debug_events = r.poll_debug_events
        /\ s2.has_pending_event = r.has_pending_event
        /\ s2.network_error_code = r.network_error_code
        /\ ~s2.in_event /\ s2.got = r.got
      BY <2>4, AtFields
  <2> HIDE DEF s2
  <2>6. Len(s2.frames) = Len(s.frames) /\ Top(s2) = f
      BY <2>3, <2>5 DEF Top
  <2>7. Good(s2, ts, tc, c)
      BY <2>1, <2>2, <2>3, <2>5, <2>6, LoopGood
  <2>8. GoodOutcomes(Silent(s2), ts, tc, c)
      BY <2>1, <2>7, SilentGood
  <2> QED BY <2>8 DEF s2, r, f
<1> DEFINE Loop(t) == Silent(At(Continued(Retop(s, [Top(s) EXCEPT !.timed = t])), "loop"))
<1>4. GoodOutcomes(UNION {Loop(t) : t \in BOOLEAN}, ts, tc, c)
    BY <1>3 DEF GoodOutcomes
<1>5. Appcall(s) = (Replying(s, s.got) \cup Replying(Continued(s), s.got)) \cup UNION {Loop(t) : t \in BOOLEAN}
    BY DEF Appcall
<1> HIDE DEF Loop
<1>6. GoodOutcomes(Replying(s, s.got) \cup Replying(Continued(s), s.got), ts, tc, c)
    BY <1>1, <1>2, UnionGood
<1>7. GoodOutcomes((Replying(s, s.got) \cup Replying(Continued(s), s.got)) \cup UNION {Loop(t) : t \in BOOLEAN},
                   ts, tc, c)
  <2> DEFINE A == Replying(s, s.got) \cup Replying(Continued(s), s.got)
             B == UNION {Loop(t) : t \in BOOLEAN}
  <2>1. GoodOutcomes(A, ts, tc, c) /\ GoodOutcomes(B, ts, tc, c)
      BY <1>4, <1>6
  <2> HIDE DEF A, B
  <2>2. GoodOutcomes(A \cup B, ts, tc, c)
      BY <2>1, UnionGood
  <2> QED BY <2>2 DEF A, B
<1> QED BY <1>5, <1>7

\* The switch of perform_request.
LEMMA BodyGood ==
    ASSUME NEW s, NEW ts, NEW tc, NEW c, Mid(s, ts, tc, c), net \in {"up", "down"}, made \in Nat,
           Top(s).op = "APPCALL" => c.told = s.got
    PROVE  GoodOutcomes(Body(s), ts, tc, c)
<1>1. Top(s).op \in Requests \cup {"POLL"} /\ s.got <= made /\ ~s.has_pending_event
  <2>1. Top(s) \in Frame /\ s.got <= made /\ ~s.has_pending_event
      BY MidFacts
  <2> QED BY <2>1, FrameTyped
<1>2. CASE Top(s).op = "GET_DEBUG_EVENT"
  <2>1. EventReady(s) => GoodOutcomes(Replying(Fetched(s), s.got + 1), ts, tc, c)
      BY <1>2, FetchReply
  <2>2. GoodOutcomes(Replying(Retop(s, [Top(s) EXCEPT !.saved = TRUE]), 0), ts, tc, c)
      BY <1>2, EmptyReply
  <2> QED BY <1>1, <1>2, <2>1, <2>2 DEF Body, GetDebugEvent
<1>3. CASE Top(s).op = "CONTINUE_AFTER_EVENT"
    BY <1>3, ResumeReply DEF Body
<1>4. CASE Top(s).op = "STOPPED_AT_DEBUG_EVENT"
  <2>1. \A k \in 0 .. MaxNames : GoodOutcomes(SendNames(s, k), ts, tc, c)
      BY <1>4, NamesGood
  <2>2. GoodOutcomes(UNION {SendNames(s, k) : k \in 0 .. MaxNames}, ts, tc, c)
      BY <2>1 DEF GoodOutcomes
  <2> QED BY <1>4, <2>2 DEF Body
<1>5. CASE Top(s).op = "APPCALL"
    BY <1>5, AppcallGood DEF Body
<1>6. CASE Top(s).op = "POLL"
    BY <1>6, PollEventsGood DEF Body
<1>7. CASE Top(s).op = "OTHER"
    BY <1>7, PlainReply DEF Body
<1> QED BY <1>1, <1>2, <1>3, <1>4, <1>5, <1>6, <1>7 DEF Requests

\* The client has answered about an event of an appcall.
LEMMA AppcallAnsweredGood ==
    ASSUME NEW s, NEW ts, NEW tc, NEW c, Mid(s, ts, tc, c), net \in {"up", "down"},
           Top(s).op = "APPCALL", NEW good \in BOOLEAN, good => c.told = s.got
    PROVE  GoodOutcomes(AppcallAnswered(s, good), ts, tc, c)
<1>1. GoodOutcomes(Replying(s, s.got), ts, tc, c)
    BY AppcallReply
<1>2. ASSUME good PROVE GoodOutcomes(Silent(At(Continued(s), "loop")), ts, tc, c)
  <2>1. /\ s \in Server /\ tc \in Seq(Packet) /\ ~s.has_pending_event /\ Top(s).wait = "none"
      BY MidFacts
  <2> DEFINE s2 == At(Continued(s), "loop")
  <2>2. /\ Continued(s) \in Server /\ Continued(s).frames = s.frames
        /\ Continued(s).poll_debug_events = s.poll_debug_events
        /\ Continued(s).has_pending_event = s.has_pending_event
        /\ Continued(s).network_error_code = s.network_error_code
        /\ ~Continued(s).in_event /\ Continued(s).got = s.got
      BY <2>1, ContinuedFields
  <2>3. /\ s2 \in Server /\ s2.pc = "loop" /\ s2.frames = s.frames
        /\ s2.poll_debug_events = s.poll_debug_events /\ ~s2.has_pending_event
        /\ s2.network_error_code = s.network_error_code
        /\ ~s2.in_event /\ s2.got = s.got
      BY <2>1, <2>2, AtFields
  <2> HIDE DEF s2
  <2>4. Top(s2) = Top(s)
      BY <2>3 DEF Top
  <2>5. Good(s2, ts, tc, c)
      BY <1>2, <2>1, <2>3, <2>4, LoopGood
  <2> QED BY <2>1, <2>5, SilentGood DEF s2
<1> QED BY <1>1, <1>2 DEF AppcallAnswered

-----------------------------------------------------------------------------
(* The server reads a packet *)

\* A packet has been taken from the stream.
LEMMA TailFacts ==
    ASSUME NEW ts \in Seq(Packet), ts # << >>
    PROVE  /\ Tail(ts) \in Seq(Packet) /\ Head(ts) \in Packet /\ Head(ts) = ts[1]
           /\ Len(ts) \in Nat \ {0} /\ Len(Tail(ts)) = Len(ts) - 1
           /\ \A i \in 1 .. Len(Tail(ts)) : Tail(ts)[i] = ts[i + 1] /\ i + 1 \in 1 .. Len(ts)
           /\ \A S : Count(ts, S) = Count(Tail(ts), S) + One(Head(ts) \in S)
           /\ ToServerOK(ts) => ToServerOK(Tail(ts))
<1>1. /\ Tail(ts) \in Seq(Packet) /\ Head(ts) \in Packet /\ Head(ts) = ts[1]
      /\ Len(ts) \in Nat \ {0} /\ Len(Tail(ts)) = Len(ts) - 1
      /\ \A i \in 1 .. Len(Tail(ts)) : Tail(ts)[i] = ts[i + 1]
    BY HeadTailProperties, EmptySeq
<1>2. \A i \in 1 .. Len(Tail(ts)) : i + 1 \in 1 .. Len(ts)
    BY <1>1
<1>3. \A S : Count(ts, S) = Count(Tail(ts), S) + One(Head(ts) \in S)
    BY CountTail
<1>4. ToServerOK(ts) => ToServerOK(Tail(ts))
    BY <1>1, <1>2 DEF ToServerOK
<1> QED BY <1>1, <1>2, <1>3, <1>4

\* A step that only moves a request from the stream to the stack, or an answer to the
\* call that waits for it.
Same(s, s2, ts, ts2) ==
    /\ \A x \in Requests : /\ Pending(s2, ts2, x) = Pending(s, ts, x)
                           /\ Count(ts2, Coded(x)) <= Count(ts, Coded(x))
    /\ \A b \in Callbacks : Count(ts2, AnswersTo(b)) <= Count(ts, AnswersTo(b))
    /\ Polls(s2) = Polls(s) /\ Keeps(s, s2)
    /\ Talking(s2) => Talking(s)

\* The same, for each request by name.
LEMMA SameEach ==
    ASSUME NEW s, NEW s2, NEW ts, NEW ts2, Same(s, s2, ts, ts2)
    PROVE  /\ Pending(s2, ts2, "GET_DEBUG_EVENT") = Pending(s, ts, "GET_DEBUG_EVENT")
           /\ Pending(s2, ts2, "CONTINUE_AFTER_EVENT") = Pending(s, ts, "CONTINUE_AFTER_EVENT")
           /\ Pending(s2, ts2, "STOPPED_AT_DEBUG_EVENT") = Pending(s, ts, "STOPPED_AT_DEBUG_EVENT")
           /\ Pending(s2, ts2, "APPCALL") = Pending(s, ts, "APPCALL")
           /\ Pending(s2, ts2, "OTHER") = Pending(s, ts, "OTHER")
           /\ Count(ts2, Coded("APPCALL")) <= Count(ts, Coded("APPCALL"))
           /\ Count(ts2, AnswersTo("HANDLE_DEBUG_EVENT")) <= Count(ts, AnswersTo("HANDLE_DEBUG_EVENT"))
           /\ Polls(s2) = Polls(s)
BY DEF Same, Requests, Callbacks

\* The server's part of the invariant when nothing is performed or pending that was not.
LEMMA SameServer ==
    ASSUME NEW s \in Server, NEW s2 \in Server, NEW ts \in Seq(Packet), NEW ts2 \in Seq(Packet),
           NEW told \in Nat, ServerInv(s, ts, told), Same(s, s2, ts, ts2),
           StackShape(s2), MainWhenIdle(s2, ts2), AnswersExpected(s2, ts2), GoodbyeLast(s2, ts2),
           ToServerOK(ts2)
    PROVE  ServerInv(s2, ts2, told)
<1>1. OneAtATime(s2, ts2)
    BY SameEach DEF ServerInv, OneAtATime
<1>2. EventsInOrder(s2, ts2, told)
  <2>1. EventsInOrder(s, ts, told)
      BY DEF ServerInv
  <2>2. /\ Pending(s, ts, "CONTINUE_AFTER_EVENT") \in Nat
        /\ Count(ts, Coded("APPCALL")) \in Nat /\ Count(ts2, Coded("APPCALL")) \in Nat
        /\ Count(ts, AnswersTo("HANDLE_DEBUG_EVENT")) \in Nat
        /\ Count(ts2, AnswersTo("HANDLE_DEBUG_EVENT")) \in Nat
      BY CountsNat, PendingNat
  <2>3. Pending(s2, ts2, "CONTINUE_AFTER_EVENT") + Count(ts2, Coded("APPCALL")) +
        Count(ts2, AnswersTo("HANDLE_DEBUG_EVENT")) >= 1 =>
        Pending(s, ts, "CONTINUE_AFTER_EVENT") + Count(ts, Coded("APPCALL")) +
        Count(ts, AnswersTo("HANDLE_DEBUG_EVENT")) >= 1
      BY <2>2, SameEach
  <2>4. s2.got = s.got /\ s2.in_event = s.in_event /\ (Talking(s2) => Talking(s))
      BY DEF Same, Keeps
  <2>5. Pending(s2, ts2, "GET_DEBUG_EVENT") + Polls(s2) = Pending(s, ts, "GET_DEBUG_EVENT") + Polls(s)
      BY SameEach
  <2> QED BY <2>1, <2>3, <2>4, <2>5 DEF EventsInOrder
<1> QED BY <1>1, <1>2 DEF ServerInv

\* The conversation, likewise.
LEMMA SameConnected ==
    ASSUME NEW s \in Server, NEW s2 \in Server, NEW ts \in Seq(Packet), NEW ts2 \in Seq(Packet),
           NEW tc, NEW c, Connected(s, ts, tc, c), Same(s, s2, ts, ts2),
           s2.network_error_code = s.network_error_code, s2.pc \in {"recv", "loop"},
           \A i \in 1 .. Len(ts2) : ts2[i] \notin AnswersTo("CLOSE"),
           \A b \in Callbacks : Waits(s2, b) + Count(ts, AnswersTo(b))
                                   = Waits(s, b) + Count(ts2, AnswersTo(b)), tc \in Seq(Packet)
    PROVE  Connected(s2, ts2, tc, c)
<1>1. ASSUME NEW r \in Requests PROVE Balanced(s2, ts2, tc, c, r)
    BY DEF Connected, Conserved, Balanced, Same
<1>2. ASSUME NEW b \in Callbacks PROVE Awaited(s2, ts2, tc, c, b)
  <2>1. /\ Waits(s, b) = Count(tc, Coded(b)) + InCalls(c, b) + Count(ts, AnswersTo(b))
        /\ Waits(s2, b) + Count(ts, AnswersTo(b)) = Waits(s, b) + Count(ts2, AnswersTo(b))
      BY DEF Connected, Conserved, Awaited
  <2>2. /\ Waits(s, b) \in Nat /\ Waits(s2, b) \in Nat /\ Count(ts, AnswersTo(b)) \in Nat
        /\ Count(ts2, AnswersTo(b)) \in Nat /\ InCalls(c, b) \in {0, 1} /\ Count(tc, Coded(b)) \in Nat
      BY StackCounts, CountsNat DEF InCalls, One
  <2> DEFINE w == Waits(s, b)   w2 == Waits(s2, b)   n == Count(tc, Coded(b))   k == InCalls(c, b)
             q == Count(ts, AnswersTo(b))   q2 == Count(ts2, AnswersTo(b))
  <2> HIDE DEF w, w2, n, k, q, q2
  <2>3. /\ w = n + k + q /\ w2 + q = w + q2
        /\ w \in Nat /\ w2 \in Nat /\ q \in Nat /\ q2 \in Nat /\ k \in {0, 1} /\ n \in Nat
      BY <2>1, <2>2 DEF w, w2, n, k, q, q2
  <2>4. w2 = n + k + q2
      BY <2>3
  <2> QED BY <2>4 DEF Awaited, w2, n, k, q2
<1>3. Cycle(s2, tc, c) /\ ToClientOK(tc, s2.got) /\ ~s2.network_error_code
    BY DEF Connected, Cycle, Same, Keeps
<1> QED BY <1>1, <1>2, <1>3 DEF Connected, Conserved

\* What holds between two steps.
LEMMA GoodFacts ==
    ASSUME NEW s, NEW ts, NEW tc, NEW c, Good(s, ts, tc, c)
    PROVE  /\ s \in Server /\ ts \in Seq(Packet) /\ tc \in Seq(Packet) /\ c \in ClientState
           /\ c.told \in Nat /\ s.got \in Nat /\ s.got <= made /\ ~s.has_pending_event
           /\ ServerInv(s, ts, c.told) /\ StackShape(s) /\ OneAtATime(s, ts) /\ MainWhenIdle(s, ts)
           /\ AnswersExpected(s, ts) /\ GoodbyeLast(s, ts) /\ ToServerOK(ts)
           /\ EventsInOrder(s, ts, c.told) /\ StackWaits(s)
           /\ s.pc = "loop" => c.told = s.got
           /\ net = "up" => Connected(s, ts, tc, c)
           /\ net = "down" => Disconnected(s, ts, tc, c)
<1>1. Session(s, ts, tc, c) /\ StackWaits(s) /\ (s.pc = "loop" => c.told = s.got)
    BY DEF Good
<1>2. c.told \in Nat /\ s.got \in Nat
    BY <1>1, FieldsTyped DEF Session, ClientState
<1> QED BY <1>1, <1>2 DEF Session, ServerInv, Linked

\* Two kinds of pending requests are never there together.
LEMMA OnlyOne ==
    ASSUME NEW s \in Server, NEW ts \in Seq(Packet), OneAtATime(s, ts), NEW r \in Main,
           Count(ts, Coded(r)) >= 1
    PROVE  /\ Polls(s) = 0 /\ Count(ts, Coded(r)) = 1
           /\ \A m \in Main : m # r => Count(ts, Coded(m)) = 0
<1>1. /\ Pending(s, ts, "GET_DEBUG_EVENT") \in Nat /\ Pending(s, ts, "CONTINUE_AFTER_EVENT") \in Nat
      /\ Pending(s, ts, "STOPPED_AT_DEBUG_EVENT") \in Nat /\ Pending(s, ts, "APPCALL") \in Nat
      /\ Polls(s) \in Nat
    BY PendingNat, StackCounts
<1>2. Pending(s, ts, "GET_DEBUG_EVENT") + Pending(s, ts, "CONTINUE_AFTER_EVENT") +
      Pending(s, ts, "STOPPED_AT_DEBUG_EVENT") + Pending(s, ts, "APPCALL") + Polls(s) <= 1
    BY DEF OneAtATime
<1>3. \A m \in Main : /\ Count(ts, Coded(m)) <= Pending(s, ts, m)
                      /\ Count(ts, Coded(m)) \in Nat /\ Pending(s, ts, m) \in Nat
  <2> SUFFICES ASSUME NEW m \in Main
               PROVE  /\ Count(ts, Coded(m)) <= Pending(s, ts, m)
                      /\ Count(ts, Coded(m)) \in Nat /\ Pending(s, ts, m) \in Nat
      OBVIOUS
  <2>1. Count(ts, Coded(m)) \in Nat /\ Performs(s, m) \in Nat
      BY CountsNat, StackCounts
  <2> QED BY <2>1 DEF Pending
<1>4. Main = {"GET_DEBUG_EVENT", "CONTINUE_AFTER_EVENT", "STOPPED_AT_DEBUG_EVENT", "APPCALL"}
    BY DEF Main, Requests
<1>5. Pending(s, ts, r) >= 1
    BY <1>3
<1>6. /\ Polls(s) = 0 /\ Pending(s, ts, r) = 1
      /\ \A m \in Main : m # r => Pending(s, ts, m) = 0
    BY <1>1, <1>2, <1>4, <1>5
<1> QED BY <1>3, <1>6

\* A number that is at most one.
LEMMA NoneOrOne == \A n \in Nat : n <= 2 /\ n # 2 => n \in {0, 1}
OBVIOUS

\* A request is taken from the stream.
LEMMA EnterMid ==
    ASSUME NEW s, NEW ts, NEW tc, NEW c, Good(s, ts, tc, c), net \in {"up", "down"},
           s.pc = "recv", ts # << >>, NEW r \in Requests, Head(ts).code = r
    PROVE  /\ Mid(Entered(s, r), Tail(ts), tc, c)
           /\ Top(Entered(s, r)).op = "APPCALL" => c.told = Entered(s, r).got
<1> DEFINE s2 == Entered(s, r)
           ts2 == Tail(ts)
<1>1. /\ s \in Server /\ ts \in Seq(Packet) /\ tc \in Seq(Packet) /\ c \in ClientState
      /\ c.told \in Nat /\ s.got \in Nat /\ s.got <= made /\ ~s.has_pending_event
      /\ ServerInv(s, ts, c.told) /\ StackShape(s) /\ OneAtATime(s, ts) /\ MainWhenIdle(s, ts)
      /\ AnswersExpected(s, ts) /\ GoodbyeLast(s, ts) /\ ToServerOK(ts)
      /\ EventsInOrder(s, ts, c.told) /\ StackWaits(s)
    BY GoodFacts
<1>2. /\ ts2 \in Seq(Packet) /\ Head(ts) \in Packet /\ Len(ts) \in Nat \ {0}
      /\ Len(ts2) = Len(ts) - 1 /\ Head(ts) = ts[1]
      /\ \A i \in 1 .. Len(ts2) : ts2[i] = ts[i + 1] /\ i + 1 \in 1 .. Len(ts)
      /\ \A S : Count(ts, S) = Count(ts2, S) + One(Head(ts) \in S)
      /\ ToServerOK(ts2)
    BY <1>1, TailFacts
<1>3. /\ s2 \in Server /\ s2.pc = s.pc /\ s2.has_pending_event = s.has_pending_event
      /\ s2.network_error_code = s.network_error_code
      /\ s2.in_event = s.in_event /\ s2.got = s.got
      /\ Len(s2.frames) = Len(s.frames) + 1 /\ Len(s.frames) \in Nat
      /\ \A i \in 1 .. Len(s.frames) : s2.frames[i] = s.frames[i]
      /\ s2.frames[Len(s.frames) + 1].wait = "none"
  <2>1. r \in Requests \cup {"POLL"}
      OBVIOUS
  <2>2. NewFrame(r, r # "POLL" /\ s.poll_debug_events).wait = "none"
      BY DEF NewFrame
  <2> QED BY <1>1, <2>1, <2>2, EnteredFields
<1> HIDE DEF ts2
<1>4. /\ \A x \in Requests : Count(ts, Coded(x)) = Count(ts2, Coded(x)) + One(x = r)
      /\ \A x : Count(ts, AnswersTo(x)) = Count(ts2, AnswersTo(x))
      /\ \A S : Count(ts2, S) \in Nat /\ Count(ts, S) \in Nat
  <2>1. \A S : Count(ts2, S) \in Nat /\ Count(ts, S) \in Nat
      BY <1>1, <1>2, CountsNat
  <2>2. Head(ts).code # "OK"
      BY DEF Requests
  <2>3. /\ \A x : Head(ts) \notin AnswersTo(x)
        /\ \A x : Head(ts) \in Coded(x) <=> r = x
      BY <1>2, <2>2, CallClass
  <2>4. \A x : One(Head(ts) \in AnswersTo(x)) = 0 /\ One(Head(ts) \in Coded(x)) = One(x = r)
      BY <2>3 DEF One
  <2> QED BY <1>2, <2>1, <2>4
<1>5. Count(ts, Coded(r)) >= 1
    BY <1>4 DEF One
<1>6. \A i \in 1 .. Len(s.frames) : s.frames[i].wait # "none"
    BY <1>1 DEF StackWaits
<1>7. /\ s.frames = << >> \/ (Len(s.frames) = 1 /\ r = "OTHER" /\ s.frames[1].op # "OTHER")
      /\ s.poll_debug_events => r = "OTHER"
  <2>1. CASE r # "OTHER"
    <3>1. r \in Main
        BY <2>1 DEF Main
    <3>2. Polls(s) = 0 /\ s.frames = << >>
        BY <1>1, <1>5, <3>1, OnlyOne DEF MainWhenIdle
    <3>3. ~s.poll_debug_events
        BY <3>2 DEF Polls, One
    <3> QED BY <3>2, <3>3
  <2>2. CASE r = "OTHER"
    <3>1. Performs(s, "OTHER") = 0
      <4>1. Count(ts, Coded("OTHER")) + Performs(s, "OTHER") <= 1 /\ Count(ts, Coded("OTHER")) >= 1
          BY <1>1, <1>5, <2>2 DEF OneAtATime, Pending
      <4>2. Performs(s, "OTHER") \in Nat /\ Count(ts, Coded("OTHER")) \in Nat
          BY <1>1, <1>4, StackCounts
      <4> QED BY <4>1, <4>2
    <3>2. /\ Len(s.frames) >= 1 => s.frames[1].op # "OTHER"
          /\ Len(s.frames) >= 2 => s.frames[2].op # "OTHER"
        BY <3>1 DEF Performs, One
    <3>3. Len(s.frames) \in {0, 1}
      <4>1. Len(s.frames) <= 2 /\ (Len(s.frames) = 2 => s.frames[2].op = "OTHER")
          BY <1>1 DEF StackShape
      <4>2. Len(s.frames) # 2
          BY <3>2, <4>1
      <4> QED BY <1>3, <4>1, <4>2, NoneOrOne
    <3>4. Len(s.frames) = 0 => s.frames = << >>
        BY <1>1, FieldsTyped, EmptySeq
    <3> QED BY <2>2, <3>2, <3>3, <3>4
  <2> QED BY <2>1, <2>2
<1>8. /\ \A x : Performs(s2, x) = Performs(s, x) + One(x = r)
      /\ \A x \in Callbacks : Waits(s2, x) = Waits(s, x)
      /\ Polls(s2) = Polls(s)
      /\ Top(s2).op = r
      /\ StackShape(s2) /\ Performing(s2)
    BY <1>1, <1>6, <1>7, StackEnters DEF Requests
<1> HIDE DEF s2
<1>9. \A x \in Requests : Pending(s2, ts2, x) = Pending(s, ts, x) /\ Pending(s, ts, x) \in Nat
  <2> SUFFICES ASSUME NEW x \in Requests
               PROVE Pending(s2, ts2, x) = Pending(s, ts, x) /\ Pending(s, ts, x) \in Nat
      OBVIOUS
  <2>1. /\ Count(ts, Coded(x)) = Count(ts2, Coded(x)) + One(x = r)
        /\ Performs(s2, x) = Performs(s, x) + One(x = r)
        /\ Count(ts2, Coded(x)) \in Nat /\ Performs(s, x) \in Nat /\ One(x = r) \in {0, 1}
      BY <1>1, <1>4, <1>8, StackCounts DEF One
  <2> QED BY <2>1 DEF Pending
<1>10. Same(s, s2, ts, ts2)
  <2>1. \A x \in Requests : Count(ts2, Coded(x)) <= Count(ts, Coded(x))
      BY <1>4 DEF One
  <2>2. \A b \in Callbacks : Count(ts2, AnswersTo(b)) <= Count(ts, AnswersTo(b))
      BY <1>4
  <2>3. Talking(s2) => Talking(s)
    <3>1. CASE Len(s.frames) = 0
        BY <1>3, <3>1 DEF Talking
    <3>2. CASE Len(s.frames) >= 1
      <4>1. s2.frames[1] = s.frames[1]
          BY <1>3, <3>2
      <4> QED BY <3>2, <4>1 DEF Talking
    <3> QED BY <1>3, <3>1, <3>2
  <2> QED BY <1>3, <1>8, <1>9, <2>1, <2>2, <2>3 DEF Same, Keeps
<1>11. MainWhenIdle(s2, ts2)
  <2> SUFFICES ASSUME NEW m \in Main, Count(ts2, Coded(m)) >= 1 PROVE FALSE
      BY DEF MainWhenIdle
  <2>1. m \in Requests /\ Count(ts, Coded(m)) >= 1
      BY <1>4 DEF Main, One
  <2>2. CASE r \in Main
    <3>1. Count(ts, Coded(r)) = 1 /\ (m # r => Count(ts, Coded(m)) = 0)
        BY <1>1, <1>5, <2>2, OnlyOne
    <3>2. Count(ts2, Coded(r)) = 0
      <4>1. Count(ts, Coded(r)) = Count(ts2, Coded(r)) + One(r = r) /\ Count(ts2, Coded(r)) \in Nat
          BY <1>4
      <4> QED BY <3>1, <4>1 DEF One
    <3> QED BY <2>1, <3>1, <3>2
  <2>3. CASE r = "OTHER"
      BY <1>1, <1>5, <2>1, <2>3 DEF MainWhenIdle
  <2> QED BY <2>2, <2>3 DEF Main
<1>12. AnswersExpected(s2, ts2)
  <2>1. Pending(s2, ts2, "OTHER") = Pending(s, ts, "OTHER")
      BY <1>9 DEF Requests
  <2>2. /\ Waits(s2, "SET_DEBUG_NAMES") = Waits(s, "SET_DEBUG_NAMES")
        /\ Waits(s2, "HANDLE_DEBUG_EVENT") = Waits(s, "HANDLE_DEBUG_EVENT")
        /\ Waits(s2, "MSG") = Waits(s, "MSG")
      BY <1>8 DEF Callbacks
  <2> QED BY <1>1, <1>3, <1>4, <2>1, <2>2 DEF AnswersExpected
<1>13. \A i \in 1 .. Len(ts2) : ts2[i] \notin AnswersTo("CLOSE")
  <2> SUFFICES ASSUME NEW i \in 1 .. Len(ts2), ts2[i] \in AnswersTo("CLOSE") PROVE FALSE
      OBVIOUS
  <2>1. Pending(s, ts, r) = 0
      BY <1>1, <1>2 DEF GoodbyeLast
  <2>2. Pending(s, ts, r) >= 1
    <3>1. Count(ts, Coded(r)) \in Nat /\ Performs(s, r) \in Nat
        BY <1>1, <1>4, StackCounts
    <3> QED BY <1>5, <3>1 DEF Pending
  <2> QED BY <2>1, <2>2
<1>14. ServerInv(s2, ts2, c.told)
    BY <1>1, <1>2, <1>3, <1>8, <1>10, <1>11, <1>12, <1>13, SameServer DEF GoodbyeLast
<1>15. ASSUME net = "up" PROVE Connected(s2, ts2, tc, c)
  <2>1. Connected(s, ts, tc, c)
      BY <1>15, GoodFacts
  <2>2. \A b \in Callbacks : Waits(s2, b) + Count(ts, AnswersTo(b)) = Waits(s, b) + Count(ts2, AnswersTo(b))
      BY <1>4, <1>8
  <2> QED BY <1>1, <1>2, <1>3, <1>10, <1>13, <2>1, <2>2, SameConnected
<1>16. ASSUME net = "down" PROVE Disconnected(s2, ts2, tc, c)
    BY <1>3, <1>16, GoodFacts DEF Disconnected
<1>17. Mid(s2, ts2, tc, c)
    BY <1>1, <1>2, <1>3, <1>8, <1>14, <1>15, <1>16 DEF Mid, Session, Linked
<1>18. Top(s2).op = "APPCALL" => c.told = s2.got
  <2> SUFFICES ASSUME r = "APPCALL" PROVE c.told = s.got
      BY <1>3, <1>8
  <2>1. /\ Count(ts, Coded("APPCALL")) >= 1 /\ Count(ts, Coded("APPCALL")) \in Nat
        /\ Pending(s, ts, "CONTINUE_AFTER_EVENT") \in Nat
        /\ Count(ts, AnswersTo("HANDLE_DEBUG_EVENT")) \in Nat
      BY <1>1, <1>4, <1>5, PendingNat
  <2>2. Pending(s, ts, "CONTINUE_AFTER_EVENT") + Count(ts, Coded("APPCALL")) +
        Count(ts, AnswersTo("HANDLE_DEBUG_EVENT")) >= 1
      BY <2>1
  <2> QED BY <1>1, <2>2 DEF EventsInOrder
<1> QED BY <1>17, <1>18 DEF s2, ts2

\* recv_all finds nothing to read and calls poll_events.
LEMMA PollMid ==
    ASSUME NEW s, NEW ts, NEW tc, NEW c, Good(s, ts, tc, c), net \in {"up", "down"},
           s.pc = "recv", s.poll_debug_events
    PROVE  Mid(Entered(s, "POLL"), ts, tc, c) /\ Top(Entered(s, "POLL")).op = "POLL"
<1> DEFINE s2 == Entered(s, "POLL")
<1>1. /\ s \in Server /\ ts \in Seq(Packet) /\ tc \in Seq(Packet) /\ c \in ClientState
      /\ c.told \in Nat /\ s.got \in Nat /\ s.got <= made /\ ~s.has_pending_event
      /\ ServerInv(s, ts, c.told) /\ StackShape(s) /\ OneAtATime(s, ts) /\ MainWhenIdle(s, ts)
      /\ AnswersExpected(s, ts) /\ GoodbyeLast(s, ts) /\ ToServerOK(ts)
      /\ StackWaits(s)
    BY GoodFacts
<1>2. /\ s2 \in Server /\ s2.pc = s.pc /\ s2.has_pending_event = s.has_pending_event
      /\ s2.network_error_code = s.network_error_code
      /\ s2.in_event = s.in_event /\ s2.got = s.got
      /\ Len(s2.frames) = Len(s.frames) + 1 /\ Len(s.frames) \in Nat
      /\ s2.frames[Len(s.frames) + 1] = NewFrame("POLL", "POLL" # "POLL" /\ s.poll_debug_events)
  <2>1. "POLL" \in Requests \cup {"POLL"}
      OBVIOUS
  <2> QED BY <1>1, <2>1, EnteredFields
<1>3. Len(s.frames) = 0 /\ s.frames = << >>
  <2>1. ~(Len(s.frames) >= 1)
      BY <1>1 DEF StackShape
  <2> QED BY <1>1, <1>2, <2>1, FieldsTyped, EmptySeq
<1>4. \A i \in 1 .. Len(s.frames) : s.frames[i].wait # "none"
    BY <1>3
<1>5. /\ \A x : Performs(s2, x) = Performs(s, x) + One(x = "POLL")
      /\ \A x \in Callbacks : Waits(s2, x) = Waits(s, x)
      /\ Polls(s2) = 1 /\ Top(s2).op = "POLL"
      /\ StackShape(s2) /\ Performing(s2)
  <2>1. "POLL" \in Requests \cup {"POLL"} /\ "POLL" \in {"OTHER", "POLL"}
      OBVIOUS
  <2> QED BY <1>1, <1>3, <1>4, <2>1, StackEnters
<1>6. Polls(s) = 1
    BY <1>3 DEF Polls, One
<1>7. ~Talking(s2)
  <2>1. s2.frames[1].wait = "none"
      BY <1>2, <1>3 DEF NewFrame
  <2> QED BY <2>1 DEF Talking
<1> HIDE DEF s2
<1>8. \A x \in Requests : Pending(s2, ts, x) = Pending(s, ts, x)
  <2>1. \A x \in Requests : Performs(s2, x) = Performs(s, x)
    <3> SUFFICES ASSUME NEW x \in Requests PROVE Performs(s2, x) = Performs(s, x)
        OBVIOUS
    <3>1. Performs(s2, x) = Performs(s, x) + One(x = "POLL") /\ Performs(s, x) \in Nat
        BY <1>1, <1>5, StackCounts
    <3>2. One(x = "POLL") = 0
        BY DEF One, Requests
    <3> QED BY <3>1, <3>2
  <2> QED BY <2>1 DEF Pending
<1>9. Same(s, s2, ts, ts)
  <2>1. \A x : Count(ts, x) \in Nat
      BY <1>1, CountsNat
  <2>2. \A x : Count(ts, x) <= Count(ts, x)
      BY <2>1
  <2> QED BY <1>2, <1>5, <1>6, <1>7, <1>8, <2>2 DEF Same, Keeps
<1>10. MainWhenIdle(s2, ts)
  <2>1. ASSUME NEW m \in Main PROVE ~(Count(ts, Coded(m)) >= 1)
    <3>1. Count(ts, Coded(m)) >= 1 => Polls(s) = 0
        BY <1>1, OnlyOne
    <3> QED BY <1>6, <3>1
  <2> QED BY <2>1 DEF MainWhenIdle
<1>11. AnswersExpected(s2, ts)
  <2>1. Pending(s2, ts, "OTHER") = Pending(s, ts, "OTHER")
      BY <1>8 DEF Requests
  <2>2. /\ Waits(s2, "SET_DEBUG_NAMES") = Waits(s, "SET_DEBUG_NAMES")
        /\ Waits(s2, "HANDLE_DEBUG_EVENT") = Waits(s, "HANDLE_DEBUG_EVENT")
        /\ Waits(s2, "MSG") = Waits(s, "MSG")
      BY <1>5 DEF Callbacks
  <2> QED BY <1>1, <1>2, <2>1, <2>2 DEF AnswersExpected
<1>12. GoodbyeLast(s2, ts)
    BY <1>1, <1>8 DEF GoodbyeLast
<1>13. ServerInv(s2, ts, c.told)
    BY <1>1, <1>2, <1>5, <1>9, <1>10, <1>11, <1>12, SameServer
<1>14. ASSUME net = "up" PROVE Connected(s2, ts, tc, c)
  <2>1. Connected(s, ts, tc, c)
      BY <1>14, GoodFacts
  <2>2. \A b \in Callbacks : Waits(s2, b) + Count(ts, AnswersTo(b)) = Waits(s, b) + Count(ts, AnswersTo(b))
      BY <1>5
  <2>3. \A i \in 1 .. Len(ts) : ts[i] \notin AnswersTo("CLOSE")
      BY <2>1 DEF Connected
  <2> QED BY <1>1, <1>2, <1>9, <2>1, <2>2, <2>3, SameConnected
<1>15. ASSUME net = "down" PROVE Disconnected(s2, ts, tc, c)
    BY <1>2, <1>15, GoodFacts DEF Disconnected
<1> QED BY <1>1, <1>2, <1>5, <1>13, <1>14, <1>15 DEF Mid, Session, Linked, s2

-----------------------------------------------------------------------------
(* A nested process_request returns *)

\* The record with which the caller of a nested process_request goes on.
BackFrom(s, s2) ==
    /\ s2.pc = "recv" /\ Len(s2.frames) = Len(s.frames)
    /\ \A i \in 1 .. Len(s.frames) - 1 : s2.frames[i] = s.frames[i]
    /\ Top(s2) = [Top(s) EXCEPT !.wait = "none"]
    /\ s2.poll_debug_events = s.poll_debug_events
    /\ s2.has_pending_event = s.has_pending_event
    /\ s2.network_error_code = s.network_error_code /\ Keeps(s, s2)

\* The record after a nested process_request has returned.
LEMMA BackFields ==
    ASSUME NEW s \in Server, s.frames # << >>
    PROVE  LET s2 == Retop(At(s, "recv"), [Top(s) EXCEPT !.wait = "none"])
           IN s2 \in Server /\ BackFrom(s, s2)
<1> DEFINE r == At(s, "recv")
           f == [Top(s) EXCEPT !.wait = "none"]
<1>1. /\ r \in Server /\ r.frames = s.frames /\ r.pc = "recv"
      /\ r.poll_debug_events = s.poll_debug_events
      /\ r.has_pending_event = s.has_pending_event
      /\ r.network_error_code = s.network_error_code
      /\ r.in_event = s.in_event /\ r.got = s.got
  <2>1. "recv" \in {"recv", "null", "loop", "ended"}
      OBVIOUS
  <2> QED BY <2>1, AtFields
<1>2. f \in Frame
  <2>1. Top(s) \in Frame
      BY PoppedFields
  <2> QED BY <2>1 DEF Frame
<1>3. Len(s.frames) \in Nat
    BY PoppedFields
<1> HIDE DEF r, f
<1>4. /\ Retop(r, f) \in Server
      /\ Len(Retop(r, f).frames) = Len(r.frames)
      /\ \A i \in 1 .. Len(r.frames) :
            Retop(r, f).frames[i] = IF i = Len(r.frames) THEN f ELSE r.frames[i]
      /\ Top(Retop(r, f)) = f
      /\ Retop(r, f).pc = r.pc
      /\ Retop(r, f).poll_debug_events = r.poll_debug_events
      /\ Retop(r, f).has_pending_event = r.has_pending_event
      /\ Retop(r, f).network_error_code = r.network_error_code
      /\ Retop(r, f).in_event = r.in_event
      /\ Retop(r, f).got = r.got
    BY <1>1, <1>2, Retopped
<1>5. \A i \in 1 .. Len(s.frames) - 1 : Retop(r, f).frames[i] = s.frames[i]
    BY <1>1, <1>3, <1>4
<1>6. BackFrom(s, Retop(r, f))
    BY <1>1, <1>4, <1>5 DEF BackFrom, Keeps, f
<1> QED BY <1>4, <1>6 DEF r, f

\* What the stack is like while it waits, and once the call has returned.
LEMMA BackStack ==
    ASSUME NEW s \in Server, NEW s2 \in Server, StackShape(s), StackWaits(s), s.frames # << >>,
           s.pc \in {"recv", "null"}, BackFrom(s, s2)
    PROVE  /\ Len(s.frames) \in {1, 2} /\ Top(s).wait \in Callbacks
           /\ \A x : Performs(s2, x) = Performs(s, x)
           /\ \A x \in Callbacks : Waits(s2, x) = Waits(s, x) - One(x = Top(s).wait)
           /\ Polls(s2) = Polls(s)
           /\ Len(s.frames) = 2 => Top(s).op = "OTHER" /\ Performs(s, "OTHER") >= 1 /\ Top(s).wait = "MSG"
           /\ Len(s.frames) = 1 => \A x \in Callbacks : Waits(s, x) = One(x = Top(s).wait)
           /\ Top(s).wait = "SET_DEBUG_NAMES" => Top(s).op = "STOPPED_AT_DEBUG_EVENT"
           /\ Top(s).wait = "HANDLE_DEBUG_EVENT" => Top(s).op = "APPCALL"
           /\ StackShape(s2) /\ Performing(s2) /\ Top(s2).op = Top(s).op
           /\ Talking(s2) => Talking(s)
           /\ Top(s) = s.frames[Len(s.frames)]
<1>1. \A i \in 1 .. Len(s.frames) : s.frames[i].wait # "none"
    BY DEF StackWaits
<1>2. Top(s) \in Frame /\ Top(s) = s.frames[Len(s.frames)]
    BY PoppedFields
<1>3. Top(s2).op = Top(s).op /\ Top(s2).saved = Top(s).saved /\ Top(s2).wait = "none"
    BY <1>2 DEF BackFrom, Frame
<1>4. /\ Len(s2.frames) = Len(s.frames)
      /\ \A i \in 1 .. Len(s.frames) - 1 : s2.frames[i] = s.frames[i]
      /\ s2.poll_debug_events = s.poll_debug_events
    BY DEF BackFrom
<1>5. /\ Len(s.frames) \in {1, 2} /\ Top(s).wait \in Callbacks
      /\ \A x : Performs(s2, x) = Performs(s, x)
      /\ \A x \in Callbacks : Waits(s2, x) = Waits(s, x) - One(x = Top(s).wait)
      /\ Polls(s2) = Polls(s)
      /\ Len(s.frames) = 2 => Top(s).op = "OTHER" /\ Performs(s, "OTHER") >= 1 /\ Top(s).wait = "MSG"
      /\ Len(s.frames) = 1 => \A x \in Callbacks : Waits(s, x) = One(x = Top(s).wait)
      /\ Top(s).wait = "SET_DEBUG_NAMES" => Top(s).op = "STOPPED_AT_DEBUG_EVENT"
      /\ Top(s).wait = "HANDLE_DEBUG_EVENT" => Top(s).op = "APPCALL"
      /\ StackShape(s2) /\ Performing(s2)
    BY <1>1, <1>3, <1>4, StackReturns
<1>6. Talking(s2) => Talking(s)
  <2>1. CASE Len(s.frames) = 1
    <3>1. s2.frames[1] = Top(s2)
        BY <1>4, <2>1 DEF Top, TopOf
    <3> QED BY <1>3, <3>1 DEF Talking
  <2>2. CASE Len(s.frames) = 2
    <3>1. s2.frames[1] = s.frames[1]
        BY <1>4, <2>2
    <3> QED BY <1>4, <3>1 DEF Talking
  <2> QED BY <1>5, <2>1, <2>2
<1> QED BY <1>2, <1>3, <1>5, <1>6

\* The caller of the nested process_request is in the middle of its request again.
LEMMA ReturnMid ==
    ASSUME NEW s, NEW ts, NEW tc, NEW c, Good(s, ts, tc, c), net \in {"up", "down"},
           s.frames # << >>, s.pc \in {"recv", "null"}, NEW s2 \in Server, BackFrom(s, s2),
           NEW ts2 \in Seq(Packet), ToServerOK(ts2),
           \A x \in Requests : Count(ts2, Coded(x)) = Count(ts, Coded(x)),
           \A b \in Callbacks : Count(ts2, AnswersTo(b)) <= Count(ts, AnswersTo(b)),
           AnswersExpected(s2, ts2), GoodbyeLast(s, ts2),
           net = "up" => \A b \in Callbacks : Count(ts, AnswersTo(b))
                                = Count(ts2, AnswersTo(b)) + One(b = Top(s).wait),
           net = "up" => \A i \in 1 .. Len(ts2) : ts2[i] \notin AnswersTo("CLOSE")
    PROVE  Mid(s2, ts2, tc, c)
<1>1. /\ s \in Server /\ ts \in Seq(Packet) /\ tc \in Seq(Packet) /\ c \in ClientState
      /\ c.told \in Nat /\ s.got \in Nat /\ s.got <= made /\ ~s.has_pending_event
      /\ ServerInv(s, ts, c.told) /\ StackShape(s) /\ MainWhenIdle(s, ts)
      /\ StackWaits(s)
    BY GoodFacts
<1>2. /\ \A x : Performs(s2, x) = Performs(s, x)
      /\ \A x \in Callbacks : Waits(s2, x) = Waits(s, x) - One(x = Top(s).wait)
      /\ Polls(s2) = Polls(s)
      /\ StackShape(s2) /\ Performing(s2) /\ (Talking(s2) => Talking(s))
    BY <1>1, BackStack
<1>3. /\ s2.pc = "recv" /\ s2.has_pending_event = s.has_pending_event
      /\ s2.network_error_code = s.network_error_code /\ Keeps(s, s2)
    BY DEF BackFrom
<1>4. \A x \in Requests : Pending(s2, ts2, x) = Pending(s, ts, x) /\ Pending(s, ts2, x) = Pending(s, ts, x)
    BY <1>2 DEF Pending
<1>5. Same(s, s2, ts, ts2)
  <2>1. \A x \in Requests : Count(ts2, Coded(x)) <= Count(ts, Coded(x))
    <3>1. \A x : Count(ts, Coded(x)) \in Nat
        BY <1>1, CountsNat
    <3> QED BY <3>1
  <2> QED BY <1>2, <1>3, <1>4, <2>1 DEF Same
<1>6. MainWhenIdle(s2, ts2)
  <2>1. Main \subseteq Requests
      BY DEF Main
  <2>2. \A m \in Main : ~(Count(ts2, Coded(m)) >= 1)
      BY <1>1, <2>1 DEF MainWhenIdle
  <2> QED BY <2>2 DEF MainWhenIdle
<1>7. GoodbyeLast(s2, ts2)
    BY <1>4 DEF GoodbyeLast
<1>8. ServerInv(s2, ts2, c.told)
    BY <1>1, <1>2, <1>5, <1>6, <1>7, SameServer
<1>9. ASSUME net = "up" PROVE Connected(s2, ts2, tc, c)
  <2>1. Connected(s, ts, tc, c)
      BY <1>9, GoodFacts
  <2>2. ASSUME NEW b \in Callbacks
        PROVE  Waits(s2, b) + Count(ts, AnswersTo(b)) = Waits(s, b) + Count(ts2, AnswersTo(b))
    <3>1. /\ Waits(s2, b) = Waits(s, b) - One(b = Top(s).wait)
          /\ Count(ts, AnswersTo(b)) = Count(ts2, AnswersTo(b)) + One(b = Top(s).wait)
        BY <1>2, <1>9
    <3>2. Waits(s, b) \in Nat /\ Count(ts2, AnswersTo(b)) \in Nat /\ One(b = Top(s).wait) \in Nat
        BY <1>1, StackCounts, CountsNat DEF One
    <3> QED BY <3>1, <3>2
  <2> QED BY <1>1, <1>3, <1>5, <1>9, <2>1, <2>2, SameConnected
<1>10. ASSUME net = "down" PROVE Disconnected(s2, ts2, tc, c)
    BY <1>3, <1>10, GoodFacts DEF Disconnected
<1>11. s2.got <= made
    BY <1>1, <1>3 DEF Keeps
<1> QED BY <1>1, <1>2, <1>3, <1>8, <1>9, <1>10, <1>11 DEF Mid, Session, Linked

\* An answer that arrives while a call waits is the answer to that call; or it is the
\* client's goodbye, which poll_events takes for the answer to its message.
LEMMA AnswerMatches ==
    ASSUME NEW s, NEW ts, NEW tc, NEW c, Good(s, ts, tc, c), s.pc = "recv", ts # << >>,
           Head(ts).code = "OK", s.frames # << >>
    PROVE  \/ Head(ts).re = Top(s).wait /\ Top(s).wait \in Callbacks
           \/ /\ Head(ts).re = "CLOSE" /\ Top(s).op = "POLL" /\ Tail(ts) = << >>
              /\ net # "up"
<1>1. /\ s \in Server /\ ts \in Seq(Packet)
      /\ StackShape(s) /\ AnswersExpected(s, ts) /\ GoodbyeLast(s, ts) /\ ToServerOK(ts)
      /\ StackWaits(s)
    BY GoodFacts
<1>2. /\ Tail(ts) \in Seq(Packet) /\ Head(ts) \in Packet /\ Head(ts) = ts[1]
      /\ Len(ts) \in Nat \ {0} /\ Len(Tail(ts)) = Len(ts) - 1
    BY <1>1, TailFacts
<1>3. Head(ts).re \in Callbacks \cup {"CLOSE"}
  <2>1. 1 \in 1 .. Len(ts)
      BY <1>2
  <2> QED BY <1>1, <1>2, <2>1 DEF ToServerOK, Requests
<1>4. ~s.network_error_code
    BY <1>1, FieldsTyped DEF StackWaits
<1>5. PICK s2 \in Server : BackFrom(s, s2)
    BY <1>1, BackFields
<1>6. /\ Len(s.frames) \in {1, 2} /\ Top(s).wait \in Callbacks
      /\ Len(s.frames) = 2 => Top(s).op = "OTHER" /\ Performs(s, "OTHER") >= 1 /\ Top(s).wait = "MSG"
      /\ Len(s.frames) = 1 => \A x \in Callbacks : Waits(s, x) = One(x = Top(s).wait)
      /\ Top(s) = s.frames[Len(s.frames)]
    BY <1>1, <1>5, BackStack
<1>7. CASE Head(ts).re \in Callbacks
  <2> DEFINE b == Head(ts).re
  <2>1. Count(ts, AnswersTo(b)) >= 1
    <3>1. Head(ts) \in AnswersTo(b)
        BY <1>2 DEF AnswersTo
    <3>2. Count(ts, AnswersTo(b)) = Count(Tail(ts), AnswersTo(b)) + One(Head(ts) \in AnswersTo(b))
        BY <1>1, CountTail
    <3>3. Count(Tail(ts), AnswersTo(b)) \in Nat
        BY <1>2, CountsNat
    <3> QED BY <3>1, <3>2, <3>3 DEF One
  <2>2. Count(ts, AnswersTo(b)) \in Nat /\ Waits(s, b) \in Nat
      BY <1>1, CountsNat, StackCounts
  <2>3. Waits(s, b) >= 1
      BY <1>1, <1>4, <1>7, <2>1, <2>2 DEF AnswersExpected, Callbacks
  <2>4. CASE Len(s.frames) = 1
      BY <1>6, <1>7, <2>3, <2>4 DEF One
  <2>5. CASE Len(s.frames) = 2
    <3>1. Pending(s, ts, "OTHER") >= 1
      <4>1. Count(ts, Coded("OTHER")) \in Nat /\ Performs(s, "OTHER") \in Nat
          BY <1>1, CountsNat, StackCounts
      <4> QED BY <1>6, <2>5, <4>1 DEF Pending
    <3>2. Count(ts, AnswersTo("SET_DEBUG_NAMES")) + Count(ts, AnswersTo("HANDLE_DEBUG_EVENT")) >= 1 =>
             Pending(s, ts, "OTHER") = 0
        BY <1>1 DEF AnswersExpected
    <3>3. /\ Count(ts, AnswersTo("SET_DEBUG_NAMES")) \in Nat
          /\ Count(ts, AnswersTo("HANDLE_DEBUG_EVENT")) \in Nat
        BY <1>1, CountsNat
    <3>4. b \notin {"SET_DEBUG_NAMES", "HANDLE_DEBUG_EVENT"}
        BY <2>1, <3>1, <3>2, <3>3
    <3>5. b = "MSG"
        BY <1>7, <3>4 DEF Callbacks
    <3> QED BY <1>6, <2>5, <3>5
  <2> QED BY <1>6, <2>4, <2>5
<1>8. CASE Head(ts).re = "CLOSE"
  <2>1. 1 \in 1 .. Len(ts) /\ ts[1] \in AnswersTo("CLOSE")
      BY <1>2, <1>8 DEF AnswersTo
  <2>2. Len(ts) = 1 /\ \A r \in Requests : Pending(s, ts, r) = 0
      BY <1>1, <2>1 DEF GoodbyeLast
  <2>3. Tail(ts) = << >>
    <3>1. Len(Tail(ts)) = 0
        BY <1>2, <2>2
    <3> QED BY <1>2, <3>1, EmptySeq
  <2>4. net # "up"
      BY <2>1, GoodFacts DEF Connected
  <2>5. \A r \in Requests : Performs(s, r) = 0
    <3> SUFFICES ASSUME NEW r \in Requests PROVE Performs(s, r) = 0
        OBVIOUS
    <3>1. Count(ts, Coded(r)) + Performs(s, r) = 0
        BY <2>2 DEF Pending
    <3>2. Count(ts, Coded(r)) \in Nat /\ Performs(s, r) \in Nat
        BY <1>1, CountsNat, StackCounts
    <3> QED BY <3>1, <3>2
  <2>6. Top(s).op \notin Requests
    <3>1. Performs(s, Top(s).op) >= 1
      <4>1. Len(s.frames) = 1 => Performs(s, Top(s).op) >= 1
          BY <1>6 DEF Performs, One
      <4>2. Len(s.frames) = 2 => Performs(s, Top(s).op) >= 1
          BY <1>6
      <4> QED BY <1>6, <4>1, <4>2
    <3> QED BY <2>5, <3>1
  <2>7. Top(s).op = "POLL"
      BY <1>1, <2>6, PoppedFields, FrameTyped
  <2> QED BY <1>8, <2>3, <2>4, <2>7
<1> QED BY <1>3, <1>7, <1>8

\* The answer has been taken from the stream.
LEMMA AnsweredMid ==
    ASSUME NEW s, NEW ts, NEW tc, NEW c, Good(s, ts, tc, c), net \in {"up", "down"},
           s.pc = "recv", ts # << >>, Head(ts).code = "OK", s.frames # << >>,
           NEW s2 \in Server, BackFrom(s, s2)
    PROVE  Mid(s2, Tail(ts), tc, c)
<1> DEFINE ts2 == Tail(ts)
           b == Head(ts).re
<1>1. /\ s \in Server /\ ts \in Seq(Packet) /\ tc \in Seq(Packet) /\ c \in ClientState
      /\ StackShape(s) /\ AnswersExpected(s, ts) /\ GoodbyeLast(s, ts) /\ ToServerOK(ts)
      /\ StackWaits(s)
    BY GoodFacts
<1>2. /\ ts2 \in Seq(Packet) /\ Head(ts) \in Packet
      /\ Len(ts) \in Nat \ {0} /\ Len(ts2) = Len(ts) - 1
      /\ \A i \in 1 .. Len(ts2) : ts2[i] = ts[i + 1] /\ i + 1 \in 1 .. Len(ts)
      /\ \A S : Count(ts, S) = Count(ts2, S) + One(Head(ts) \in S)
      /\ ToServerOK(ts2)
    BY <1>1, TailFacts
<1>3. \/ b = Top(s).wait /\ Top(s).wait \in Callbacks
      \/ b = "CLOSE" /\ ts2 = << >> /\ net # "up"
    BY AnswerMatches
<1> HIDE DEF ts2
<1>4. /\ \A x \in Requests : Count(ts2, Coded(x)) = Count(ts, Coded(x))
      /\ \A x : Count(ts, AnswersTo(x)) = Count(ts2, AnswersTo(x)) + One(b = x)
      /\ \A S : Count(ts2, S) \in Nat /\ Count(ts, S) \in Nat
  <2>1. \A S : Count(ts2, S) \in Nat /\ Count(ts, S) \in Nat
      BY <1>1, <1>2, CountsNat
  <2>2. /\ \A x : Head(ts) \in AnswersTo(x) <=> b = x
        /\ \A x : Head(ts) \in Coded(x) <=> x = "OK"
      BY <1>2, AnswerClass
  <2>3. \A x \in Requests : One(Head(ts) \in Coded(x)) = 0
      BY <2>2 DEF One, Requests
  <2>4. \A x : One(Head(ts) \in AnswersTo(x)) = One(b = x)
      BY <2>2 DEF One
  <2> QED BY <1>2, <2>1, <2>3, <2>4
<1> HIDE DEF b
<1>5. \A x \in Callbacks : Count(ts2, AnswersTo(x)) <= Count(ts, AnswersTo(x))
    BY <1>4 DEF One
<1>6. /\ \A x : Performs(s2, x) = Performs(s, x)
      /\ \A x \in Callbacks : Waits(s2, x) = Waits(s, x) - One(x = Top(s).wait)
    BY <1>1, BackStack
<1>7. Pending(s2, ts2, "OTHER") = Pending(s, ts, "OTHER")
    BY <1>4, <1>6 DEF Pending, Requests
<1>8. AnswersExpected(s2, ts2)
  <2>1. /\ s2.network_error_code = s.network_error_code
        /\ \A x \in Callbacks : Waits(s, x) \in Nat /\ Waits(s2, x) \in Nat
      BY <1>1, StackCounts DEF BackFrom
  <2>2. CASE b = Top(s).wait
    <3>1. \A x \in Callbacks : One(b = x) = One(x = Top(s).wait)
        BY <2>2 DEF One
    <3>2. ASSUME NEW x \in Callbacks
          PROVE  Count(ts, AnswersTo(x)) <= Waits(s, x) => Count(ts2, AnswersTo(x)) <= Waits(s2, x)
      <4>1. /\ Count(ts, AnswersTo(x)) = Count(ts2, AnswersTo(x)) + One(b = x)
            /\ Waits(s2, x) = Waits(s, x) - One(b = x)
            /\ Count(ts2, AnswersTo(x)) \in Nat /\ Waits(s, x) \in Nat /\ One(b = x) \in {0, 1}
          BY <1>4, <1>6, <2>1, <3>1 DEF One
      <4> QED BY <4>1
    <3>3. \A x \in Callbacks : Count(ts, AnswersTo(x)) <= Waits(s, x) => Count(ts2, AnswersTo(x)) <= Waits(s2, x)
        BY <3>2
    <3>4. /\ Count(ts, AnswersTo("SET_DEBUG_NAMES")) <= Waits(s, "SET_DEBUG_NAMES")
          /\ Count(ts, AnswersTo("HANDLE_DEBUG_EVENT")) <= Waits(s, "HANDLE_DEBUG_EVENT")
          /\ ~s.network_error_code => Count(ts, AnswersTo("MSG")) <= Waits(s, "MSG")
          /\ Count(ts, AnswersTo("SET_DEBUG_NAMES")) + Count(ts, AnswersTo("HANDLE_DEBUG_EVENT")) >= 1 =>
                ~s.network_error_code /\ Pending(s, ts, "OTHER") = 0
        BY <1>1 DEF AnswersExpected
    <3>5. Count(ts2, AnswersTo("SET_DEBUG_NAMES")) + Count(ts2, AnswersTo("HANDLE_DEBUG_EVENT")) >= 1 =>
          Count(ts, AnswersTo("SET_DEBUG_NAMES")) + Count(ts, AnswersTo("HANDLE_DEBUG_EVENT")) >= 1
        BY <1>4 DEF One
    <3>6. /\ "SET_DEBUG_NAMES" \in Callbacks /\ "HANDLE_DEBUG_EVENT" \in Callbacks /\ "MSG" \in Callbacks
        BY DEF Callbacks
    <3> QED BY <1>7, <2>1, <3>3, <3>4, <3>5, <3>6 DEF AnswersExpected
  <2>3. CASE ts2 = << >>
    <3>1. \A x : Count(ts2, AnswersTo(x)) = 0
        BY <2>3, CountEmpty
    <3>2. /\ "SET_DEBUG_NAMES" \in Callbacks /\ "HANDLE_DEBUG_EVENT" \in Callbacks /\ "MSG" \in Callbacks
        BY DEF Callbacks
    <3> QED BY <2>1, <3>1, <3>2 DEF AnswersExpected
  <2> QED BY <1>3, <2>2, <2>3
<1>9. GoodbyeLast(s, ts2)
  <2> SUFFICES ASSUME NEW i \in 1 .. Len(ts2), ts2[i] \in AnswersTo("CLOSE")
               PROVE  i = Len(ts2) /\ \A r \in Requests : Pending(s, ts2, r) = 0
      BY DEF GoodbyeLast
  <2>1. i + 1 = Len(ts) /\ \A r \in Requests : Pending(s, ts, r) = 0
      BY <1>1, <1>2 DEF GoodbyeLast
  <2> QED BY <1>2, <1>4, <2>1 DEF Pending
<1>10. ASSUME net = "up", NEW x \in Callbacks
       PROVE  Count(ts, AnswersTo(x)) = Count(ts2, AnswersTo(x)) + One(x = Top(s).wait)
  <2>1. b = Top(s).wait
      BY <1>3, <1>10
  <2>2. One(b = x) = One(x = Top(s).wait)
      BY <2>1 DEF One
  <2> QED BY <1>4, <2>2
<1>11. ASSUME net = "up", NEW i \in 1 .. Len(ts2) PROVE ts2[i] \notin AnswersTo("CLOSE")
  <2>1. \A j \in 1 .. Len(ts) : ts[j] \notin AnswersTo("CLOSE")
      BY <1>11, GoodFacts DEF Connected
  <2> QED BY <1>2, <2>1
<1>12. Mid(s2, ts2, tc, c)
    BY <1>2, <1>4, <1>5, <1>8, <1>9, <1>10, <1>11, ReturnMid
<1> QED BY <1>12 DEF ts2

\* The connection is lost: the innermost process_request has returned NULL.
LEMMA UnwoundMid ==
    ASSUME NEW s, NEW ts, NEW tc, NEW c, Good(s, ts, tc, c), net \in {"up", "down"},
           s.pc = "null", s.frames # << >>, NEW s2 \in Server, BackFrom(s, s2)
    PROVE  Mid(s2, ts, tc, c)
<1>1. /\ s \in Server /\ ts \in Seq(Packet) /\ tc \in Seq(Packet) /\ c \in ClientState
      /\ StackShape(s) /\ AnswersExpected(s, ts) /\ GoodbyeLast(s, ts) /\ ToServerOK(ts)
      /\ StackWaits(s)
    BY GoodFacts
<1>2. net = "down" /\ (s.network_error_code \/ ts = << >>)
  <2>1. net # "up"
      BY GoodFacts DEF Connected
  <2> QED BY <2>1, GoodFacts DEF Disconnected
<1>3. /\ \A x : Performs(s2, x) = Performs(s, x)
      /\ \A x \in Callbacks : Waits(s2, x) \in Nat
      /\ s2.network_error_code = s.network_error_code
    BY <1>1, BackStack, StackCounts, SMTT(20) DEF BackFrom
<1>4. /\ "SET_DEBUG_NAMES" \in Callbacks /\ "HANDLE_DEBUG_EVENT" \in Callbacks /\ "MSG" \in Callbacks
    BY DEF Callbacks
<1>5. \A S : Count(ts, S) \in Nat
    BY <1>1, CountsNat
<1>6. Count(ts, AnswersTo("SET_DEBUG_NAMES")) = 0 /\ Count(ts, AnswersTo("HANDLE_DEBUG_EVENT")) = 0
  <2>1. CASE s.network_error_code
    <3>1. ~(Count(ts, AnswersTo("SET_DEBUG_NAMES")) + Count(ts, AnswersTo("HANDLE_DEBUG_EVENT")) >= 1)
        BY <1>1, <2>1 DEF AnswersExpected
    <3> QED BY <1>5, <3>1
  <2>2. CASE ts = << >>
      BY <2>2, CountEmpty
  <2> QED BY <1>2, <2>1, <2>2
<1>7. ~s2.network_error_code => Count(ts, AnswersTo("MSG")) = 0
    BY <1>2, <1>3, CountEmpty
<1>8. AnswersExpected(s2, ts)
    BY <1>3, <1>4, <1>6, <1>7 DEF AnswersExpected
<1>9. \A b \in Callbacks : Count(ts, AnswersTo(b)) <= Count(ts, AnswersTo(b))
    BY <1>5
<1> QED BY <1>1, <1>2, <1>8, <1>9, ReturnMid

\* The caller of the nested process_request goes on.
LEMMA ReturnedGood ==
    ASSUME NEW s, NEW ts0, NEW ts, NEW tc, NEW c, Good(s, ts0, tc, c), net \in {"up", "down"},
           made \in Nat, Shaped(s), s.frames # << >>, s.pc \in {"recv", "null"},
           NEW r, Top(r) = Top(s), NEW good \in BOOLEAN, NEW s2 \in Server,
           s2 = Retop(r, [Top(r) EXCEPT !.wait = "none"]), BackFrom(s, s2), Mid(s2, ts, tc, c),
           good /\ Top(s).wait = "HANDLE_DEBUG_EVENT" => c.told = s.got
    PROVE  GoodOutcomes(Returned(r, good), ts, tc, c)
<1>1. /\ s \in Server /\ StackShape(s) /\ StackWaits(s) /\ EventsInOrder(s, ts0, c.told)
    BY GoodFacts
<1>2. /\ Len(s.frames) \in {1, 2} /\ Top(s).wait \in Callbacks
      /\ Len(s.frames) = 2 => Top(s).op = "OTHER"
      /\ Top(s).wait = "SET_DEBUG_NAMES" => Top(s).op = "STOPPED_AT_DEBUG_EVENT"
      /\ Top(s).wait = "HANDLE_DEBUG_EVENT" => Top(s).op = "APPCALL"
      /\ Top(s2).op = Top(s).op /\ Top(s) = s.frames[Len(s.frames)]
    BY <1>1, BackStack
<1>3. s2.got = s.got
    BY DEF BackFrom, Keeps
<1>4. Returned(r, good) =
         IF Top(s).wait = "MSG" THEN Body(s2)
         ELSE IF Top(s).wait = "SET_DEBUG_NAMES" THEN SendNames(s2, IF good THEN Top(s).left - 1 ELSE 0)
         ELSE AppcallAnswered(s2, good)
    BY DEF Returned
<1>5. CASE Top(s).wait = "MSG"
  <2>1. Top(s2).op = "APPCALL" => c.told = s2.got
    <3> SUFFICES ASSUME Top(s).op = "APPCALL" PROVE c.told = s.got
        BY <1>2, <1>3
    <3>1. Len(s.frames) = 1 /\ s.frames[1] = Top(s)
        BY <1>2
    <3>2. Talking(s)
        BY <1>5, <3>1 DEF Talking
    <3> QED BY <1>1, <3>2 DEF EventsInOrder
  <2>2. GoodOutcomes(Body(s2), ts, tc, c)
      BY <2>1, BodyGood
  <2> QED BY <1>4, <1>5, <2>2
<1>6. CASE Top(s).wait = "SET_DEBUG_NAMES"
  <2> DEFINE left == IF good THEN Top(s).left - 1 ELSE 0
  <2>1. left \in 0 .. MaxNames
    <3>1. Len(s.frames) \in 1 .. Len(s.frames)
        BY <1>2
    <3>2. FrameOK(Top(s))
        BY <1>2, <3>1 DEF Shaped
    <3>3. Top(s).left \in 0 .. MaxNames /\ Top(s).left # 0
        BY <1>6, <3>2, FrameTyped DEF FrameOK
    <3> QED BY <3>3, BoundsAssumption
  <2> HIDE DEF left
  <2>2. GoodOutcomes(SendNames(s2, left), ts, tc, c)
      BY <1>2, <1>6, <2>1, NamesGood
  <2> QED BY <1>4, <1>6, <2>2 DEF left
<1>7. CASE Top(s).wait = "HANDLE_DEBUG_EVENT"
  <2>1. GoodOutcomes(AppcallAnswered(s2, good), ts, tc, c)
      BY <1>2, <1>3, <1>7, AppcallAnsweredGood
  <2> QED BY <1>4, <1>7, <2>1
<1> QED BY <1>2, <1>5, <1>6, <1>7 DEF Callbacks

\* A packet RPC_OK ends the innermost process_request.
LEMMA AnsweredGood ==
    ASSUME NEW s, NEW ts, NEW tc, NEW c, Good(s, ts, tc, c), net \in {"up", "down"},
           made \in Nat, Shaped(s), s.pc = "recv", ts # << >>, Head(ts).code = "OK",
           s.frames # << >>
    PROVE  GoodOutcomes(Returned(s, Head(ts).good), Tail(ts), tc, c)
<1> DEFINE s2 == Retop(At(s, "recv"), [Top(s) EXCEPT !.wait = "none"])
           g == Head(ts).good
<1>1. /\ s \in Server /\ ts \in Seq(Packet) /\ c.told \in Nat /\ s.got \in Nat
      /\ EventsInOrder(s, ts, c.told)
    BY GoodFacts
<1>2. s2 \in Server /\ BackFrom(s, s2)
    BY <1>1, BackFields
<1>3. At(s, "recv") = s
    BY <1>1 DEF At, Server
<1>4. s2 = Retop(s, [Top(s) EXCEPT !.wait = "none"])
    BY <1>3
<1> HIDE DEF s2
<1>5. Mid(s2, Tail(ts), tc, c)
    BY <1>2, AnsweredMid
<1>6. Top(s).wait = "HANDLE_DEBUG_EVENT" => c.told = s.got
  <2> SUFFICES ASSUME Top(s).wait = "HANDLE_DEBUG_EVENT" PROVE c.told = s.got
      OBVIOUS
  <2>1. CASE Head(ts).re = "HANDLE_DEBUG_EVENT"
    <3>1. Head(ts) \in AnswersTo("HANDLE_DEBUG_EVENT") /\ Tail(ts) \in Seq(Packet)
        BY <1>1, <2>1, TailFacts DEF AnswersTo
    <3>2. Count(ts, AnswersTo("HANDLE_DEBUG_EVENT")) =
          Count(Tail(ts), AnswersTo("HANDLE_DEBUG_EVENT")) + One(Head(ts) \in AnswersTo("HANDLE_DEBUG_EVENT"))
        BY <1>1, CountTail
    <3>3. /\ Count(Tail(ts), AnswersTo("HANDLE_DEBUG_EVENT")) \in Nat
          /\ Count(ts, Coded("APPCALL")) \in Nat /\ Pending(s, ts, "CONTINUE_AFTER_EVENT") \in Nat
        BY <1>1, <3>1, CountsNat, PendingNat
    <3>4. Pending(s, ts, "CONTINUE_AFTER_EVENT") + Count(ts, Coded("APPCALL")) +
          Count(ts, AnswersTo("HANDLE_DEBUG_EVENT")) >= 1
        BY <3>1, <3>2, <3>3 DEF One
    <3> QED BY <1>1, <3>4 DEF EventsInOrder
  <2>2. CASE Top(s).op = "POLL"
    <3>1. Top(s).wait = "HANDLE_DEBUG_EVENT" => Top(s).op = "APPCALL"
        BY <1>1, <1>2, GoodFacts, BackStack
    <3> QED BY <2>2, <3>1
  <2> QED BY <2>1, <2>2, AnswerMatches
<1>7. g \in BOOLEAN
    BY <1>1, HeadTyped
<1> HIDE DEF g
<1>8. GoodOutcomes(Returned(s, g), Tail(ts), tc, c)
    BY <1>2, <1>4, <1>5, <1>6, <1>7, ReturnedGood
<1> QED BY <1>8 DEF g

\* process_request has returned NULL to the code that called the client back.
LEMMA UnwoundGood ==
    ASSUME NEW s, NEW ts, NEW tc, NEW c, Good(s, ts, tc, c), net \in {"up", "down"},
           made \in Nat, Shaped(s), s.pc = "null", s.frames # << >>
    PROVE  GoodOutcomes(Returned(At(s, "recv"), FALSE), ts, tc, c)
<1> DEFINE r == At(s, "recv")
           s2 == Retop(r, [Top(s) EXCEPT !.wait = "none"])
<1>1. s \in Server
    BY GoodFacts
<1>2. s2 \in Server /\ BackFrom(s, s2)
    BY <1>1, BackFields
<1>3. Top(r) = Top(s)
    BY <1>1, AtFields DEF Top
<1>4. s2 = Retop(r, [Top(r) EXCEPT !.wait = "none"])
    BY <1>3
<1> HIDE DEF s2, r
<1>5. Mid(s2, ts, tc, c)
    BY <1>2, UnwoundMid
<1>6. GoodOutcomes(Returned(r, FALSE), ts, tc, c)
    BY <1>2, <1>3, <1>4, <1>5, ReturnedGood
<1> QED BY <1>6 DEF r

-----------------------------------------------------------------------------
(* The end of a session *)

\* The invariant after a step: its parts that look at net and made, spelled out.
LEMMA GoodPrimed ==
    ASSUME NEW s, NEW ts, NEW tc, NEW c, Good(s, ts, tc, c), made \in Nat, net' = net,
           made' \in Nat, made' >= made, s = srv', ts = toServer', tc = toClient', c = cl'
    PROVE  Good(srv, toServer, toClient, cl)'
<1>1. /\ s \in Server /\ ts \in Seq(Packet) /\ tc \in Seq(Packet) /\ c \in ClientState
      /\ ~s.has_pending_event /\ s.got <= made
      /\ ServerInv(s, ts, c.told)
      /\ net = "up" => Connected(s, ts, tc, c)
      /\ net = "down" => Disconnected(s, ts, tc, c)
      /\ StackWaits(s)
      /\ s.pc = "loop" => c.told = s.got
    BY DEF Good, Session, Linked
<1>2. s.got <= made'
    BY <1>1, FieldsTyped
<1> QED BY <1>1, <1>2 DEF Good, Session, Linked

\* A step of the server has one of the outcomes.
LEMMA TakesGood ==
    ASSUME NEW O, Takes(O), GoodOutcomes(O, toServer', toClient, cl), cl' = cl, net' = net,
           made \in Nat, made' \in Nat, made' >= made
    PROVE  Good(srv, toServer, toClient, cl)'
<1>1. PICK o \in O : srv' = o.srv /\ toClient' = toClient \o o.out
    BY DEF Takes
<1>2. Good(o.srv, toServer', toClient \o o.out, cl)
    BY <1>1 DEF GoodOutcomes
<1> QED BY <1>1, <1>2, GoodPrimed

\* A step that only drops a packet, or moves the program counter.
LEMMA SkipGood ==
    ASSUME NEW s, NEW ts, NEW tc, NEW c, Good(s, ts, tc, c), net \in {"up", "down"},
           NEW s2 \in Server, Like(s, s2), NEW ts2 \in Seq(Packet), ToServerOK(ts2),
           GoodbyeLast(s, ts2),
           \A x \in Requests : Count(ts2, Coded(x)) = Count(ts, Coded(x)),
           \A b \in Callbacks : Count(ts2, AnswersTo(b)) <= Count(ts, AnswersTo(b)),
           AnswersExpected(s2, ts2), StackWaits(s2), s2.pc # "loop",
           net = "up" => /\ s2.pc = "recv" /\ s2.network_error_code = s.network_error_code
                         /\ \A b \in Callbacks : Count(ts2, AnswersTo(b)) = Count(ts, AnswersTo(b))
                         /\ \A i \in 1 .. Len(ts2) : ts2[i] \notin AnswersTo("CLOSE"),
           net = "down" /\ s2.pc = "null" => s2.network_error_code \/ ts2 = << >>
    PROVE  Good(s2, ts2, tc, c)
<1>1. /\ s \in Server /\ ts \in Seq(Packet) /\ tc \in Seq(Packet) /\ c \in ClientState
      /\ c.told \in Nat /\ s.got \in Nat /\ s.got <= made /\ ~s.has_pending_event
      /\ ServerInv(s, ts, c.told) /\ StackShape(s) /\ MainWhenIdle(s, ts)
    BY GoodFacts
<1>2. /\ \A x : Performs(s2, x) = Performs(s, x) /\ Waits(s2, x) = Waits(s, x)
      /\ Polls(s2) = Polls(s) /\ (Talking(s2) <=> Talking(s)) /\ StackShape(s2)
    BY <1>1, LikeCounts
<1>3. \A x \in Requests : Pending(s2, ts2, x) = Pending(s, ts, x) /\ Pending(s2, ts2, x) = Pending(s, ts2, x)
    BY <1>2 DEF Pending
<1>4. /\ s2.frames = s.frames /\ s2.in_event = s.in_event /\ s2.got = s.got
      /\ s2.has_pending_event = s.has_pending_event
    BY DEF Like
<1>5. Same(s, s2, ts, ts2)
  <2>1. \A x \in Requests : Count(ts2, Coded(x)) <= Count(ts, Coded(x))
    <3>1. \A x : Count(ts, Coded(x)) \in Nat
        BY <1>1, CountsNat
    <3> QED BY <3>1
  <2> QED BY <1>2, <1>3, <1>4, <2>1 DEF Same, Keeps
<1>6. MainWhenIdle(s2, ts2)
  <2>1. Main \subseteq Requests /\ "OTHER" \in Requests
      BY DEF Main, Requests
  <2> QED BY <1>1, <1>4, <2>1 DEF MainWhenIdle
<1>7. GoodbyeLast(s2, ts2)
    BY <1>3 DEF GoodbyeLast
<1>8. ServerInv(s2, ts2, c.told)
    BY <1>1, <1>2, <1>5, <1>6, <1>7, SameServer
<1>9. ASSUME net = "up" PROVE Connected(s2, ts2, tc, c)
  <2>1. Connected(s, ts, tc, c)
      BY <1>9, GoodFacts
  <2>2. \A b \in Callbacks : Waits(s2, b) + Count(ts, AnswersTo(b)) = Waits(s, b) + Count(ts2, AnswersTo(b))
      BY <1>2, <1>9
  <2> QED BY <1>1, <1>5, <1>9, <2>1, <2>2, SameConnected
<1>10. ASSUME net = "down" PROVE Disconnected(s2, ts2, tc, c)
    BY <1>10, GoodFacts DEF Disconnected
<1> QED BY <1>1, <1>4, <1>8, <1>9, <1>10 DEF Good, Session, Linked

\* An acknowledgement, or an answer that nobody waits for, is read.
LEMMA DroppedGood ==
    ASSUME NEW s, NEW ts, NEW tc, NEW c, Good(s, ts, tc, c), net \in {"up", "down"},
           ts # << >>, Head(ts).code \in {"OK", "EVOK"},
           NEW s2 \in Server, Like(s, s2), s2.network_error_code = s.network_error_code,
           StackWaits(s2), s2.pc # "loop",
           net = "up" => s2.pc = "recv" /\ Head(ts).code = "EVOK",
           s2.pc = "null" => s2.network_error_code
    PROVE  Good(s2, Tail(ts), tc, c)
<1> DEFINE ts2 == Tail(ts)
<1>1. /\ s \in Server /\ ts \in Seq(Packet) /\ tc \in Seq(Packet) /\ c \in ClientState
      /\ StackShape(s) /\ AnswersExpected(s, ts) /\ GoodbyeLast(s, ts) /\ ToServerOK(ts)
    BY GoodFacts
<1>2. /\ ts2 \in Seq(Packet) /\ Head(ts) \in Packet
      /\ Len(ts) \in Nat \ {0} /\ Len(ts2) = Len(ts) - 1
      /\ \A i \in 1 .. Len(ts2) : ts2[i] = ts[i + 1] /\ i + 1 \in 1 .. Len(ts)
      /\ \A S : Count(ts, S) = Count(ts2, S) + One(Head(ts) \in S)
      /\ ToServerOK(ts2)
    BY <1>1, TailFacts
<1> HIDE DEF ts2
<1>3. \A S : Count(ts2, S) \in Nat /\ Count(ts, S) \in Nat
    BY <1>1, <1>2, CountsNat
<1>4. \A x \in Requests : Count(ts2, Coded(x)) = Count(ts, Coded(x))
  <2>1. \A x \in Requests : Head(ts) \notin Coded(x)
      BY DEF Coded, Requests
  <2>2. \A x \in Requests : One(Head(ts) \in Coded(x)) = 0
      BY <2>1 DEF One
  <2> QED BY <1>2, <1>3, <2>2
<1>5. \A x : Count(ts2, AnswersTo(x)) <= Count(ts, AnswersTo(x))
    BY <1>2, <1>3 DEF One
<1>6. Head(ts).code = "EVOK" => \A x : Count(ts2, AnswersTo(x)) = Count(ts, AnswersTo(x))
  <2> SUFFICES ASSUME Head(ts).code = "EVOK" PROVE \A x : Count(ts2, AnswersTo(x)) = Count(ts, AnswersTo(x))
      OBVIOUS
  <2>1. \A x : One(Head(ts) \in AnswersTo(x)) = 0
      BY DEF One, AnswersTo
  <2> QED BY <1>2, <1>3, <2>1
<1>7. \A x : Performs(s2, x) = Performs(s, x) /\ Waits(s2, x) = Waits(s, x)
    BY LikeCounts
<1>8. Pending(s2, ts2, "OTHER") = Pending(s, ts, "OTHER")
    BY <1>4, <1>7 DEF Pending, Requests
<1>9. AnswersExpected(s2, ts2)
  <2>1. \A x : Waits(s, x) \in Nat
      BY <1>1, StackCounts
  <2>2. \A x : Count(ts, AnswersTo(x)) <= Waits(s, x) => Count(ts2, AnswersTo(x)) <= Waits(s2, x)
    <3> SUFFICES ASSUME NEW x, Count(ts, AnswersTo(x)) <= Waits(s, x)
                 PROVE  Count(ts2, AnswersTo(x)) <= Waits(s, x)
        BY <1>7
    <3>1. /\ Count(ts2, AnswersTo(x)) <= Count(ts, AnswersTo(x)) /\ Waits(s, x) \in Nat
          /\ Count(ts2, AnswersTo(x)) \in Nat /\ Count(ts, AnswersTo(x)) \in Nat
        BY <1>3, <1>5, <2>1
    <3> QED BY <3>1
  <2>3. /\ Count(ts, AnswersTo("SET_DEBUG_NAMES")) <= Waits(s, "SET_DEBUG_NAMES")
        /\ Count(ts, AnswersTo("HANDLE_DEBUG_EVENT")) <= Waits(s, "HANDLE_DEBUG_EVENT")
        /\ ~s.network_error_code => Count(ts, AnswersTo("MSG")) <= Waits(s, "MSG")
        /\ Count(ts, AnswersTo("SET_DEBUG_NAMES")) + Count(ts, AnswersTo("HANDLE_DEBUG_EVENT")) >= 1 =>
              ~s.network_error_code /\ Pending(s, ts, "OTHER") = 0
      BY <1>1 DEF AnswersExpected
  <2>4. Count(ts2, AnswersTo("SET_DEBUG_NAMES")) + Count(ts2, AnswersTo("HANDLE_DEBUG_EVENT")) >= 1 =>
        Count(ts, AnswersTo("SET_DEBUG_NAMES")) + Count(ts, AnswersTo("HANDLE_DEBUG_EVENT")) >= 1
    <3>1. \A x : /\ Count(ts2, AnswersTo(x)) <= Count(ts, AnswersTo(x))
                 /\ Count(ts2, AnswersTo(x)) \in Nat /\ Count(ts, AnswersTo(x)) \in Nat
        BY <1>3, <1>5
    <3> QED BY <3>1
  <2> QED BY <1>8, <2>2, <2>3, <2>4 DEF AnswersExpected
<1>10. GoodbyeLast(s, ts2)
  <2> SUFFICES ASSUME NEW i \in 1 .. Len(ts2), ts2[i] \in AnswersTo("CLOSE")
               PROVE  i = Len(ts2) /\ \A r \in Requests : Pending(s, ts2, r) = 0
      BY DEF GoodbyeLast
  <2>1. i + 1 = Len(ts) /\ \A r \in Requests : Pending(s, ts, r) = 0
      BY <1>1, <1>2 DEF GoodbyeLast
  <2> QED BY <1>2, <1>4, <2>1 DEF Pending
<1>11. ASSUME net = "up", NEW i \in 1 .. Len(ts2) PROVE ts2[i] \notin AnswersTo("CLOSE")
  <2>1. \A j \in 1 .. Len(ts) : ts[j] \notin AnswersTo("CLOSE")
      BY <1>11, GoodFacts DEF Connected
  <2> QED BY <1>2, <2>1
<1>12. Good(s2, ts2, tc, c)
    BY <1>2, <1>4, <1>5, <1>6, <1>9, <1>10, <1>11, SkipGood
<1> QED BY <1>12 DEF ts2

\* An acknowledgement is read.
LEMMA EvokGood ==
    ASSUME NEW s, NEW ts, NEW tc, NEW c, Good(s, ts, tc, c), net \in {"up", "down"},
           s.pc = "recv", ts # << >>, Head(ts).code = "EVOK"
    PROVE  GoodOutcomes(Evok(s), Tail(ts), tc, c)
<1>1. s \in Server /\ StackWaits(s) /\ (net = "up" => ~s.network_error_code) /\ tc \in Seq(Packet)
    BY GoodFacts DEF Connected
<1>2. CASE s.network_error_code
  <2> DEFINE s2 == At(s, "null")
  <2>1. s2 \in Server /\ Like(s, s2) /\ s2.network_error_code = s.network_error_code /\ s2.pc = "null"
        /\ s2.frames = s.frames
      BY <1>1, AtFields DEF Like
  <2> HIDE DEF s2
  <2>2. StackWaits(s2)
      BY <1>1, <2>1 DEF StackWaits
  <2>3. Good(s2, Tail(ts), tc, c)
      BY <1>1, <1>2, <2>1, <2>2, DroppedGood
  <2>4. GoodOutcomes(Silent(s2), Tail(ts), tc, c)
      BY <1>1, <2>3, SilentGood
  <2> QED BY <1>2, <2>4 DEF Evok, s2
<1>3. CASE ~s.network_error_code
  <2>1. Like(s, s)
      BY DEF Like
  <2>2. Good(s, Tail(ts), tc, c)
      BY <1>1, <1>3, <2>1, DroppedGood
  <2>3. GoodOutcomes(Silent(s), Tail(ts), tc, c)
      BY <1>1, <2>2, SilentGood
  <2> QED BY <1>3, <2>3 DEF Evok
<1> QED BY <1>2, <1>3

\* The outermost process_request is over, and with it the session.
LEMMA EndedStack ==
    ASSUME NEW s \in Server, s.frames = << >>
    PROVE  LET s2 == At(s, "ended")
           IN /\ s2 \in Server /\ Like(s, s2) /\ s2.network_error_code = s.network_error_code
              /\ s2.pc = "ended" /\ StackWaits(s2)
<1>1. "ended" \in {"recv", "null", "loop", "ended"}
    OBVIOUS
<1> QED BY <1>1, AtFields DEF Like, StackWaits

\* RPC_OK at the outermost level ends the session.
LEMMA GoodbyeGood ==
    ASSUME NEW s, NEW ts, NEW tc, NEW c, Good(s, ts, tc, c), net \in {"up", "down"},
           s.pc = "recv", ts # << >>, Head(ts).code = "OK", s.frames = << >>
    PROVE  GoodOutcomes(Silent(At(s, "ended")), Tail(ts), tc, c)
<1>1. s \in Server /\ ts \in Seq(Packet) /\ tc \in Seq(Packet) /\ ToServerOK(ts)
    BY GoodFacts
<1>2. Head(ts) \in Packet /\ Head(ts) = ts[1] /\ Len(ts) \in Nat \ {0} /\ Tail(ts) \in Seq(Packet)
    BY <1>1, TailFacts
<1>3. net # "up"
  <2> SUFFICES ASSUME net = "up" PROVE FALSE
      OBVIOUS
  <2>1. Connected(s, ts, tc, c)
      BY GoodFacts
  <2>2. 1 \in 1 .. Len(ts) /\ ts[1].code = "OK"
      BY <1>2
  <2>3. ts[1].re \in Callbacks \cup {"CLOSE"} /\ ts[1] \notin AnswersTo("CLOSE")
      BY <1>1, <2>1, <2>2 DEF ToServerOK, Requests, Connected
  <2>4. ts[1].re \in Callbacks
      BY <1>2, <2>2, <2>3 DEF AnswersTo
  <2>5. Awaited(s, ts, tc, c, ts[1].re)
      BY <2>1, <2>4 DEF Connected, Conserved
  <2>6. Count(ts, AnswersTo(ts[1].re)) >= 1
    <3>1. Head(ts) \in AnswersTo(ts[1].re)
        BY <1>2, <2>2 DEF AnswersTo
    <3>2. Count(ts, AnswersTo(ts[1].re)) = Count(Tail(ts), AnswersTo(ts[1].re)) + One(Head(ts) \in AnswersTo(ts[1].re))
        BY <1>1, CountTail
    <3>3. Count(Tail(ts), AnswersTo(ts[1].re)) \in Nat
        BY <1>2, CountsNat
    <3> QED BY <3>1, <3>2, <3>3 DEF One
  <2>7. Waits(s, ts[1].re) = 0
    <3>1. Len(s.frames) = 0
        BY <1>1, EmptySeq
    <3> QED BY <3>1 DEF Waits, One
  <2>8. /\ Count(tc, Coded(ts[1].re)) \in Nat /\ InCalls(c, ts[1].re) \in Nat
        /\ Count(ts, AnswersTo(ts[1].re)) \in Nat
      BY <1>1, CountsNat DEF InCalls, One
  <2> QED BY <2>5, <2>6, <2>7, <2>8 DEF Awaited
<1> DEFINE s2 == At(s, "ended")
<1>4. /\ s2 \in Server /\ Like(s, s2) /\ s2.network_error_code = s.network_error_code
      /\ s2.pc = "ended" /\ StackWaits(s2)
    BY <1>1, EndedStack
<1> HIDE DEF s2
<1>5. Good(s2, Tail(ts), tc, c)
    BY <1>3, <1>4, DroppedGood
<1>6. GoodOutcomes(Silent(s2), Tail(ts), tc, c)
    BY <1>1, <1>5, SilentGood
<1> QED BY <1>6 DEF s2

\* The stream is as it was; the connection is lost.
LEMMA DownGood ==
    ASSUME NEW s, NEW ts, NEW tc, NEW c, Good(s, ts, tc, c), net = "down",
           NEW s2 \in Server, Like(s, s2), StackWaits(s2), s2.pc # "loop",
           ts = << >> \/ s2.network_error_code = s.network_error_code,
           s2.pc = "null" => s2.network_error_code \/ ts = << >>
    PROVE  Good(s2, ts, tc, c)
<1>1. /\ s \in Server /\ ts \in Seq(Packet)
      /\ AnswersExpected(s, ts) /\ GoodbyeLast(s, ts) /\ ToServerOK(ts)
    BY GoodFacts
<1>2. /\ \A x : Performs(s2, x) = Performs(s, x) /\ Waits(s2, x) = Waits(s, x)
      /\ \A x : Waits(s2, x) \in Nat
    BY LikeCounts, StackCounts
<1>3. Pending(s2, ts, "OTHER") = Pending(s, ts, "OTHER")
    BY <1>2 DEF Pending
<1>4. AnswersExpected(s2, ts)
  <2>1. CASE ts = << >>
    <3>1. \A x : Count(ts, AnswersTo(x)) = 0
        BY <2>1, CountEmpty
    <3> QED BY <1>2, <3>1 DEF AnswersExpected
  <2>2. CASE s2.network_error_code = s.network_error_code
      BY <1>1, <1>2, <1>3, <2>2 DEF AnswersExpected
  <2> QED BY <2>1, <2>2
<1>5. \A b \in Callbacks : Count(ts, AnswersTo(b)) <= Count(ts, AnswersTo(b))
  <2>1. \A S : Count(ts, S) \in Nat
      BY <1>1, CountsNat
  <2> QED BY <2>1
<1> QED BY <1>1, <1>4, <1>5, SkipGood

\* irs_recv finds the connection lost.
LEMMA LostGood ==
    ASSUME NEW s, NEW tc, NEW c, Good(s, << >>, tc, c), net = "down", s.pc = "recv",
           NEW code \in BOOLEAN
    PROVE  Good([At(s, "null") EXCEPT !.network_error_code = @ \/ code,
                                      !.broken_connection = TRUE], << >>, tc, c)
<1> DEFINE s1 == At(s, "null")
           s2 == [s1 EXCEPT !.network_error_code = @ \/ code, !.broken_connection = TRUE]
<1>1. s \in Server /\ StackWaits(s)
    BY GoodFacts
<1>2. s1 \in Server /\ Like(s, s1) /\ s1.pc = "null"
  <2>1. "null" \in {"recv", "null", "loop", "ended"}
      OBVIOUS
  <2> QED BY <1>1, <2>1, AtFields DEF Like
<1> HIDE DEF s1
<1>3. s2 \in Server /\ Like(s, s2) /\ s2.pc = "null" /\ s2.frames = s.frames
  <2>1. (s1.network_error_code \/ code) \in BOOLEAN
      OBVIOUS
  <2> QED BY <1>2, <2>1 DEF Like, Server
<1> HIDE DEF s2
<1>4. StackWaits(s2)
    BY <1>1, <1>3 DEF StackWaits
<1>5. Good(s2, << >>, tc, c)
    BY <1>3, <1>4, DownGood
<1> QED BY <1>5 DEF s2, s1

\* The outermost process_request has returned NULL.
LEMMA NobodyGood ==
    ASSUME NEW s, NEW ts, NEW tc, NEW c, Good(s, ts, tc, c), net \in {"up", "down"},
           s.pc = "null", s.frames = << >>
    PROVE  GoodOutcomes(Silent(At(s, "ended")), ts, tc, c)
<1>1. s \in Server /\ tc \in Seq(Packet)
    BY GoodFacts
<1>2. net = "down"
    BY GoodFacts DEF Connected
<1> DEFINE s2 == At(s, "ended")
<1>3. /\ s2 \in Server /\ Like(s, s2) /\ s2.network_error_code = s.network_error_code
      /\ s2.pc = "ended" /\ StackWaits(s2)
    BY <1>1, EndedStack
<1> HIDE DEF s2
<1>4. Good(s2, ts, tc, c)
    BY <1>2, <1>3, DownGood
<1>5. GoodOutcomes(Silent(s2), ts, tc, c)
    BY <1>1, <1>4, SilentGood
<1> QED BY <1>5 DEF s2

\* An appcall in its event loop is being performed.
LEMMA LoopMid ==
    ASSUME NEW s, NEW ts, NEW tc, NEW c, Good(s, ts, tc, c), s.pc = "loop"
    PROVE  Mid(s, ts, tc, c) /\ Top(s).op = "APPCALL" /\ c.told = s.got /\ ~s.in_event
<1>1. Session(s, ts, tc, c) /\ StackWaits(s) /\ c.told = s.got
    BY DEF Good
<1>2. Len(s.frames) = 1 /\ s.frames[1].op = "APPCALL" /\ s.frames[1].wait = "none" /\ ~s.in_event
    BY <1>1 DEF StackWaits
<1>3. Top(s) = s.frames[1]
    BY <1>2 DEF Top, TopOf
<1> QED BY <1>1, <1>2, <1>3 DEF Mid, Performing

-----------------------------------------------------------------------------
(* The steps of the server *)

\* What the invariant says first.
LEMMA Basics ==
    ASSUME IInv
    PROVE  /\ Good(srv, toServer, toClient, cl) /\ Shaped(srv)
           /\ srv \in Server /\ cl \in ClientState
           /\ toServer \in Seq(Packet) /\ toClient \in Seq(Packet)
           /\ net \in {"up", "down"} /\ made \in Nat
BY DEF IInv, Shapes, TypeOK

\* ServerPerforms keeps the invariant.
LEMMA PerformsGood ==
    ASSUME IInv, ServerPerforms
    PROVE  Good(srv, toServer, toClient, cl)'
<1>1. /\ srv.pc = "recv" /\ toServer # << >> /\ Head(toServer).code \in Requests
      /\ Takes(Body(Entered(srv, Head(toServer).code))) /\ toServer' = Tail(toServer)
      /\ cl' = cl /\ net' = net /\ made' = made
    BY DEF ServerPerforms, PacketArrived
<1>2. PICK r \in Requests : r = Head(toServer).code
    BY <1>1
<1>3. /\ Mid(Entered(srv, r), Tail(toServer), toClient, cl)
      /\ Top(Entered(srv, r)).op = "APPCALL" => cl.told = Entered(srv, r).got
    BY <1>1, <1>2, Basics, EnterMid
<1>4. GoodOutcomes(Body(Entered(srv, r)), Tail(toServer), toClient, cl)
    BY <1>3, Basics, BodyGood
<1>5. made' >= made /\ made' \in Nat
    BY <1>1, Basics
<1> QED BY <1>1, <1>2, <1>4, <1>5, Basics, TakesGood

\* ServerTalks keeps the invariant.
LEMMA TalksGood ==
    ASSUME IInv, ServerTalks
    PROVE  Good(srv, toServer, toClient, cl)'
<1>1. /\ srv.pc = "recv" /\ toServer # << >> /\ Head(toServer).code \in Requests
      /\ Takes(Calling(Entered(srv, Head(toServer).code), "MSG", 0)) /\ toServer' = Tail(toServer)
      /\ cl' = cl /\ net' = net /\ made' = made
    BY DEF ServerTalks, PacketArrived
<1>2. PICK r \in Requests : r = Head(toServer).code
    BY <1>1
<1>3. /\ Mid(Entered(srv, r), Tail(toServer), toClient, cl)
      /\ Top(Entered(srv, r)).op = "APPCALL" => cl.told = Entered(srv, r).got
    BY <1>1, <1>2, Basics, EnterMid
<1>4. GoodOutcomes(Calling(Entered(srv, r), "MSG", 0), Tail(toServer), toClient, cl)
    BY <1>3, Basics, MsgGood
<1>5. made' >= made /\ made' \in Nat
    BY <1>1, Basics
<1> QED BY <1>1, <1>2, <1>4, <1>5, Basics, TakesGood

\* ServerEvok keeps the invariant.
LEMMA ReadsEvokGood ==
    ASSUME IInv, ServerEvok
    PROVE  Good(srv, toServer, toClient, cl)'
<1>1. /\ srv.pc = "recv" /\ toServer # << >> /\ Head(toServer).code = "EVOK"
      /\ Takes(Evok(srv)) /\ toServer' = Tail(toServer)
      /\ cl' = cl /\ net' = net /\ made' = made
    BY DEF ServerEvok, PacketArrived
<1>2. GoodOutcomes(Evok(srv), Tail(toServer), toClient, cl)
    BY <1>1, Basics, EvokGood
<1>3. made' >= made /\ made' \in Nat
    BY <1>1, Basics
<1> QED BY <1>1, <1>2, <1>3, Basics, TakesGood

\* ServerAnswered keeps the invariant.
LEMMA ReadsAnswerGood ==
    ASSUME IInv, ServerAnswered
    PROVE  Good(srv, toServer, toClient, cl)'
<1>1. /\ srv.pc = "recv" /\ toServer # << >> /\ Head(toServer).code = "OK"
      /\ Takes(IF srv.frames = << >> THEN Silent(At(srv, "ended"))
               ELSE Returned(srv, Head(toServer).good))
      /\ toServer' = Tail(toServer)
      /\ cl' = cl /\ net' = net /\ made' = made
    BY DEF ServerAnswered, PacketArrived
<1>2. srv.frames # << >> =>
         GoodOutcomes(Returned(srv, Head(toServer).good), Tail(toServer), toClient, cl)
    BY <1>1, Basics, AnsweredGood
<1>3. srv.frames = << >> =>
         GoodOutcomes(Silent(At(srv, "ended")), Tail(toServer), toClient, cl)
    BY <1>1, Basics, GoodbyeGood
<1>4. made' >= made /\ made' \in Nat
    BY <1>1, Basics
<1> QED BY <1>1, <1>2, <1>3, <1>4, Basics, TakesGood

\* ServerPolls and ServerPollTalks keep the invariant.
LEMMA PollsGood ==
    ASSUME IInv, ServerPolls \/ ServerPollTalks
    PROVE  Good(srv, toServer, toClient, cl)'
<1>1. /\ srv.pc = "recv" /\ srv.poll_debug_events
      /\ \/ Takes(Body(Entered(srv, "POLL")))
         \/ Takes(Calling(Entered(srv, "POLL"), "MSG", 0))
      /\ toServer' = toServer /\ cl' = cl /\ net' = net /\ made' = made
    BY DEF ServerPolls, ServerPollTalks, Polling
<1>2. /\ Mid(Entered(srv, "POLL"), toServer, toClient, cl)
      /\ Top(Entered(srv, "POLL")).op = "POLL"
    BY <1>1, Basics, PollMid
<1>3. GoodOutcomes(Body(Entered(srv, "POLL")), toServer, toClient, cl)
    BY <1>2, Basics, BodyGood
<1>4. GoodOutcomes(Calling(Entered(srv, "POLL"), "MSG", 0), toServer, toClient, cl)
    BY <1>2, Basics, MsgGood
<1>5. made' >= made /\ made' \in Nat
    BY <1>1, Basics
<1> QED BY <1>1, <1>3, <1>4, <1>5, Basics, TakesGood

\* ServerLost keeps the invariant.
LEMMA LosesGood ==
    ASSUME IInv, ServerLost
    PROVE  Good(srv, toServer, toClient, cl)'
<1>1. /\ srv.pc = "recv" /\ toServer = << >> /\ net = "down"
      /\ toServer' = toServer /\ toClient' = toClient
      /\ cl' = cl /\ net' = net /\ made' = made
    BY DEF ServerLost
<1>2. PICK code \in BOOLEAN :
         srv' = [At(srv, "null") EXCEPT !.network_error_code = @ \/ code,
                                        !.broken_connection = TRUE]
    BY DEF ServerLost
<1>3. Good([At(srv, "null") EXCEPT !.network_error_code = @ \/ code,
                                   !.broken_connection = TRUE], << >>, toClient, cl)
    BY <1>1, Basics, LostGood
<1>4. made' >= made /\ made' \in Nat
    BY <1>1, Basics
<1> QED BY <1>1, <1>2, <1>3, <1>4, Basics, GoodPrimed

\* ServerUnwinds keeps the invariant.
LEMMA UnwindsGood ==
    ASSUME IInv, ServerUnwinds
    PROVE  Good(srv, toServer, toClient, cl)'
<1>1. /\ srv.pc = "null" /\ Takes(Unwound(srv))
      /\ toServer' = toServer /\ cl' = cl /\ net' = net /\ made' = made
    BY DEF ServerUnwinds
<1>2. srv.frames # << >> => GoodOutcomes(Returned(At(srv, "recv"), FALSE), toServer, toClient, cl)
    BY <1>1, Basics, UnwoundGood
<1>3. srv.frames = << >> => GoodOutcomes(Silent(At(srv, "ended")), toServer, toClient, cl)
    BY <1>1, Basics, NobodyGood
<1>4. GoodOutcomes(Unwound(srv), toServer, toClient, cl)
    BY <1>2, <1>3 DEF Unwound
<1>5. made' >= made /\ made' \in Nat
    BY <1>1, Basics
<1> QED BY <1>1, <1>4, <1>5, Basics, TakesGood

\* AppcallEvent keeps the invariant.
LEMMA LoopEventGood ==
    ASSUME IInv, AppcallEvent
    PROVE  Good(srv, toServer, toClient, cl)'
<1> DEFINE s == Fetched(srv)
           Shown(last) == Calling(Retop(s, [Top(s) EXCEPT !.last = last]),
                                  "HANDLE_DEBUG_EVENT", s.got)
<1>1. /\ srv.pc = "loop" /\ EventReady(srv)
      /\ Takes(IF Top(s).late THEN Shown(TRUE)
               ELSE Replying(s, s.got) \cup Shown(TRUE) \cup Shown(FALSE))
      /\ toServer' = toServer /\ cl' = cl /\ net' = net /\ made' = made
    BY DEF AppcallEvent
<1>2. /\ Mid(srv, toServer, toClient, cl) /\ Top(srv).op = "APPCALL"
      /\ cl.told = srv.got /\ ~srv.in_event
    BY <1>1, Basics, LoopMid
<1>3. s.got = srv.got + 1
    BY Basics, FetchedFields
<1>4. GoodOutcomes(Replying(s, s.got), toServer, toClient, cl)
    BY <1>1, <1>2, <1>3, Basics, FetchReply
<1>5. \A last \in BOOLEAN : GoodOutcomes(Shown(last), toServer, toClient, cl)
    BY <1>1, <1>2, Basics, ShownGood
<1> HIDE DEF s, Shown
<1>6. GoodOutcomes(Shown(TRUE), toServer, toClient, cl) /\ GoodOutcomes(Shown(FALSE), toServer, toClient, cl)
    BY <1>5
<1>7. GoodOutcomes(Replying(s, s.got) \cup Shown(TRUE) \cup Shown(FALSE), toServer, toClient, cl)
    BY <1>4, <1>6, UnionGood
<1>8. made' >= made /\ made' \in Nat
    BY <1>1, Basics
<1> QED BY <1>1, <1>6, <1>7, <1>8, Basics, TakesGood

\* AppcallTimeout keeps the invariant.
LEMMA LoopTimeoutGood ==
    ASSUME IInv, AppcallTimeout
    PROVE  Good(srv, toServer, toClient, cl)'
<1> DEFINE f == [Top(srv) EXCEPT !.late = TRUE]
           s2 == Retop(srv, f)
<1>1. /\ srv.pc = "loop"
      /\ \/ Takes(Replying(srv, srv.got)) /\ made' = made
         \/ Takes(Silent(s2)) /\ made' = made + 1
      /\ toServer' = toServer /\ cl' = cl /\ net' = net
    BY DEF AppcallTimeout
<1>2. /\ Mid(srv, toServer, toClient, cl) /\ Top(srv).op = "APPCALL"
      /\ cl.told = srv.got /\ ~srv.in_event
    BY <1>1, Basics, LoopMid
<1>3. GoodOutcomes(Replying(srv, srv.got), toServer, toClient, cl)
    BY <1>2, Basics, AppcallReply
<1>4. /\ srv.frames # << >> /\ Top(srv) \in Frame /\ Top(srv).wait = "none"
      /\ ~srv.has_pending_event
    BY <1>2, MidFacts
<1>5. f \in Frame /\ f.op = Top(srv).op /\ f.saved = Top(srv).saved /\ f.wait = "none"
    BY <1>4 DEF Frame
<1> HIDE DEF f
<1>6. /\ s2 \in Server /\ s2.pc = "loop" /\ Len(s2.frames) = Len(srv.frames)
      /\ Top(s2).op = Top(srv).op /\ Top(s2).saved = Top(srv).saved /\ Top(s2).wait = "none"
      /\ s2.poll_debug_events = srv.poll_debug_events /\ ~s2.has_pending_event
      /\ s2.network_error_code = srv.network_error_code /\ ~s2.in_event /\ s2.got = srv.got
    BY <1>1, <1>2, <1>4, <1>5, Basics, Retopped
<1> HIDE DEF s2
<1>7. Good(s2, toServer, toClient, cl)
    BY <1>2, <1>6, Basics, LoopGood
<1>8. GoodOutcomes(Silent(s2), toServer, toClient, cl)
    BY <1>7, Basics, SilentGood
<1>9. made' >= made /\ made' \in Nat
    BY <1>1, Basics
<1> QED BY <1>1, <1>3, <1>8, <1>9, Basics, TakesGood

\* Every step of the server keeps the invariant.
LEMMA ServerStepGood ==
    ASSUME IInv, ServerStep
    PROVE  Good(srv, toServer, toClient, cl)'
BY PerformsGood, TalksGood, ReadsEvokGood, ReadsAnswerGood, PollsGood, LosesGood, UnwindsGood,
   LoopEventGood, LoopTimeoutGood DEF ServerStep

-----------------------------------------------------------------------------
(* The client's stack *)

\* Only the list of names and the event loop of an appcall wait for these two answers.
LEMMA WaitsOnce ==
    ASSUME NEW s \in Server, StackShape(s)
    PROVE  /\ Waits(s, "SET_DEBUG_NAMES") \in {0, 1} /\ Waits(s, "HANDLE_DEBUG_EVENT") \in {0, 1}
           /\ Waits(s, "SET_DEBUG_NAMES") + Waits(s, "HANDLE_DEBUG_EVENT") <= 1
           /\ Waits(s, "SET_DEBUG_NAMES") = 1 => Performs(s, "STOPPED_AT_DEBUG_EVENT") >= 1
           /\ Waits(s, "HANDLE_DEBUG_EVENT") = 1 => Performs(s, "APPCALL") >= 1
<1> DEFINE n == Len(s.frames)
<1>1. n >= 2 => s.frames[2].wait \in {"none", "MSG"} \/ n # 2
    BY DEF StackShape
<1>2. n >= 2 => ~(n # 2)
  <2>1. n \in Nat
      BY FieldsTyped, LenProperties
  <2>2. n <= 2
      BY DEF StackShape
  <2> HIDE DEF n
  <2> QED BY <2>1, <2>2
<1>3. n >= 1 => /\ s.frames[1].wait = "SET_DEBUG_NAMES" => s.frames[1].op = "STOPPED_AT_DEBUG_EVENT"
                /\ s.frames[1].wait = "HANDLE_DEBUG_EVENT" => s.frames[1].op = "APPCALL"
    BY DEF StackShape
<1>4. n >= 2 => s.frames[2].wait # "SET_DEBUG_NAMES" /\ s.frames[2].wait # "HANDLE_DEBUG_EVENT"
    BY <1>1, <1>2
<1>5. /\ Waits(s, "SET_DEBUG_NAMES") = One(n >= 1 /\ s.frames[1].wait = "SET_DEBUG_NAMES")
      /\ Waits(s, "HANDLE_DEBUG_EVENT") = One(n >= 1 /\ s.frames[1].wait = "HANDLE_DEBUG_EVENT")
    BY <1>4 DEF Waits, One
<1>6. \A x : n >= 1 /\ s.frames[1].op = x => Performs(s, x) >= 1
    BY DEF Performs, One
<1> QED BY <1>3, <1>5, <1>6 DEF One

\* How the calls of the client bound what is on its way and what is being performed.
Flowing(s, ts, tc, c) ==
    /\ \A r \in Requests : /\ InCalls(c, r) \in {0, 1}
                           /\ Pending(s, ts, r) + Count(tc, AnswersTo(r)) = InCalls(c, r)
                           /\ Pending(s, ts, r) = Count(ts, Coded(r)) + Performs(s, r)
                           /\ Pending(s, ts, r) \in Nat /\ Count(tc, AnswersTo(r)) \in Nat
                           /\ Count(ts, Coded(r)) \in Nat /\ Performs(s, r) \in Nat
    /\ \A b \in Callbacks : /\ InCalls(c, b) \in {0, 1}
                            /\ Waits(s, b) = Count(tc, Coded(b)) + InCalls(c, b) + Count(ts, AnswersTo(b))
                            /\ Waits(s, b) \in Nat /\ Count(tc, Coded(b)) \in Nat
                            /\ Count(ts, AnswersTo(b)) \in Nat

\* What balances a call: it is on its way, performed or answered, once.
LEMMA Flows ==
    ASSUME NEW s \in Server, NEW ts \in Seq(Packet), NEW tc \in Seq(Packet), NEW c,
           Conserved(s, ts, tc, c)
    PROVE  Flowing(s, ts, tc, c)
<1>1. \A x : InCalls(c, x) \in {0, 1}
    BY DEF InCalls, One
<1>2. \A q \in Seq(Packet) : \A S : Count(q, S) \in Nat
    BY CountsNat
<1>3. \A x : Pending(s, ts, x) \in Nat /\ Performs(s, x) \in Nat /\ Waits(s, x) \in Nat
    BY PendingNat, StackCounts
<1>4. ASSUME NEW r \in Requests PROVE Pending(s, ts, r) + Count(tc, AnswersTo(r)) = InCalls(c, r)
    BY DEF Conserved, Balanced
<1>5. ASSUME NEW b \in Callbacks
      PROVE  Waits(s, b) = Count(tc, Coded(b)) + InCalls(c, b) + Count(ts, AnswersTo(b))
    BY DEF Conserved, Awaited
<1>6. \A r : Pending(s, ts, r) = Count(ts, Coded(r)) + Performs(s, r)
    BY DEF Pending
<1> QED BY <1>1, <1>2, <1>3, <1>4, <1>5, <1>6 DEF Flowing

\* A request that has not been called is nowhere; one that is answered is performed no more.
LEMMA FlowOut ==
    ASSUME NEW s, NEW ts, NEW tc, NEW c, Flowing(s, ts, tc, c)
    PROVE  /\ \A r \in Requests : InCalls(c, r) = 0 =>
                 /\ Pending(s, ts, r) = 0 /\ Performs(s, r) = 0 /\ Count(ts, Coded(r)) = 0
                 /\ Count(tc, AnswersTo(r)) = 0
           /\ \A r \in Requests : Count(tc, AnswersTo(r)) >= 1 =>
                 /\ InCalls(c, r) = 1 /\ Performs(s, r) = 0 /\ Count(tc, AnswersTo(r)) = 1
           /\ \A r \in Requests : Performs(s, r) >= 1 =>
                 /\ InCalls(c, r) = 1 /\ Count(tc, AnswersTo(r)) = 0
           /\ \A b \in Callbacks : Waits(s, b) = 0 =>
                 Count(tc, Coded(b)) = 0 /\ InCalls(c, b) = 0 /\ Count(ts, AnswersTo(b)) = 0
           /\ \A b \in Callbacks : Waits(s, b) = 1 /\ Count(tc, Coded(b)) >= 1 =>
                 InCalls(c, b) = 0 /\ Count(ts, AnswersTo(b)) = 0
           /\ \A b \in Callbacks : Waits(s, b) = 1 /\ InCalls(c, b) = 1 =>
                 Count(tc, Coded(b)) = 0 /\ Count(ts, AnswersTo(b)) = 0
<1>1. ASSUME NEW r \in Requests
      PROVE  /\ InCalls(c, r) = 0 =>
                   /\ Pending(s, ts, r) = 0 /\ Performs(s, r) = 0 /\ Count(ts, Coded(r)) = 0
                   /\ Count(tc, AnswersTo(r)) = 0
             /\ Count(tc, AnswersTo(r)) >= 1 =>
                   /\ InCalls(c, r) = 1 /\ Performs(s, r) = 0 /\ Count(tc, AnswersTo(r)) = 1
             /\ Performs(s, r) >= 1 => InCalls(c, r) = 1 /\ Count(tc, AnswersTo(r)) = 0
  <2>1. /\ InCalls(c, r) \in {0, 1}
        /\ Pending(s, ts, r) + Count(tc, AnswersTo(r)) = InCalls(c, r)
        /\ Pending(s, ts, r) = Count(ts, Coded(r)) + Performs(s, r)
        /\ Pending(s, ts, r) \in Nat /\ Count(tc, AnswersTo(r)) \in Nat
        /\ Count(ts, Coded(r)) \in Nat /\ Performs(s, r) \in Nat
      BY DEF Flowing
  <2> QED BY <2>1
<1>2. ASSUME NEW b \in Callbacks
      PROVE  /\ Waits(s, b) = 0 =>
                   Count(tc, Coded(b)) = 0 /\ InCalls(c, b) = 0 /\ Count(ts, AnswersTo(b)) = 0
             /\ Waits(s, b) = 1 /\ Count(tc, Coded(b)) >= 1 =>
                   InCalls(c, b) = 0 /\ Count(ts, AnswersTo(b)) = 0
             /\ Waits(s, b) = 1 /\ InCalls(c, b) = 1 =>
                   Count(tc, Coded(b)) = 0 /\ Count(ts, AnswersTo(b)) = 0
  <2>1. /\ InCalls(c, b) \in {0, 1}
        /\ Waits(s, b) = Count(tc, Coded(b)) + InCalls(c, b) + Count(ts, AnswersTo(b))
        /\ Waits(s, b) \in Nat /\ Count(tc, Coded(b)) \in Nat /\ Count(ts, AnswersTo(b)) \in Nat
      BY DEF Flowing
  <2> QED BY <2>1
<1> QED BY <1>1, <1>2

\* The client has learned of the event that is out, or of nothing new.
LEMMA ToldMore ==
    ASSUME NEW s \in Server, NEW ts, NEW told \in Nat, NEW told2, ServerInv(s, ts, told),
           told2 = told \/ told2 = s.got
    PROVE  ServerInv(s, ts, told2)
<1>1. s.got \in Nat
    BY FieldsTyped
<1>2. EventsInOrder(s, ts, told2)
    BY <1>1 DEF ServerInv, EventsInOrder
<1> QED BY <1>2 DEF ServerInv

\* What a step of the client has to leave behind.
LEMMA ClientGood ==
    ASSUME NEW s, NEW ts, NEW tc, NEW c, Good(s, ts, tc, c), net = "up",
           NEW ts2 \in Seq(Packet), NEW tc2 \in Seq(Packet), NEW c2 \in ClientState,
           ServerInv(s, ts2, c2.told), Connected(s, ts2, tc2, c2),
           c2.told = c.told \/ c2.told = s.got
    PROVE  Good(s, ts2, tc2, c2)
<1>1. s \in Server /\ ~s.has_pending_event /\ s.got <= made /\ StackWaits(s)
      /\ (s.pc = "loop" => c.told = s.got)
    BY GoodFacts
<1> QED BY <1>1 DEF Good, Session, Linked

\* When nothing is asked for and nothing polled for, no packet tells of the event.
LEMMA NewsRead ==
    ASSUME NEW s, NEW ts, NEW tc, NEW c, Numbers(s, ts, tc, c), ~c.polling,
           Count(tc, AnswersTo("GET_DEBUG_EVENT")) = 0, Count(tc, AnswersTo("APPCALL")) = 0,
           Count(tc, Coded("HANDLE_DEBUG_EVENT")) = 0
    PROVE  /\ Polls(s) = 0 /\ Count(tc, Coded("EVENT")) = 0 /\ Count(tc, Full) = 0
           /\ Count(tc, Empty) = 0
           /\ s.got = c.told
<1>1. /\ Count(tc, Empty) \in Nat /\ Count(tc, Full) \in Nat /\ Count(tc, Coded("EVENT")) \in Nat
      /\ Polls(s) \in Nat
    BY DEF Numbers, QueueTyped, StackTyped
<1>2. /\ Count(tc, AnswersTo("GET_DEBUG_EVENT")) = Count(tc, Empty) + Count(tc, Full)
      /\ Count(tc, News) = Count(tc, Coded("EVENT")) + Count(tc, Full) +
            Count(tc, Coded("HANDLE_DEBUG_EVENT")) + Count(tc, AnswersTo("APPCALL"))
    BY DEF Numbers
<1>3. /\ One(c.polling) + Count(tc, Empty) = Polls(s) + Count(tc, Coded("EVENT"))
      /\ s.got # c.told => Count(tc, News) >= 1
    BY DEF Numbers, Cycle
<1>4. One(c.polling) = 0
    BY DEF One
<1>5. Count(tc, Empty) = 0 /\ Count(tc, Full) = 0
    BY <1>1, <1>2
<1>6. Polls(s) = 0 /\ Count(tc, Coded("EVENT")) = 0
    BY <1>1, <1>3, <1>4, <1>5
<1>7. Count(tc, News) = 0
    BY <1>2, <1>5, <1>6
<1> QED BY <1>3, <1>5, <1>6, <1>7

\* The client's stack when a call is added or answered, and when there is none.
LEMMA CallsNone ==
    ASSUME NEW c, c.calls = << >>
    PROVE  \A x : InCalls(c, x) = 0
<1>1. Len(c.calls) = 0
    BY EmptySeq
<1> QED BY <1>1 DEF InCalls, One

\* One more call.
LEMMA CallsAppend ==
    ASSUME NEW c, NEW c2, c.calls \in Seq(Requests \cup Callbacks), NEW r,
           r \in Requests \cup Callbacks, c2.calls = Append(c.calls, r),
           InCalls(c, r) = 0
    PROVE  /\ \A x : InCalls(c2, x) = InCalls(c, x) + One(x = r)
           /\ Len(c2.calls) = Len(c.calls) + 1 /\ Len(c.calls) \in Nat
           /\ \A i \in 1 .. Len(c.calls) : c2.calls[i] = c.calls[i]
           /\ c2.calls[Len(c.calls) + 1] = r
<1>1. /\ Len(c2.calls) = Len(c.calls) + 1 /\ Len(c.calls) \in Nat
      /\ \A i \in 1 .. Len(c.calls) : c2.calls[i] = c.calls[i]
      /\ c2.calls[Len(c.calls) + 1] = r
    BY AppendProperties, LenProperties
<1>2. \A i \in 1 .. Len(c.calls) : c.calls[i] # r
    BY DEF InCalls, One
<1>3. ASSUME NEW x PROVE InCalls(c2, x) = InCalls(c, x) + One(x = r)
  <2>1. (\E i \in 1 .. Len(c2.calls) : c2.calls[i] = x) <=>
           (x = r \/ \E i \in 1 .. Len(c.calls) : c.calls[i] = x)
    <3>1. \A i \in 1 .. Len(c2.calls) : i \in 1 .. Len(c.calls) \/ i = Len(c.calls) + 1
        BY <1>1
    <3>2. \A i \in 1 .. Len(c.calls) : i \in 1 .. Len(c2.calls)
        BY <1>1
    <3>3. Len(c.calls) + 1 \in 1 .. Len(c2.calls)
        BY <1>1
    <3> QED BY <1>1, <3>1, <3>2, <3>3
  <2>2. x = r => ~(\E i \in 1 .. Len(c.calls) : c.calls[i] = x)
      BY <1>2
  <2> QED BY <2>1, <2>2 DEF InCalls, One
<1> QED BY <1>1, <1>3

TopOnce(c) ==
    /\ c.calls \in Seq(Requests \cup Callbacks) /\ c.calls # << >>
    /\ \A i \in 1 .. Len(c.calls) - 1 : c.calls[i] # TopOf(c.calls)
CallGone(c, c2) ==
    /\ \A x : InCalls(c2, x) = InCalls(c, x) - One(x = TopOf(c.calls))
    /\ InCalls(c, TopOf(c.calls)) = 1
    /\ Len(c2.calls) = Len(c.calls) - 1 /\ Len(c.calls) \in Nat \ {0}
    /\ \A i \in 1 .. Len(c.calls) - 1 : c2.calls[i] = c.calls[i]

\* One call less.
LEMMA CallsPop ==
    ASSUME NEW c, NEW c2, TopOnce(c), c2.calls = Pop(c.calls)
    PROVE  CallGone(c, c2)
<1> DEFINE n == Len(c.calls)
           t == TopOf(c.calls)
<1>1. /\ Len(c2.calls) = n - 1 /\ n \in Nat \ {0}
      /\ \A i \in 1 .. n - 1 : c2.calls[i] = c.calls[i]
      /\ t = c.calls[n]
    BY Popping DEF TopOf, TopOnce
<1>2. n \in 1 .. n
    BY <1>1
<1>3. InCalls(c, t) = 1
    BY <1>1, <1>2 DEF InCalls, One
<1>4. ASSUME NEW x PROVE InCalls(c2, x) = InCalls(c, x) - One(x = t)
  <2>1. (\E i \in 1 .. Len(c2.calls) : c2.calls[i] = x) <=>
           (x # t /\ \E i \in 1 .. n : c.calls[i] = x)
    <3>1. \A i \in 1 .. n : i \in 1 .. n - 1 \/ i = n
        BY <1>1
    <3>2. \A i \in 1 .. n - 1 : i \in 1 .. n
        BY <1>1
    <3> QED BY <1>1, <3>1, <3>2 DEF TopOnce
  <2> QED BY <1>3, <2>1 DEF InCalls, One
<1> QED BY <1>1, <1>3, <1>4 DEF CallGone

\* A request of the client at the end of the stream.
LEMMA AskServer ==
    ASSUME NEW s \in Server, NEW ts \in Seq(Packet), NEW tc \in Seq(Packet), NEW c \in ClientState,
           ServerInv(s, ts, c.told), Connected(s, ts, tc, c), c.told \in Nat, NEW r \in Requests,
           InCalls(c, r) = 0,
           r \in Main => /\ c.calls = << >> /\ ~c.polling
                         /\ r = "GET_DEBUG_EVENT" => c.held = 0 /\ c.pending = 0,
           r = "OTHER" => /\ Count(ts, AnswersTo("SET_DEBUG_NAMES")) = 0
                          /\ Count(ts, AnswersTo("HANDLE_DEBUG_EVENT")) = 0
                          /\ \A m \in Main : ~(Count(ts, Coded(m)) >= 1)
    PROVE  ServerInv(s, Append(ts, Bare(r)), c.told)
<1> DEFINE p == Bare(r)
           ts2 == Append(ts, p)
<1>1. p \in Packet /\ p.code = r
    BY PacketsTyped
<1>2. ts2 \in Seq(Packet) /\ CallAdded(ts, ts2, p)
  <2>1. p.code # "OK"
      BY <1>1 DEF Requests
  <2> QED BY <1>1, <2>1, AppendCounts, CallSent
<1>3. /\ Len(ts2) = Len(ts) + 1 /\ Len(ts) \in Nat
      /\ \A i \in 1 .. Len(ts) : ts2[i] = ts[i]
      /\ ts2[Len(ts) + 1] = p
      /\ \A i \in 1 .. Len(ts2) : i \in 1 .. Len(ts) \/ i = Len(ts) + 1
    BY <1>1, AppendProperties, LenProperties
<1> HIDE DEF p, ts2
<1>4. /\ \A x : Count(ts2, AnswersTo(x)) = Count(ts, AnswersTo(x))
      /\ \A x : Count(ts2, Coded(x)) = Count(ts, Coded(x)) + One(x = r)
      /\ \A x : Count(ts2, Coded(x)) \in Nat /\ Count(ts, Coded(x)) \in Nat
  <2>1. \A x : One(p.code = x) = One(x = r)
      BY <1>1 DEF One
  <2> QED BY <1>2, <2>1, CountsNat DEF CallAdded
<1>5. \A x : /\ Pending(s, ts2, x) = Pending(s, ts, x) + One(x = r)
             /\ Pending(s, ts, x) \in Nat
  <2> SUFFICES ASSUME NEW x PROVE /\ Pending(s, ts2, x) = Pending(s, ts, x) + One(x = r)
                                  /\ Pending(s, ts, x) \in Nat
      OBVIOUS
  <2>1. Performs(s, x) \in Nat /\ Count(ts, Coded(x)) \in Nat /\ One(x = r) \in Nat
        /\ Count(ts2, Coded(x)) = Count(ts, Coded(x)) + One(x = r)
      BY <1>4, StackCounts DEF One
  <2> QED BY <2>1 DEF Pending
<1>6. Flowing(s, ts, tc, c)
    BY Flows DEF Connected
<1>7. Pending(s, ts, r) = 0
    BY <1>6, FlowOut
<1>8. /\ StackShape(s) /\ OneAtATime(s, ts) /\ MainWhenIdle(s, ts) /\ AnswersExpected(s, ts)
      /\ GoodbyeLast(s, ts) /\ ToServerOK(ts) /\ EventsInOrder(s, ts, c.told)
    BY DEF ServerInv
<1>9. ASSUME r \in Main
      PROVE  /\ \A x \in Requests : Pending(s, ts, x) = 0 /\ Count(ts, Coded(x)) = 0
             /\ Polls(s) = 0 /\ s.got = c.told /\ s.frames = << >>
             /\ Count(ts, AnswersTo("HANDLE_DEBUG_EVENT")) = 0
             /\ r = "GET_DEBUG_EVENT" => ~s.in_event
  <2>1. c.calls = << >> /\ ~c.polling
      BY <1>9
  <2>2. \A x : InCalls(c, x) = 0
      BY <2>1, CallsNone
  <2>3. /\ \A x \in Requests : /\ Pending(s, ts, x) = 0 /\ Performs(s, x) = 0
                               /\ Count(ts, Coded(x)) = 0 /\ Count(tc, AnswersTo(x)) = 0
      BY <1>6, <2>2, FlowOut
  <2>4. Waits(s, "HANDLE_DEBUG_EVENT") = 0
    <3>1. Performs(s, "APPCALL") = 0
        BY <2>3 DEF Requests
    <3> QED BY <1>8, <3>1, WaitsOnce
  <2>5. Count(tc, Coded("HANDLE_DEBUG_EVENT")) = 0 /\ Count(ts, AnswersTo("HANDLE_DEBUG_EVENT")) = 0
      BY <1>6, <2>4, FlowOut DEF Callbacks
  <2>6. Numbers(s, ts, tc, c)
      BY ConnectedNumbers
  <2>7. /\ Count(tc, AnswersTo("GET_DEBUG_EVENT")) = 0 /\ Count(tc, AnswersTo("APPCALL")) = 0
      BY <2>3 DEF Requests
  <2>8. /\ Polls(s) = 0 /\ Count(tc, Coded("EVENT")) = 0 /\ Count(tc, Full) = 0 /\ s.got = c.told
      BY <2>1, <2>5, <2>6, <2>7, NewsRead
  <2>9. s.frames = << >>
    <3> SUFFICES ASSUME s.frames # << >> PROVE FALSE
        OBVIOUS
    <3>1. s.frames \in Seq(Frame) /\ Len(s.frames) \in Nat \ {0}
        BY FieldsTyped, EmptySeq
    <3>2. s.frames[1] \in Frame
        BY <3>1, ElementOfSeq
    <3>3. s.frames[1].op \in Requests \cup {"POLL"}
        BY <3>2, FrameTyped
    <3>4. Len(s.frames) >= 1
        BY <3>1
    <3>5. Performs(s, s.frames[1].op) >= 1
        BY <3>4 DEF Performs, One
    <3>6. s.frames[1].op # "POLL"
      <4>1. s.frames[1].op = "POLL" => Polls(s) >= 1
          BY <3>4 DEF Polls, One
      <4> QED BY <2>8, <4>1
    <3> QED BY <2>3, <3>3, <3>5, <3>6
  <2>10. r = "GET_DEBUG_EVENT" => ~s.in_event
    <3>1. s.in_event => Count(tc, Full) + Count(tc, Coded("EVENT")) + One(c.pending # 0) + One(c.held # 0) >= 1
        BY <2>6 DEF Numbers, Cycle
    <3> QED BY <1>9, <2>8, <3>1 DEF One
  <2> QED BY <2>3, <2>5, <2>8, <2>9, <2>10
<1>10. OneAtATime(s, ts2)
  <2>1. CASE r \in Main
    <3>1. \A x \in Requests : Pending(s, ts2, x) = One(x = r)
        BY <1>5, <1>9, <2>1 DEF One
    <3>2. Polls(s) = 0
        BY <1>9, <2>1
    <3>3. /\ Pending(s, ts2, "GET_DEBUG_EVENT") = One("GET_DEBUG_EVENT" = r)
          /\ Pending(s, ts2, "CONTINUE_AFTER_EVENT") = One("CONTINUE_AFTER_EVENT" = r)
          /\ Pending(s, ts2, "STOPPED_AT_DEBUG_EVENT") = One("STOPPED_AT_DEBUG_EVENT" = r)
          /\ Pending(s, ts2, "APPCALL") = One("APPCALL" = r)
          /\ Pending(s, ts2, "OTHER") = One("OTHER" = r)
        BY <3>1 DEF Requests
    <3> QED BY <3>2, <3>3 DEF OneAtATime, One
  <2>2. CASE r = "OTHER"
    <3>1. /\ Pending(s, ts2, "GET_DEBUG_EVENT") = Pending(s, ts, "GET_DEBUG_EVENT")
          /\ Pending(s, ts2, "CONTINUE_AFTER_EVENT") = Pending(s, ts, "CONTINUE_AFTER_EVENT")
          /\ Pending(s, ts2, "STOPPED_AT_DEBUG_EVENT") = Pending(s, ts, "STOPPED_AT_DEBUG_EVENT")
          /\ Pending(s, ts2, "APPCALL") = Pending(s, ts, "APPCALL")
          /\ Pending(s, ts2, "OTHER") = 1
        BY <1>5, <1>7, <2>2 DEF One
    <3> QED BY <1>8, <3>1 DEF OneAtATime
  <2> QED BY <2>1, <2>2 DEF Main
<1>11. MainWhenIdle(s, ts2)
  <2> SUFFICES ASSUME NEW m \in Main, Count(ts2, Coded(m)) >= 1
               PROVE  s.frames = << >> /\ Count(ts2, Coded("OTHER")) = 0
      BY DEF MainWhenIdle
  <2>1. m # "OTHER" /\ m \in Requests
      BY DEF Main
  <2>2. CASE r \in Main
    <3>1. s.frames = << >> /\ Count(ts, Coded("OTHER")) = 0
        BY <1>9, <2>2 DEF Requests
    <3>2. r # "OTHER"
        BY <2>2 DEF Main
    <3>3. Count(ts2, Coded("OTHER")) = Count(ts, Coded("OTHER")) + One("OTHER" = r)
        BY <1>4
    <3> QED BY <3>1, <3>2, <3>3 DEF One
  <2>3. CASE r = "OTHER"
    <3>1. Count(ts2, Coded(m)) = Count(ts, Coded(m)) + One(m = r) /\ Count(ts, Coded(m)) \in Nat
        BY <1>4
    <3>2. Count(ts, Coded(m)) >= 1
        BY <2>1, <2>3, <3>1 DEF One
    <3> QED BY <2>3, <3>2
  <2> QED BY <2>2, <2>3 DEF Main
<1>12. AnswersExpected(s, ts2)
  <2>1. CASE r \in Main
    <3>1. Pending(s, ts2, "OTHER") = Pending(s, ts, "OTHER")
        BY <1>5, <2>1 DEF One, Main
    <3> QED BY <1>4, <1>8, <3>1 DEF AnswersExpected
  <2>2. CASE r = "OTHER"
      BY <1>4, <1>8, <2>2 DEF AnswersExpected
  <2> QED BY <2>1, <2>2 DEF Main
<1>13. GoodbyeLast(s, ts2)
  <2>1. \A i \in 1 .. Len(ts) : ts[i] \notin AnswersTo("CLOSE")
      BY DEF Connected
  <2>2. p \notin AnswersTo("CLOSE")
      BY <1>1 DEF AnswersTo, Requests
  <2>3. \A i \in 1 .. Len(ts2) : ts2[i] \notin AnswersTo("CLOSE")
      BY <1>3, <2>1, <2>2
  <2> QED BY <2>3 DEF GoodbyeLast
<1>14. ToServerOK(ts2)
    BY <1>1, <1>3, <1>8 DEF ToServerOK
<1>15. EventsInOrder(s, ts2, c.told)
  <2>1. CASE r \in Main
    <3>1. /\ s.got = c.told /\ Polls(s) = 0 /\ (r = "GET_DEBUG_EVENT" => ~s.in_event)
          /\ Pending(s, ts, "GET_DEBUG_EVENT") = 0
        BY <1>9, <2>1 DEF Requests
    <3>2. Pending(s, ts2, "GET_DEBUG_EVENT") + Polls(s) >= 1 => ~s.in_event
        BY <1>5, <3>1 DEF One
    <3> QED BY <1>8, <3>1, <3>2 DEF EventsInOrder
  <2>2. CASE r = "OTHER"
    <3>1. /\ Pending(s, ts2, "GET_DEBUG_EVENT") = Pending(s, ts, "GET_DEBUG_EVENT")
          /\ Pending(s, ts2, "CONTINUE_AFTER_EVENT") = Pending(s, ts, "CONTINUE_AFTER_EVENT")
          /\ Count(ts2, Coded("APPCALL")) = Count(ts, Coded("APPCALL"))
          /\ Count(ts2, AnswersTo("HANDLE_DEBUG_EVENT")) = Count(ts, AnswersTo("HANDLE_DEBUG_EVENT"))
        BY <1>4, <1>5, <2>2 DEF One
    <3> QED BY <1>8, <3>1 DEF EventsInOrder
  <2> QED BY <2>1, <2>2 DEF Main
<1>16. ServerInv(s, ts2, c.told)
    BY <1>8, <1>10, <1>11, <1>12, <1>13, <1>14, <1>15 DEF ServerInv
<1> QED BY <1>16 DEF ts2, p

-----------------------------------------------------------------------------
(* The client asks *)

\* The shape of the client's stack with one more call.
LEMMA CallsAdd ==
    ASSUME NEW c, c \in ClientState, NEW c2, NEW r, r \in Requests \cup Callbacks,
           c2.calls = Append(c.calls, r), InCalls(c, r) = 0
    PROVE  /\ \A x : InCalls(c2, x) = InCalls(c, x) + One(x = r)
           /\ Len(c2.calls) = Len(c.calls) + 1 /\ Len(c.calls) \in Nat
           /\ \A i \in 1 .. Len(c.calls) : c2.calls[i] = c.calls[i]
           /\ c2.calls[Len(c.calls) + 1] = r
<1>1. c.calls \in Seq(Requests \cup Callbacks)
    BY ClientTyped
<1> QED BY <1>1, CallsAppend

\* The client asks for something.
LEMMA AskGood ==
    ASSUME NEW s, NEW ts, NEW tc, NEW c, Good(s, ts, tc, c), net = "up", NEW r \in Requests,
           NEW c2 \in ClientState, c2.calls = Append(c.calls, r), c2.held = c.held,
           c2.pending = c.pending, c2.polling = c.polling, c2.told = c.told, c2.gone = c.gone,
           CallsShape(c2.calls),
           InCalls(c, r) = 0,
           r \in Main => /\ c.calls = << >> /\ ~c.polling
                         /\ r = "GET_DEBUG_EVENT" => c.held = 0 /\ c.pending = 0
                         /\ r # "GET_DEBUG_EVENT" => c.held # 0,
           r = "OTHER" => /\ Count(ts, AnswersTo("SET_DEBUG_NAMES")) = 0
                          /\ Count(ts, AnswersTo("HANDLE_DEBUG_EVENT")) = 0
                          /\ \A m \in Main : ~(Count(ts, Coded(m)) >= 1)
    PROVE  Good(s, Append(ts, Bare(r)), tc, c2)
<1> DEFINE p == Bare(r)
           ts2 == Append(ts, p)
<1>1. /\ s \in Server /\ ts \in Seq(Packet) /\ tc \in Seq(Packet) /\ c \in ClientState
      /\ c.told \in Nat /\ ServerInv(s, ts, c.told) /\ Connected(s, ts, tc, c)
    BY GoodFacts
<1>2. p \in Packet /\ p.code = r
    BY PacketsTyped
<1>3. ts2 \in Seq(Packet) /\ CallAdded(ts, ts2, p)
  <2>1. p.code # "OK"
      BY <1>2 DEF Requests
  <2> QED BY <1>1, <1>2, <2>1, AppendCounts, CallSent
<1>4. ServerInv(s, ts2, c.told)
    BY <1>1, AskServer
<1>5. /\ Len(ts2) = Len(ts) + 1 /\ Len(ts) \in Nat
      /\ \A i \in 1 .. Len(ts) : ts2[i] = ts[i]
      /\ ts2[Len(ts) + 1] = p
      /\ \A i \in 1 .. Len(ts2) : i \in 1 .. Len(ts) \/ i = Len(ts) + 1
    BY <1>1, <1>2, AppendProperties, LenProperties
<1> HIDE DEF p, ts2
<1>6. /\ c.calls \in Seq(Requests \cup Callbacks) /\ r \in Requests \cup Callbacks
      /\ Append(c.calls, r) \in Seq(Requests \cup Callbacks)
    BY <1>1, ClientTyped, AppendProperties
<1>8. \A x : InCalls(c2, x) = InCalls(c, x) + One(x = r)
    BY <1>1, <1>6, CallsAdd
<1>9. /\ \A x : Count(ts2, AnswersTo(x)) = Count(ts, AnswersTo(x))
      /\ \A x : Count(ts2, Coded(x)) = Count(ts, Coded(x)) + One(x = r)
  <2>1. \A x : One(p.code = x) = One(x = r)
      BY <1>2 DEF One
  <2> QED BY <1>3, <2>1 DEF CallAdded
<1>10. Conserved(s, ts2, tc, c2)
  <2>1. ASSUME NEW x \in Requests PROVE Balanced(s, ts2, tc, c2, x)
    <3>1. InCalls(c, x) = Count(ts, Coded(x)) + Performs(s, x) + Count(tc, AnswersTo(x))
        BY <1>1 DEF Connected, Conserved, Balanced, Pending
    <3>2. /\ Performs(s, x) \in Nat /\ Count(ts, Coded(x)) \in Nat /\ One(x = r) \in Nat
          /\ Count(tc, AnswersTo(x)) \in Nat
          /\ Count(ts2, Coded(x)) = Count(ts, Coded(x)) + One(x = r)
          /\ InCalls(c2, x) = InCalls(c, x) + One(x = r)
      <4>1. Performs(s, x) \in Nat
          BY <1>1, StackCounts
      <4>2. Count(ts, Coded(x)) \in Nat /\ Count(tc, AnswersTo(x)) \in Nat
          BY <1>1, CountsNat
      <4>3. One(x = r) \in Nat
          BY DEF One
      <4>4. /\ Count(ts2, Coded(x)) = Count(ts, Coded(x)) + One(x = r)
            /\ InCalls(c2, x) = InCalls(c, x) + One(x = r)
          BY <1>8, <1>9
      <4> QED BY <4>1, <4>2, <4>3, <4>4
    <3>3. InCalls(c2, x) = (Count(ts2, Coded(x)) + Performs(s, x)) + Count(tc, AnswersTo(x))
        BY <3>1, <3>2
    <3> QED BY <3>3 DEF Balanced, Pending
  <2>2. ASSUME NEW b \in Callbacks PROVE Awaited(s, ts2, tc, c2, b)
    <3>1. Awaited(s, ts, tc, c, b)
        BY <1>1 DEF Connected, Conserved
    <3>2. b # r
        BY DEF Callbacks, Requests
    <3>3. InCalls(c2, b) = InCalls(c, b) + One(b = r) /\ InCalls(c, b) \in Nat
        BY <1>8 DEF InCalls, One
    <3>4. InCalls(c2, b) = InCalls(c, b)
        BY <3>2, <3>3 DEF One
    <3> QED BY <1>9, <3>1, <3>4 DEF Awaited
  <2> QED BY <2>1, <2>2 DEF Conserved
<1>11. Stage(c2)
  <2>1. Stage(c) /\ CallsTyped(c)
      BY <1>1, CallsNumbers DEF Connected
  <2>2. CASE r \in Main
    <3>1. \A x : InCalls(c2, x) = One(x = r)
        BY <1>8, <2>2, CallsNone DEF One
    <3>2. CASE r = "GET_DEBUG_EVENT"
      <4>1. /\ InCalls(c2, "GET_DEBUG_EVENT") = 1 /\ InCalls(c2, "CONTINUE_AFTER_EVENT") = 0
            /\ InCalls(c2, "STOPPED_AT_DEBUG_EVENT") = 0 /\ InCalls(c2, "APPCALL") = 0
          BY <3>1, <3>2 DEF One
      <4>2. One(c2.polling) = 0 /\ One(c2.pending # 0) = 0 /\ One(c2.held # 0) = 0
          BY <2>2, <3>2 DEF One
      <4> QED BY <4>1, <4>2 DEF Stage
    <3>3. CASE r # "GET_DEBUG_EVENT"
      <4>1. InCalls(c2, "GET_DEBUG_EVENT") = 0 /\ InCalls(c, "GET_DEBUG_EVENT") = 0
          BY <2>2, <3>1, <3>3, CallsNone DEF One
      <4>2. c2.held # 0
          BY <2>2, <3>3
      <4> QED BY <2>1, <4>1, <4>2 DEF Stage
    <3> QED BY <3>2, <3>3
  <2>3. CASE r = "OTHER"
    <3>1. /\ InCalls(c2, "GET_DEBUG_EVENT") = InCalls(c, "GET_DEBUG_EVENT")
          /\ InCalls(c2, "CONTINUE_AFTER_EVENT") = InCalls(c, "CONTINUE_AFTER_EVENT")
          /\ InCalls(c2, "STOPPED_AT_DEBUG_EVENT") = InCalls(c, "STOPPED_AT_DEBUG_EVENT")
          /\ InCalls(c2, "APPCALL") = InCalls(c, "APPCALL")
        BY <1>8, <2>1, <2>3 DEF One, CallsTyped
    <3> QED BY <2>1, <3>1 DEF Stage
  <2> QED BY <2>2, <2>3 DEF Main
<1>12. Cycle(s, tc, c2)
    BY <1>1 DEF Connected, Cycle
<1>13. \A i \in 1 .. Len(ts2) : ts2[i] \notin AnswersTo("CLOSE")
  <2>1. \A i \in 1 .. Len(ts) : ts[i] \notin AnswersTo("CLOSE")
      BY <1>1 DEF Connected
  <2>2. p \notin AnswersTo("CLOSE")
      BY <1>2 DEF AnswersTo, Requests
  <2> QED BY <1>5, <2>1, <2>2
<1>14. Connected(s, ts2, tc, c2)
    BY <1>1, <1>10, <1>11, <1>12, <1>13 DEF Connected
<1>15. Good(s, ts2, tc, c2)
    BY <1>1, <1>3, <1>4, <1>14, ClientGood
<1> QED BY <1>15 DEF ts2, p

\* The client's program is where its steps need it to be only while the connection lasts.
LEMMA ClientUp ==
    ASSUME IInv, Idle \/ Waiting \/ Answering
    PROVE  net = "up" /\ Connected(srv, toServer, toClient, cl)
<1>1. net # "down"
  <2> SUFFICES ASSUME net = "down" PROVE FALSE
      OBVIOUS
  <2>1. Disconnected(srv, toServer, toClient, cl)
      BY Basics, GoodFacts
  <2> QED BY <2>1 DEF Disconnected, Idle, Waiting, Answering
<1> QED BY <1>1, Basics, GoodFacts

\* A request of the client keeps the invariant if it fits on both sides.
LEMMA AsksGood ==
    ASSUME IInv, NEW r \in Requests, Asks(r), net = "up",
           CallsShape(Append(cl.calls, r)), InCalls(cl, r) = 0,
           r \in Main => /\ cl.calls = << >> /\ ~cl.polling
                         /\ r = "GET_DEBUG_EVENT" => cl.held = 0 /\ cl.pending = 0
                         /\ r # "GET_DEBUG_EVENT" => cl.held # 0,
           r = "OTHER" => /\ Count(toServer, AnswersTo("SET_DEBUG_NAMES")) = 0
                          /\ Count(toServer, AnswersTo("HANDLE_DEBUG_EVENT")) = 0
                          /\ \A m \in Main : ~(Count(toServer, Coded(m)) >= 1)
    PROVE  Good(srv, toServer, toClient, cl)'
<1>1. /\ cl' = [cl EXCEPT !.calls = Append(@, r)] /\ toServer' = Append(toServer, Bare(r))
      /\ srv' = srv /\ toClient' = toClient /\ net' = net /\ made' = made
    BY DEF Asks
<1>2. /\ cl' \in ClientState /\ cl'.calls = Append(cl.calls, r) /\ cl'.held = cl.held
      /\ cl'.pending = cl.pending /\ cl'.polling = cl.polling /\ cl'.told = cl.told
      /\ cl'.gone = cl.gone
  <2>1. cl \in ClientState
      BY Basics
  <2>2. cl.calls \in Seq(Requests \cup Callbacks) /\ r \in Requests \cup Callbacks
      BY <2>1, ClientTyped
  <2>3. Append(cl.calls, r) \in Seq(Requests \cup Callbacks)
      BY <2>2, AppendProperties
  <2> QED BY <1>1, <2>1, <2>3 DEF ClientState
<1>3. Good(srv, Append(toServer, Bare(r)), toClient, cl')
    BY <1>1, <1>2, Basics, AskGood
<1>4. made' >= made /\ made' \in Nat
    BY <1>1, Basics
<1> QED BY <1>1, <1>3, <1>4, Basics, GoodPrimed

\* The client asks while it does nothing else.
LEMMA IdleAsks ==
    ASSUME IInv, Idle, NEW r \in Requests, Asks(r),
           r \in Main => /\ ~cl.polling
                         /\ r = "GET_DEBUG_EVENT" => cl.held = 0 /\ cl.pending = 0
                         /\ r # "GET_DEBUG_EVENT" => cl.held # 0
    PROVE  Good(srv, toServer, toClient, cl)'
<1>1. cl.calls = << >> /\ net = "up" /\ Connected(srv, toServer, toClient, cl)
    BY ClientUp DEF Idle
<1>2. \A x : InCalls(cl, x) = 0
    BY <1>1, CallsNone
<1>3. Flowing(srv, toServer, toClient, cl)
    BY <1>1, Basics, Flows DEF Connected
<1>4. \A x \in Requests : Performs(srv, x) = 0 /\ Count(toServer, Coded(x)) = 0
    BY <1>2, <1>3, FlowOut
<1>5. Count(toServer, AnswersTo("SET_DEBUG_NAMES")) = 0 /\ Count(toServer, AnswersTo("HANDLE_DEBUG_EVENT")) = 0
  <2>1. Performs(srv, "STOPPED_AT_DEBUG_EVENT") = 0 /\ Performs(srv, "APPCALL") = 0
      BY <1>4 DEF Requests
  <2>2. Waits(srv, "SET_DEBUG_NAMES") = 0 /\ Waits(srv, "HANDLE_DEBUG_EVENT") = 0
      BY <2>1, Basics, GoodFacts, WaitsOnce
  <2> QED BY <1>3, <2>2, FlowOut DEF Callbacks
<1>6. \A m \in Main : ~(Count(toServer, Coded(m)) >= 1)
    BY <1>4 DEF Main
<1>7. CallsShape(Append(cl.calls, r))
  <2> DEFINE q == Append(<< >>, r)
  <2>1. Len(q) = 1 /\ q[1] = r
      OBVIOUS
  <2> HIDE DEF q
  <2>2. CallsShape(q)
      BY <2>1 DEF CallsShape
  <2> QED BY <1>1, <2>2 DEF q
<1> QED BY <1>1, <1>2, <1>5, <1>6, <1>7, AsksGood

\* The client's stack has at most four calls.
LEMMA UpToFour == \A n \in Nat \ {0} : n <= 4 => n \in {1, 2, 3, 4}
    OBVIOUS

\* The client at work on a callback about names or events has asked for nothing
\* else, and no answer to either callback is on its way.
LEMMA InCallback ==
    ASSUME NEW s, NEW ts, NEW tc, NEW c, Good(s, ts, tc, c), Connected(s, ts, tc, c),
           c.calls # << >>, TopOf(c.calls) \in {"SET_DEBUG_NAMES", "HANDLE_DEBUG_EVENT"}
    PROVE  /\ Len(c.calls) = 2 /\ c.calls[1] \in {"STOPPED_AT_DEBUG_EVENT", "APPCALL"}
           /\ c.calls[2] = TopOf(c.calls)
           /\ TopOf(c.calls) = "SET_DEBUG_NAMES" => c.calls[1] = "STOPPED_AT_DEBUG_EVENT"
           /\ TopOf(c.calls) = "HANDLE_DEBUG_EVENT" => c.calls[1] = "APPCALL"
           /\ InCalls(c, "OTHER") = 0
           /\ Waits(s, TopOf(c.calls)) = 1 /\ s.frames # << >>
           /\ Count(ts, AnswersTo("SET_DEBUG_NAMES")) = 0
           /\ Count(ts, AnswersTo("HANDLE_DEBUG_EVENT")) = 0
           /\ Count(tc, Coded("SET_DEBUG_NAMES")) = 0
           /\ Count(tc, Coded("HANDLE_DEBUG_EVENT")) = 0
<1> DEFINE b == TopOf(c.calls)
<1>1. /\ s \in Server /\ ts \in Seq(Packet) /\ tc \in Seq(Packet) /\ c \in ClientState
      /\ StackShape(s)
    BY GoodFacts
<1>2. CallsShape(c.calls) /\ Conserved(s, ts, tc, c)
    BY DEF Connected
<1>3. Len(c.calls) \in Nat \ {0} /\ b = c.calls[Len(c.calls)]
    BY <1>1, ClientTyped, Popping DEF TopOf
<1>4. Len(c.calls) \in {1, 2, 3, 4}
  <2>1. Len(c.calls) <= 4
      BY <1>2 DEF CallsShape
  <2> QED BY <1>3, <2>1, UpToFour
<1>5. Len(c.calls) = 2
    BY <1>2, <1>3, <1>4 DEF CallsShape, Requests
<1>6. /\ c.calls[2] = b /\ c.calls[1] \in {"STOPPED_AT_DEBUG_EVENT", "APPCALL"}
      /\ b = "SET_DEBUG_NAMES" => c.calls[1] = "STOPPED_AT_DEBUG_EVENT"
      /\ b = "HANDLE_DEBUG_EVENT" => c.calls[1] = "APPCALL"
    BY <1>2, <1>3, <1>5 DEF CallsShape
<1>7. InCalls(c, "OTHER") = 0 /\ InCalls(c, b) = 1
  <2>1. \A i \in 1 .. Len(c.calls) : i = 1 \/ i = 2
      BY <1>5
  <2>2. 2 \in 1 .. Len(c.calls)
      BY <1>5
  <2> QED BY <1>6, <2>1, <2>2 DEF InCalls, One
<1>8. Flowing(s, ts, tc, c)
    BY <1>1, <1>2, Flows
<1>9. b \in Callbacks
    BY DEF Callbacks
<1> HIDE DEF b
<1>10. Waits(s, b) \in {0, 1} /\ (\A x \in {"SET_DEBUG_NAMES", "HANDLE_DEBUG_EVENT"} : x # b => Waits(s, b) + Waits(s, x) <= 1 /\ Waits(s, x) \in {0, 1})
    BY <1>1, WaitsOnce DEF b
<1>11. Waits(s, b) = 1
  <2>1. ~(Waits(s, b) = 0)
      BY <1>7, <1>8, <1>9, FlowOut
  <2> QED BY <1>10, <2>1
<1>12. \A x \in {"SET_DEBUG_NAMES", "HANDLE_DEBUG_EVENT"} : x # b => Waits(s, x) = 0
    BY <1>10, <1>11
<1>13. \A x \in {"SET_DEBUG_NAMES", "HANDLE_DEBUG_EVENT"} :
          Count(ts, AnswersTo(x)) = 0 /\ Count(tc, Coded(x)) = 0
  <2> SUFFICES ASSUME NEW x \in {"SET_DEBUG_NAMES", "HANDLE_DEBUG_EVENT"}
               PROVE  Count(ts, AnswersTo(x)) = 0 /\ Count(tc, Coded(x)) = 0
      OBVIOUS
  <2>1. x \in Callbacks
      BY DEF Callbacks
  <2>2. CASE x = b
      BY <1>7, <1>8, <1>9, <1>11, <2>2, FlowOut
  <2>3. CASE x # b
      BY <1>8, <1>12, <2>1, <2>3, FlowOut
  <2> QED BY <2>2, <2>3
<1>14. s.frames # << >>
  <2> SUFFICES ASSUME s.frames = << >> PROVE FALSE
      OBVIOUS
  <2>1. Len(s.frames) = 0
      BY EmptySeq
  <2> QED BY <1>11, <2>1 DEF Waits, One
<1> QED BY <1>5, <1>6, <1>7, <1>11, <1>13, <1>14 DEF b

\* ClientGetEvent keeps the invariant.
LEMMA GetEventGood ==
    ASSUME IInv, ClientGetEvent
    PROVE  Good(srv, toServer, toClient, cl)'
<1>1. "GET_DEBUG_EVENT" \in Requests
    BY DEF Requests
<1>2. Idle /\ Asks("GET_DEBUG_EVENT") /\ cl.held = 0 /\ cl.pending = 0 /\ ~cl.polling
    BY DEF ClientGetEvent
<1> QED BY <1>1, <1>2, IdleAsks

\* While the user holds an event the client does not poll.
LEMMA HeldAlone ==
    ASSUME IInv, net = "up", cl.held # 0
    PROVE  /\ InCalls(cl, "GET_DEBUG_EVENT") = 0 /\ ~cl.polling /\ cl.pending = 0
<1>1. Stage(cl) /\ CallsTyped(cl) /\ cl.polling \in BOOLEAN
    BY Basics, GoodFacts, CallsNumbers, ClientTyped DEF Connected
<1>2. One(cl.held # 0) = 1 /\ One(cl.polling) \in Nat /\ One(cl.pending # 0) \in Nat
    BY DEF One
<1>3. InCalls(cl, "GET_DEBUG_EVENT") \in Nat
    BY <1>1 DEF CallsTyped
<1>4. InCalls(cl, "GET_DEBUG_EVENT") = 0 /\ One(cl.polling) = 0 /\ One(cl.pending # 0) = 0
    BY <1>1, <1>2, <1>3 DEF Stage
<1> QED BY <1>4 DEF One

\* ClientContinues keeps the invariant.
LEMMA ContinuesGood ==
    ASSUME IInv, ClientContinues
    PROVE  Good(srv, toServer, toClient, cl)'
<1>1. "CONTINUE_AFTER_EVENT" \in Requests
    BY DEF Requests
<1>2. Idle /\ Asks("CONTINUE_AFTER_EVENT") /\ cl.held # 0
    BY DEF ClientContinues
<1>3. ~cl.polling
    BY <1>2, ClientUp, HeldAlone
<1> QED BY <1>1, <1>2, <1>3, IdleAsks

\* A request from within a callback keeps the invariant.
LEMMA CallsBackGood ==
    ASSUME IInv, CallsBack, Asks("OTHER")
    PROVE  Good(srv, toServer, toClient, cl)'
<1>1. net = "up" /\ Connected(srv, toServer, toClient, cl)
    BY ClientUp DEF CallsBack
<1>2. cl.calls # << >> /\ TopOf(cl.calls) \in {"SET_DEBUG_NAMES", "HANDLE_DEBUG_EVENT"}
    BY DEF CallsBack, Answering, Callbacks
<1>3. /\ Len(cl.calls) = 2 /\ cl.calls[1] \in {"STOPPED_AT_DEBUG_EVENT", "APPCALL"}
      /\ cl.calls[2] = TopOf(cl.calls)
      /\ InCalls(cl, "OTHER") = 0 /\ srv.frames # << >>
      /\ Count(toServer, AnswersTo("SET_DEBUG_NAMES")) = 0
      /\ Count(toServer, AnswersTo("HANDLE_DEBUG_EVENT")) = 0
    BY <1>1, <1>2, Basics, InCallback
<1>4. \A m \in Main : ~(Count(toServer, Coded(m)) >= 1)
  <2>1. MainWhenIdle(srv, toServer)
      BY Basics, GoodFacts
  <2> QED BY <1>3, <2>1 DEF MainWhenIdle
<1>5. CallsShape(Append(cl.calls, "OTHER"))
  <2> DEFINE q == Append(cl.calls, "OTHER")
  <2>1. cl.calls \in Seq(Requests \cup Callbacks) /\ "OTHER" \in Requests \cup Callbacks
      BY Basics, ClientTyped DEF Requests
  <2>2. /\ Len(q) = 3 /\ q[1] = cl.calls[1] /\ q[2] = cl.calls[2] /\ q[3] = "OTHER"
    <3>1. /\ Len(q) = Len(cl.calls) + 1 /\ q[Len(cl.calls) + 1] = "OTHER"
          /\ \A i \in 1 .. Len(cl.calls) : q[i] = cl.calls[i]
        BY <2>1, AppendProperties
    <3> HIDE DEF q
    <3>2. 1 \in 1 .. Len(cl.calls) /\ 2 \in 1 .. Len(cl.calls)
        BY <1>3
    <3> QED BY <1>3, <3>1, <3>2
  <2> HIDE DEF q
  <2>3. CallsShape(cl.calls)
      BY <1>1 DEF Connected
  <2>4. /\ q[1] \in Requests /\ q[2] \in Callbacks /\ q[2] # "MSG"
        /\ q[2] = "SET_DEBUG_NAMES" => q[1] = "STOPPED_AT_DEBUG_EVENT"
        /\ q[2] = "HANDLE_DEBUG_EVENT" => q[1] = "APPCALL"
      BY <1>2, <1>3, <2>2, <2>3 DEF CallsShape
  <2>5. CallsShape(q)
      BY <2>2, <2>4 DEF CallsShape
  <2> QED BY <2>5 DEF q
<1>6. "OTHER" \in Requests /\ "OTHER" \notin Main
    BY DEF Requests, Main
<1> QED BY <1>1, <1>3, <1>4, <1>5, <1>6, AsksGood

\* ClientExtra keeps the invariant.
LEMMA ExtraGood ==
    ASSUME IInv, ClientExtra
    PROVE  Good(srv, toServer, toClient, cl)'
<1>1. CASE Idle /\ cl.held # 0 /\ \E r \in {"STOPPED_AT_DEBUG_EVENT", "APPCALL"} : Asks(r)
  <2>1. PICK r \in {"STOPPED_AT_DEBUG_EVENT", "APPCALL"} : Asks(r)
      BY <1>1
  <2>2. r \in Requests /\ r # "GET_DEBUG_EVENT"
      BY DEF Requests
  <2>3. ~cl.polling
      BY <1>1, ClientUp, HeldAlone
  <2> QED BY <1>1, <2>1, <2>2, <2>3, IdleAsks
<1>2. CASE Idle /\ Asks("OTHER")
  <2>1. "OTHER" \in Requests /\ "OTHER" \notin Main
      BY DEF Requests, Main
  <2> QED BY <1>2, <2>1, IdleAsks
<1>3. CASE CallsBack /\ Asks("OTHER")
    BY <1>3, CallsBackGood
<1> QED BY <1>1, <1>2, <1>3 DEF ClientExtra

-----------------------------------------------------------------------------
(* The client reads an answer *)

\* The user takes the event that RPC_EVENT brought.
LEMMA TakenGood ==
    ASSUME NEW s, NEW ts, NEW tc, NEW c, Good(s, ts, tc, c), Connected(s, ts, tc, c), net = "up",
           c.pending # 0, NEW c2 \in ClientState, c2.calls = c.calls, c2.held = c.pending,
           c2.pending = 0, c2.polling = c.polling, c2.told = c.told, c2.gone = c.gone
    PROVE  Good(s, ts, tc, c2)
<1>1. /\ s \in Server /\ ts \in Seq(Packet) /\ tc \in Seq(Packet) /\ c \in ClientState
      /\ ServerInv(s, ts, c.told)
    BY GoodFacts
<1>3. \A x : InCalls(c2, x) = InCalls(c, x)
    BY DEF InCalls
<1>4. Conserved(s, ts, tc, c2)
    BY <1>3 DEF Connected, Conserved, Balanced, Awaited
<1>5. One(c.pending # 0) = 1 /\ One(c2.pending # 0) = 0 /\ One(c2.held # 0) = 1
    BY DEF One
<1>6. Stage(c2)
  <2>1. Stage(c) /\ CallsTyped(c)
      BY CallsNumbers DEF Connected
  <2>2. InCalls(c2, "GET_DEBUG_EVENT") = 0 /\ One(c2.polling) = 0
      BY <1>3, <1>5, <2>1 DEF Stage, CallsTyped
  <2>3. c2.held # 0
      OBVIOUS
  <2> QED BY <1>5, <2>2, <2>3 DEF Stage
<1>7. Cycle(s, tc, c2)
  <2>1. Cycle(s, tc, c)
      BY DEF Connected
  <2>2. One(c.held # 0) \in {0, 1} /\ Count(tc, Full) \in Nat /\ Count(tc, Coded("EVENT")) \in Nat
      BY <1>1, CountsNat DEF One
  <2>3. Count(tc, Full) + Count(tc, Coded("EVENT")) + One(c2.pending # 0) + One(c2.held # 0) >= 1
      BY <1>5, <2>2
  <2> QED BY <2>1, <2>3 DEF Cycle
<1>8. Connected(s, ts, tc, c2)
    BY <1>4, <1>6, <1>7 DEF Connected
<1>9. ServerInv(s, ts, c2.told)
    BY <1>1
<1> QED BY <1>1, <1>8, <1>9, ClientGood

\* ClientTakesEvent keeps the invariant.
LEMMA TakesEventGood ==
    ASSUME IInv, ClientTakesEvent
    PROVE  Good(srv, toServer, toClient, cl)'
<1>1. /\ Idle /\ cl.pending # 0 /\ cl' = [cl EXCEPT !.held = cl.pending, !.pending = 0]
      /\ srv' = srv /\ toServer' = toServer /\ toClient' = toClient /\ net' = net /\ made' = made
    BY DEF ClientTakesEvent
<1>2. net = "up" /\ Connected(srv, toServer, toClient, cl)
    BY <1>1, ClientUp
<1>5. /\ cl' \in ClientState /\ cl'.calls = cl.calls /\ cl'.held = cl.pending
      /\ cl'.pending = 0 /\ cl'.polling = cl.polling /\ cl'.told = cl.told /\ cl'.gone = cl.gone
    BY <1>1, Basics DEF ClientState
<1>3. Good(srv, toServer, toClient, cl')
    BY <1>1, <1>2, <1>5, Basics, TakenGood
<1>4. made' >= made /\ made' \in Nat
    BY <1>1, Basics
<1> QED BY <1>1, <1>3, <1>4, Basics, GoodPrimed

\* The client reads a packet.
LEMMA ReadFacts ==
    ASSUME NEW tc \in Seq(Packet), tc # << >>, NEW got \in Nat, ToClientOK(tc, got),
           AnswerFirst(tc), Count(tc, AnswersTo("GET_DEBUG_EVENT")) <= 1,
           NEW told \in Nat, got \in {told, told + 1}
    PROVE  /\ Tail(tc) \in Seq(Packet) /\ Head(tc) \in Packet
           /\ \A S : /\ Count(tc, S) = Count(Tail(tc), S) + One(Head(tc) \in S)
                     /\ Count(tc, S) \in Nat /\ Count(Tail(tc), S) \in Nat
           /\ ToClientOK(Tail(tc), got) /\ AnswerFirst(Tail(tc))
           /\ Head(tc) \in News => Head(tc).n = got
           /\ Head(tc).n # 0 => Head(tc) \in News
           /\ Head(tc) \in News => (IF Head(tc).n = 0 THEN told ELSE Head(tc).n) = got
           /\ Head(tc).code \in Callbacks \cup {"EVENT"} \/ (Head(tc).code = "OK" /\ Head(tc).re \in Requests)
           /\ Count(tc, AnswersTo("GET_DEBUG_EVENT")) >= 1 =>
                 Head(tc) \in AnswersTo("GET_DEBUG_EVENT")
<1> DEFINE h == Head(tc)
           t == Tail(tc)
<1>1. /\ t \in Seq(Packet) /\ h \in Packet /\ h = tc[1] /\ Len(tc) \in Nat \ {0}
      /\ \A i \in 1 .. Len(t) : t[i] = tc[i + 1] /\ i + 1 \in 1 .. Len(tc)
      /\ \A S : Count(tc, S) = Count(t, S) + One(h \in S)
    BY TailFacts
<1>2. 1 \in 1 .. Len(tc)
    BY <1>1
<1> HIDE DEF h, t
<1>3. \A S : Count(tc, S) \in Nat /\ Count(t, S) \in Nat
    BY <1>1, CountsNat
<1>4. ToClientOK(t, got)
    BY <1>1 DEF ToClientOK
<1>5. /\ h \in News => h.n = got
      /\ h.n # 0 => h \in News
      /\ h.code \in Callbacks \cup {"EVENT"} \/ (h.code = "OK" /\ h.re \in Requests)
    BY <1>1, <1>2 DEF ToClientOK
<1>6. h \in News => (IF h.n = 0 THEN told ELSE h.n) = got
  <2>1. got = 0 => told = got
      OBVIOUS
  <2> QED BY <1>5, <2>1
<1>7. Count(tc, AnswersTo("GET_DEBUG_EVENT")) >= 1 => h \in AnswersTo("GET_DEBUG_EVENT")
    BY <1>1 DEF AnswerFirst
<1>8. AnswerFirst(t)
  <2> DEFINE S == AnswersTo("GET_DEBUG_EVENT")
  <2>1. /\ Count(tc, S) = Count(t, S) + One(h \in S) /\ Count(tc, S) \in Nat /\ Count(t, S) \in Nat
        /\ Count(tc, S) <= 1 /\ (Count(tc, S) >= 1 => h \in S)
      BY <1>1, <1>3, <1>7
  <2> HIDE DEF S
  <2>2. h \in S => One(h \in S) = 1
      BY DEF One
  <2>3. h \notin S => One(h \in S) = 0
      BY DEF One
  <2>4. ~(Count(t, S) >= 1)
    <3>1. CASE h \in S
        BY <2>1, <2>2, <3>1
    <3>2. CASE h \notin S
        BY <2>1, <2>3, <3>2
    <3> QED BY <3>1, <3>2
  <2> QED BY <2>4 DEF AnswerFirst, S
<1> QED BY <1>1, <1>3, <1>4, <1>5, <1>6, <1>7, <1>8 DEF h, t

\* The answer the client reads is to the call on top of its stack.
LEMMA AnswerIsTop ==
    ASSUME NEW s, NEW ts, NEW tc, NEW c, Good(s, ts, tc, c), Connected(s, ts, tc, c),
           tc # << >>, Head(tc).code = "OK", c.calls = << >> \/ TopOf(c.calls) \in Requests
    PROVE  /\ c.calls # << >> /\ Head(tc).re = TopOf(c.calls) /\ TopOf(c.calls) \in Requests
           /\ Len(c.calls) \in {1, 3}
           /\ Len(c.calls) = 3 => /\ TopOf(c.calls) = "OTHER"
                                  /\ c.calls[1] \in {"STOPPED_AT_DEBUG_EVENT", "APPCALL"}
                                  /\ c.calls[2] \in {"SET_DEBUG_NAMES", "HANDLE_DEBUG_EVENT"}
           /\ Count(tc, AnswersTo(TopOf(c.calls))) = 1
<1> DEFINE h == Head(tc)
           r == h.re
           n == Len(c.calls)
<1>1. /\ s \in Server /\ ts \in Seq(Packet) /\ tc \in Seq(Packet) /\ c \in ClientState
      /\ StackShape(s)
    BY GoodFacts
<1>2. CallsShape(c.calls) /\ Conserved(s, ts, tc, c) /\ ToClientOK(tc, s.got)
    BY DEF Connected
<1>3. /\ h \in Packet /\ h = tc[1] /\ Len(tc) \in Nat \ {0}
      /\ \A S : Count(tc, S) = Count(Tail(tc), S) + One(h \in S)
      /\ Tail(tc) \in Seq(Packet)
    BY <1>1, TailFacts
<1>4. r \in Requests
  <2>1. 1 \in 1 .. Len(tc)
      BY <1>3
  <2> QED BY <1>2, <1>3, <2>1 DEF ToClientOK, Callbacks
<1>5. Count(tc, AnswersTo(r)) >= 1
  <2>1. h \in AnswersTo(r)
      BY <1>3 DEF AnswersTo
  <2>2. One(h \in AnswersTo(r)) = 1
      BY <2>1 DEF One
  <2>3. Count(tc, AnswersTo(r)) = Count(Tail(tc), AnswersTo(r)) + 1
      BY <1>3, <2>2
  <2>4. Count(Tail(tc), AnswersTo(r)) \in Nat
      BY <1>3, CountsNat
  <2> QED BY <2>3, <2>4
<1> HIDE DEF h, r
<1>6. Flowing(s, ts, tc, c)
    BY <1>1, <1>2, Flows
<1>7. InCalls(c, r) = 1 /\ Performs(s, r) = 0 /\ Count(tc, AnswersTo(r)) = 1
    BY <1>4, <1>5, <1>6, FlowOut
<1>8. PICK i \in 1 .. n : c.calls[i] = r
    BY <1>7 DEF InCalls, One
<1>9. c.calls # << >> /\ n \in Nat \ {0}
  <2>1. c.calls \in Seq(Requests \cup Callbacks)
      BY <1>1, ClientTyped
  <2>2. n \in Nat
      BY <2>1, LenProperties
  <2>3. n # 0
      BY <1>8, <2>2
  <2> QED BY <2>2, <2>3, EmptySeq
<1>10. TopOf(c.calls) = c.calls[n] /\ TopOf(c.calls) \in Requests
    BY <1>9 DEF TopOf
<1>11. n <= 4
    BY <1>2 DEF CallsShape
<1>12. n \in {1, 2, 3, 4}
    BY <1>9, <1>11, UpToFour
<1>13. n # 2 /\ n # 4
  <2>1. CASE n = 2
      BY <1>2, <1>10, <2>1 DEF CallsShape, Requests, Callbacks
  <2>2. CASE n = 4
      BY <1>2, <1>10, <2>2 DEF CallsShape, Requests
  <2> QED BY <2>1, <2>2
<1>14. CASE n = 1
  <2>1. i = 1
      BY <1>8, <1>14
  <2> QED BY <1>7, <1>8, <1>9, <1>10, <1>14, <2>1 DEF r, h
<1>15. CASE n = 3
  <2>1. /\ c.calls[1] \in {"STOPPED_AT_DEBUG_EVENT", "APPCALL"}
        /\ c.calls[2] \in {"SET_DEBUG_NAMES", "HANDLE_DEBUG_EVENT"} /\ c.calls[3] = "OTHER"
        /\ c.calls[2] = "SET_DEBUG_NAMES" => c.calls[1] = "STOPPED_AT_DEBUG_EVENT"
        /\ c.calls[2] = "HANDLE_DEBUG_EVENT" => c.calls[1] = "APPCALL"
      BY <1>2, <1>15 DEF CallsShape, Callbacks
  <2>2. InCalls(c, c.calls[2]) = 1 /\ c.calls[2] \in Callbacks
    <3>1. 2 \in 1 .. n
        BY <1>15
    <3> QED BY <2>1, <3>1 DEF InCalls, One, Callbacks
  <2>3. ~(Waits(s, c.calls[2]) = 0)
      BY <1>6, <2>2, FlowOut
  <2>4. Performs(s, c.calls[1]) >= 1
      BY <1>1, <2>1, <2>3, WaitsOnce
  <2>5. r # c.calls[1]
      BY <1>7, <2>4
  <2>6. r # c.calls[2]
      BY <1>4, <2>1 DEF Requests
  <2>7. r = c.calls[3]
    <3>1. i = 1 \/ i = 2 \/ i = 3
        BY <1>15
    <3> QED BY <1>8, <2>5, <2>6, <3>1
  <2> QED BY <1>7, <1>9, <1>10, <1>15, <2>1, <2>7 DEF r, h
<1> QED BY <1>12, <1>13, <1>14, <1>15

\* What a call that returns leaves on the client's stack.
LEMMA CallReturns ==
    ASSUME NEW s, NEW ts, NEW tc, NEW c, Good(s, ts, tc, c), Connected(s, ts, tc, c),
           tc # << >>, Head(tc).code = "OK", c.calls = << >> \/ TopOf(c.calls) \in Requests,
           NEW c2, c2.calls = Pop(c.calls)
    PROVE  /\ \A x : InCalls(c2, x) = InCalls(c, x) - One(x = TopOf(c.calls))
           /\ InCalls(c, TopOf(c.calls)) = 1
           /\ CallsShape(c2.calls)
           /\ TopOf(c.calls) # "OTHER" => \A x : InCalls(c2, x) = 0
<1>1. /\ c.calls # << >> /\ TopOf(c.calls) \in Requests
      /\ Len(c.calls) \in {1, 3}
      /\ Len(c.calls) = 3 => /\ TopOf(c.calls) = "OTHER"
                             /\ c.calls[1] \in {"STOPPED_AT_DEBUG_EVENT", "APPCALL"}
                             /\ c.calls[2] \in {"SET_DEBUG_NAMES", "HANDLE_DEBUG_EVENT"}
    BY AnswerIsTop
<1>2. c.calls \in Seq(Requests \cup Callbacks) /\ CallsShape(c.calls)
    BY GoodFacts, ClientTyped DEF Connected
<1>3. \A i \in 1 .. Len(c.calls) - 1 : c.calls[i] # TopOf(c.calls)
  <2>1. CASE Len(c.calls) = 1
      BY <2>1
  <2>2. CASE Len(c.calls) = 3
    <3>1. \A i \in 1 .. Len(c.calls) - 1 : i = 1 \/ i = 2
        BY <2>2
    <3> QED BY <1>1, <2>2, <3>1
  <2> QED BY <1>1, <2>1, <2>2
<1>4. /\ \A x : InCalls(c2, x) = InCalls(c, x) - One(x = TopOf(c.calls))
      /\ InCalls(c, TopOf(c.calls)) = 1
      /\ Len(c2.calls) = Len(c.calls) - 1 /\ Len(c.calls) \in Nat \ {0}
      /\ \A i \in 1 .. Len(c.calls) - 1 : c2.calls[i] = c.calls[i]
  <2>1. TopOnce(c)
      BY <1>1, <1>2, <1>3 DEF TopOnce
  <2>2. CallGone(c, c2)
      BY <2>1, CallsPop
  <2> QED BY <2>2 DEF CallGone
<1>5. CallsShape(c2.calls)
  <2>1. CASE Len(c.calls) = 1
    <3>1. Len(c2.calls) = 0
        BY <1>4, <2>1
    <3> QED BY <3>1 DEF CallsShape
  <2>2. CASE Len(c.calls) = 3
    <3>1. 1 \in 1 .. Len(c.calls) - 1 /\ 2 \in 1 .. Len(c.calls) - 1
        BY <2>2
    <3>2. Len(c2.calls) = 2 /\ c2.calls[1] = c.calls[1] /\ c2.calls[2] = c.calls[2]
        BY <1>4, <2>2, <3>1
    <3>3. /\ c.calls[1] \in Requests \cup {"MSG"} /\ c.calls[1] \in Requests /\ c.calls[2] \in Callbacks
          /\ c.calls[2] = "SET_DEBUG_NAMES" => c.calls[1] = "STOPPED_AT_DEBUG_EVENT"
          /\ c.calls[2] = "HANDLE_DEBUG_EVENT" => c.calls[1] = "APPCALL"
        BY <1>2, <2>2 DEF CallsShape
    <3> QED BY <3>2, <3>3 DEF CallsShape
  <2> QED BY <1>1, <2>1, <2>2
<1>6. ASSUME TopOf(c.calls) # "OTHER" PROVE \A x : InCalls(c2, x) = 0
  <2>1. Len(c2.calls) = 0
      BY <1>1, <1>4, <1>6
  <2> QED BY <2>1 DEF InCalls, One
<1> QED BY <1>4, <1>5, <1>6

\* An answer of the server leaves the stream and the stack at once.
LEMMA ReplyConserved ==
    ASSUME NEW s \in Server, NEW ts \in Seq(Packet), NEW tc \in Seq(Packet), tc # << >>, NEW c,
           NEW c2, NEW r \in Requests, Head(tc) \in Packet, Head(tc).code = "OK", Head(tc).re = r,
           Conserved(s, ts, tc, c), \A x : InCalls(c2, x) = InCalls(c, x) - One(x = r),
           \A S : Count(tc, S) = Count(Tail(tc), S) + One(Head(tc) \in S),
           \A S : Count(tc, S) \in Nat /\ Count(Tail(tc), S) \in Nat
    PROVE  Conserved(s, ts, Tail(tc), c2)
<1>1. /\ \A x : Head(tc) \in AnswersTo(x) <=> r = x
      /\ \A x : Head(tc) \in Coded(x) <=> x = "OK"
    BY AnswerClass
<1>2. ASSUME NEW x \in Requests PROVE Balanced(s, ts, Tail(tc), c2, x)
  <2>1. InCalls(c, x) = Pending(s, ts, x) + Count(tc, AnswersTo(x))
      BY DEF Conserved, Balanced
  <2>2. One(Head(tc) \in AnswersTo(x)) = One(x = r) /\ One(x = r) \in Nat
      BY <1>1 DEF One
  <2>3. /\ Count(tc, AnswersTo(x)) = Count(Tail(tc), AnswersTo(x)) + One(x = r)
        /\ InCalls(c2, x) = InCalls(c, x) - One(x = r)
        /\ Count(Tail(tc), AnswersTo(x)) \in Nat
      BY <2>2
  <2>4. Pending(s, ts, x) \in Nat
      BY PendingNat
  <2>5. InCalls(c2, x) = Pending(s, ts, x) + Count(Tail(tc), AnswersTo(x))
      BY <2>1, <2>2, <2>3, <2>4
  <2> QED BY <2>5 DEF Balanced
<1>3. ASSUME NEW b \in Callbacks PROVE Awaited(s, ts, Tail(tc), c2, b)
  <2>1. Awaited(s, ts, tc, c, b)
      BY DEF Conserved
  <2>2. b # "OK" /\ b # r
      BY DEF Callbacks, Requests
  <2>3. Head(tc) \notin Coded(b)
      BY <1>1, <2>2
  <2>4. Count(tc, Coded(b)) = Count(Tail(tc), Coded(b)) + One(Head(tc) \in Coded(b))
        /\ Count(Tail(tc), Coded(b)) \in Nat
      OBVIOUS
  <2>5. Count(tc, Coded(b)) = Count(Tail(tc), Coded(b))
      BY <2>3, <2>4 DEF One
  <2>6. InCalls(c2, b) = InCalls(c, b) - One(b = r) /\ InCalls(c, b) \in Nat
      BY DEF InCalls, One
  <2>7. InCalls(c2, b) = InCalls(c, b)
      BY <2>2, <2>6 DEF One
  <2> QED BY <2>1, <2>5, <2>7 DEF Awaited
<1> QED BY <1>2, <1>3 DEF Conserved

\* How an answer changes the client, apart from its stack.
AnswerKept(c, c2, r, k) ==
    /\ c2.pending = c.pending /\ c2.gone = c.gone
    /\ c2.told = IF k = 0 THEN c.told ELSE k
    /\ r = "GET_DEBUG_EVENT" /\ k = 0 => c2.polling /\ c2.held = c.held
    /\ r = "GET_DEBUG_EVENT" /\ k # 0 => c2.held = k /\ c2.polling = c.polling
    /\ r = "CONTINUE_AFTER_EVENT" => c2.held = 0 /\ c2.polling = c.polling
    /\ r \notin {"GET_DEBUG_EVENT", "CONTINUE_AFTER_EVENT"} =>
          c2.held = c.held /\ c2.polling = c.polling

\* The cycle of one event when a reply is read: the client's side.
LEMMA ReplyStage ==
    ASSUME NEW c, NEW c2, NEW r, NEW k, Stage(c), AnswerKept(c, c2, r, k),
           \A x : InCalls(c2, x) = InCalls(c, x) - One(x = r), InCalls(c, r) = 1,
           r # "OTHER" => \A x : InCalls(c2, x) = 0
    PROVE  Stage(c2)
<1>1. CallsTyped(c) /\ CallsTyped(c2)
    BY CallsNumbers
<1>2. CASE r = "GET_DEBUG_EVENT"
  <2>1. One(c.polling) = 0 /\ One(c.pending # 0) = 0 /\ One(c.held # 0) = 0
      BY <1>1, <1>2 DEF Stage, CallsTyped
  <2>2. /\ InCalls(c2, "GET_DEBUG_EVENT") = 0 /\ InCalls(c2, "CONTINUE_AFTER_EVENT") = 0
        /\ InCalls(c2, "STOPPED_AT_DEBUG_EVENT") = 0 /\ InCalls(c2, "APPCALL") = 0
      BY <1>2
  <2>3. One(c2.pending # 0) = 0
      BY <2>1 DEF AnswerKept
  <2>4. CASE k = 0
    <3>1. One(c2.held # 0) = 0
        BY <1>2, <2>1, <2>4 DEF AnswerKept
    <3> QED BY <1>1, <2>2, <2>3, <3>1 DEF Stage, CallsTyped
  <2>5. CASE k # 0
    <3>1. One(c2.polling) = 0
        BY <1>2, <2>1, <2>5 DEF AnswerKept
    <3> QED BY <1>1, <2>2, <2>3, <3>1 DEF Stage, CallsTyped
  <2> QED BY <2>4, <2>5
<1>3. CASE r = "CONTINUE_AFTER_EVENT"
  <2>1. /\ InCalls(c2, "GET_DEBUG_EVENT") = 0 /\ InCalls(c2, "CONTINUE_AFTER_EVENT") = 0
        /\ InCalls(c2, "STOPPED_AT_DEBUG_EVENT") = 0 /\ InCalls(c2, "APPCALL") = 0
      BY <1>3
  <2>2. One(c2.pending # 0) = One(c.pending # 0) /\ One(c2.polling) = One(c.polling)
        /\ One(c2.held # 0) = 0
      BY <1>3 DEF AnswerKept, One
  <2>3. One(c.polling) + One(c.pending # 0) <= 1
      BY <1>1 DEF Stage, CallsTyped
  <2> QED BY <1>1, <2>1, <2>2, <2>3 DEF Stage, CallsTyped
<1>4. CASE r \notin {"GET_DEBUG_EVENT", "CONTINUE_AFTER_EVENT"}
  <2>1. /\ InCalls(c2, "GET_DEBUG_EVENT") = InCalls(c, "GET_DEBUG_EVENT")
        /\ InCalls(c2, "CONTINUE_AFTER_EVENT") = InCalls(c, "CONTINUE_AFTER_EVENT")
    <3>1. One("GET_DEBUG_EVENT" = r) = 0 /\ One("CONTINUE_AFTER_EVENT" = r) = 0
        BY <1>4 DEF One
    <3>2. /\ InCalls(c2, "GET_DEBUG_EVENT") = InCalls(c, "GET_DEBUG_EVENT") - One("GET_DEBUG_EVENT" = r)
          /\ InCalls(c2, "CONTINUE_AFTER_EVENT") =
                InCalls(c, "CONTINUE_AFTER_EVENT") - One("CONTINUE_AFTER_EVENT" = r)
        OBVIOUS
    <3> QED BY <1>1, <3>1, <3>2 DEF CallsTyped
  <2>2. /\ InCalls(c2, "STOPPED_AT_DEBUG_EVENT") <= InCalls(c, "STOPPED_AT_DEBUG_EVENT")
        /\ InCalls(c2, "APPCALL") <= InCalls(c, "APPCALL")
    <3>1. One("STOPPED_AT_DEBUG_EVENT" = r) \in {0, 1} /\ One("APPCALL" = r) \in {0, 1}
        BY DEF One
    <3>2. /\ InCalls(c2, "STOPPED_AT_DEBUG_EVENT") =
                InCalls(c, "STOPPED_AT_DEBUG_EVENT") - One("STOPPED_AT_DEBUG_EVENT" = r)
          /\ InCalls(c2, "APPCALL") = InCalls(c, "APPCALL") - One("APPCALL" = r)
        OBVIOUS
    <3> QED BY <1>1, <3>1, <3>2 DEF CallsTyped
  <2>3. /\ One(c2.pending # 0) = One(c.pending # 0) /\ One(c2.polling) = One(c.polling)
        /\ One(c2.held # 0) = One(c.held # 0) /\ c2.held = c.held
      BY <1>4 DEF AnswerKept
  <2> QED BY <1>1, <2>1, <2>2, <2>3 DEF Stage, CallsTyped
<1> QED BY <1>2, <1>3, <1>4

\* The same: the server's side.
LEMMA ReplyCycle ==
    ASSUME NEW s \in Server, NEW tc \in Seq(Packet), NEW c, NEW c2, NEW p \in Packet, NEW t,
           Stage(c), Cycle(s, tc, c), p.code = "OK", AnswerKept(c, c2, p.re, p.n),
           InCalls(c, p.re) = 1,
           \A S : /\ Count(tc, S) = Count(t, S) + One(p \in S)
                  /\ Count(tc, S) \in Nat /\ Count(t, S) \in Nat,
           p \in News => c2.told = s.got, p.n # 0 => p \in News
    PROVE  Cycle(s, t, c2)
<1>1. CallsTyped(c) /\ CallsTyped(c2)
    BY CallsNumbers
<1>2. /\ \A x : p \in AnswersTo(x) <=> p.re = x
      /\ \A x : p \in Coded(x) <=> x = "OK"
      /\ p \in Empty <=> p.re = "GET_DEBUG_EVENT" /\ p.n = 0
      /\ p \in Full <=> p.re = "GET_DEBUG_EVENT" /\ p.n # 0
    BY AnswerClass
<1>3. Count(t, Coded("EVENT")) = Count(tc, Coded("EVENT"))
  <2>1. One(p \in Coded("EVENT")) = 0
      BY <1>2 DEF One
  <2> QED BY <2>1
<1>4. /\ Count(t, Empty) = Count(tc, Empty) - One(p \in Empty)
      /\ Count(t, Full) = Count(tc, Full) - One(p \in Full)
      /\ Count(t, Coded("EVENT")) \in Nat /\ Count(t, Full) \in Nat /\ Count(t, Empty) \in Nat
      /\ Polls(s) \in Nat
    BY StackCounts DEF One
<1>5. /\ One(c.polling) + Count(tc, Empty) = Polls(s) + Count(tc, Coded("EVENT"))
      /\ s.in_event => Count(tc, Full) + Count(tc, Coded("EVENT")) + One(c.pending # 0) +
                       One(c.held # 0) >= 1
    BY DEF Cycle
<1>6. c2.pending = c.pending /\ One(c2.pending # 0) = One(c.pending # 0)
    BY DEF AnswerKept
<1>7. One(c2.polling) + Count(t, Empty) = Polls(s) + Count(t, Coded("EVENT"))
  <2>1. CASE p.re = "GET_DEBUG_EVENT" /\ p.n = 0
    <3>1. One(c2.polling) = 1 /\ One(p \in Empty) = 1
        BY <1>2, <2>1 DEF AnswerKept, One
    <3>2. One(c.polling) = 0
        BY <1>1, <2>1 DEF Stage, CallsTyped
    <3> QED BY <1>3, <1>4, <1>5, <3>1, <3>2
  <2>2. CASE ~(p.re = "GET_DEBUG_EVENT" /\ p.n = 0)
    <3>1. One(p \in Empty) = 0
        BY <1>2, <2>2 DEF One
    <3>2. One(c2.polling) = One(c.polling) /\ One(c.polling) \in {0, 1}
        BY <2>2 DEF AnswerKept, One
    <3> QED BY <1>3, <1>4, <1>5, <3>1, <3>2
  <2> QED BY <2>1, <2>2
<1>8. s.in_event => Count(t, Full) + Count(t, Coded("EVENT")) + One(c2.pending # 0) +
                    One(c2.held # 0) >= 1
  <2> SUFFICES ASSUME s.in_event
               PROVE  Count(t, Full) + Count(t, Coded("EVENT")) + One(c2.pending # 0) +
                      One(c2.held # 0) >= 1
      OBVIOUS
  <2>1. One(c2.pending # 0) \in {0, 1} /\ One(c2.held # 0) \in {0, 1}
      BY DEF One
  <2>2. CASE p.re = "GET_DEBUG_EVENT" /\ p.n # 0
    <3>1. One(c2.held # 0) = 1
        BY <2>2 DEF AnswerKept, One
    <3> QED BY <1>4, <2>1, <3>1
  <2>3. p.re # "CONTINUE_AFTER_EVENT"
    <3> SUFFICES ASSUME p.re = "CONTINUE_AFTER_EVENT" PROVE FALSE
        OBVIOUS
    <3>1. One(p \in AnswersTo("CONTINUE_AFTER_EVENT")) = 1
        BY <1>2 DEF One
    <3>2. Count(tc, AnswersTo("CONTINUE_AFTER_EVENT")) = Count(t, AnswersTo("CONTINUE_AFTER_EVENT")) + 1
          /\ Count(t, AnswersTo("CONTINUE_AFTER_EVENT")) \in Nat
        BY <3>1
    <3>3. Count(tc, AnswersTo("CONTINUE_AFTER_EVENT")) >= 1
        BY <3>2
    <3> QED BY <3>3 DEF Cycle
  <2>4. CASE ~(p.re = "GET_DEBUG_EVENT" /\ p.n # 0)
    <3>1. One(p \in Full) = 0
        BY <1>2, <2>4 DEF One
    <3>2. One(c2.held # 0) = One(c.held # 0)
        BY <2>3, <2>4 DEF AnswerKept
    <3> QED BY <1>3, <1>4, <1>5, <1>6, <2>1, <3>1, <3>2
  <2> QED BY <2>2, <2>4
<1>9. Count(t, AnswersTo("CONTINUE_AFTER_EVENT")) >= 1 => ~s.in_event
  <2>1. /\ Count(tc, AnswersTo("CONTINUE_AFTER_EVENT")) =
              Count(t, AnswersTo("CONTINUE_AFTER_EVENT")) + One(p \in AnswersTo("CONTINUE_AFTER_EVENT"))
        /\ Count(t, AnswersTo("CONTINUE_AFTER_EVENT")) \in Nat
        /\ One(p \in AnswersTo("CONTINUE_AFTER_EVENT")) \in {0, 1}
      BY DEF One
  <2>2. Count(t, AnswersTo("CONTINUE_AFTER_EVENT")) >= 1 => Count(tc, AnswersTo("CONTINUE_AFTER_EVENT")) >= 1
      BY <2>1
  <2> QED BY <2>2 DEF Cycle
<1>10. s.got # c2.told => Count(t, News) >= 1
  <2> SUFFICES ASSUME s.got # c2.told PROVE Count(t, News) >= 1
      OBVIOUS
  <2>1. p \notin News /\ p.n = 0
      OBVIOUS
  <2>2. c2.told = c.told
      BY <2>1 DEF AnswerKept
  <2>3. Count(tc, News) >= 1
      BY <2>2 DEF Cycle
  <2>4. One(p \in News) = 0
      BY <2>1 DEF One
  <2>5. Count(tc, News) = Count(t, News) + One(p \in News) /\ Count(t, News) \in Nat
      OBVIOUS
  <2> QED BY <2>3, <2>4, <2>5
<1> QED BY <1>7, <1>8, <1>9, <1>10 DEF Cycle

\* There is one answer to RPC_GET_DEBUG_EVENT at most.
LEMMA GetAnswerOnce ==
    ASSUME NEW s, NEW ts, NEW tc, NEW c, Good(s, ts, tc, c), Connected(s, ts, tc, c)
    PROVE  /\ Count(tc, AnswersTo("GET_DEBUG_EVENT")) <= 1
           /\ s.got \in Nat /\ c.told \in Nat /\ s.got \in {c.told, c.told + 1}
           /\ ToClientOK(tc, s.got) /\ AnswerFirst(tc)
           /\ s \in Server /\ ts \in Seq(Packet) /\ tc \in Seq(Packet) /\ c \in ClientState
           /\ ServerInv(s, ts, c.told) /\ Conserved(s, ts, tc, c) /\ Stage(c) /\ Cycle(s, tc, c)
           /\ CallsShape(c.calls)
<1>1. /\ s \in Server /\ ts \in Seq(Packet) /\ tc \in Seq(Packet) /\ c \in ClientState
      /\ s.got \in Nat /\ c.told \in Nat /\ EventsInOrder(s, ts, c.told) /\ ServerInv(s, ts, c.told)
    BY GoodFacts
<1>2. Flowing(s, ts, tc, c)
    BY <1>1, Flows DEF Connected
<1>3. Count(tc, AnswersTo("GET_DEBUG_EVENT")) <= 1
  <2>1. /\ Count(tc, AnswersTo("GET_DEBUG_EVENT")) \in Nat
        /\ Count(tc, AnswersTo("GET_DEBUG_EVENT")) >= 1 => Count(tc, AnswersTo("GET_DEBUG_EVENT")) = 1
      BY <1>1, <1>2, CountsNat, FlowOut DEF Requests
  <2> QED BY <2>1
<1> QED BY <1>1, <1>3 DEF Connected, EventsInOrder

\* The client reads the answer to the call on top of its stack.
LEMMA ReplyRead ==
    ASSUME NEW s, NEW ts, NEW tc, NEW c, Good(s, ts, tc, c), Connected(s, ts, tc, c), net = "up",
           tc # << >>, Head(tc).code = "OK", c.calls # << >>, TopOf(c.calls) \in Requests,
           NEW c2 \in ClientState, c2.calls = Pop(c.calls),
           AnswerKept(c, c2, TopOf(c.calls), Head(tc).n)
    PROVE  Good(s, ts, Tail(tc), c2)
<1> DEFINE p == Head(tc)
           t == Tail(tc)
           r == TopOf(c.calls)
<1>1. /\ Count(tc, AnswersTo("GET_DEBUG_EVENT")) <= 1
      /\ s.got \in Nat /\ c.told \in Nat /\ s.got \in {c.told, c.told + 1}
      /\ ToClientOK(tc, s.got) /\ AnswerFirst(tc)
      /\ s \in Server /\ ts \in Seq(Packet) /\ tc \in Seq(Packet) /\ c \in ClientState
      /\ ServerInv(s, ts, c.told) /\ Conserved(s, ts, tc, c) /\ Stage(c) /\ Cycle(s, tc, c)
    BY GetAnswerOnce
<1>2. /\ t \in Seq(Packet) /\ p \in Packet
      /\ \A S : /\ Count(tc, S) = Count(t, S) + One(p \in S)
                /\ Count(tc, S) \in Nat /\ Count(t, S) \in Nat
      /\ ToClientOK(t, s.got) /\ AnswerFirst(t)
      /\ p.n # 0 => p \in News
      /\ p \in News => (IF p.n = 0 THEN c.told ELSE p.n) = s.got
    BY <1>1, ReadFacts
<1>3. p.re = r /\ r \in Requests
    BY AnswerIsTop
<1>4. /\ \A x : InCalls(c2, x) = InCalls(c, x) - One(x = r)
      /\ InCalls(c, r) = 1
      /\ CallsShape(c2.calls)
      /\ r # "OTHER" => \A x : InCalls(c2, x) = 0
    BY CallReturns
<1>5. Conserved(s, ts, t, c2)
    BY <1>1, <1>2, <1>3, <1>4, ReplyConserved
<1> HIDE DEF p, t, r
<1>6. AnswerKept(c, c2, p.re, p.n) /\ p.code = "OK"
    BY <1>3 DEF p, r
<1>7. c2.told = IF p.n = 0 THEN c.told ELSE p.n
    BY <1>6 DEF AnswerKept
<1>8. p \in News => c2.told = s.got
    BY <1>2, <1>7
<1>9. Stage(c2)
    BY <1>1, <1>3, <1>4, <1>6, ReplyStage
<1>10. Cycle(s, t, c2)
  <2>1. InCalls(c, p.re) = 1
      BY <1>3, <1>4
  <2>2. s \in Server /\ tc \in Seq(Packet) /\ p \in Packet /\ Stage(c) /\ Cycle(s, tc, c)
      BY <1>1, <1>2
  <2>3. /\ \A S : /\ Count(tc, S) = Count(t, S) + One(p \in S)
                  /\ Count(tc, S) \in Nat /\ Count(t, S) \in Nat
        /\ p.n # 0 => p \in News
      BY <1>2
  <2> QED BY <1>6, <1>8, <2>1, <2>2, <2>3, ReplyCycle
<1>11. c2.told = c.told \/ c2.told = s.got
    BY <1>2, <1>7
<1>12. ServerInv(s, ts, c2.told)
    BY <1>1, <1>11, ToldMore
<1>13. Connected(s, ts, t, c2)
    BY <1>2, <1>4, <1>5, <1>6, <1>9, <1>10 DEF Connected, AnswerKept
<1>14. Good(s, ts, t, c2)
    BY <1>1, <1>2, <1>11, <1>12, <1>13, ClientGood
<1> QED BY <1>14 DEF t

\* After an empty answer a client that obeys the protocol waits for RPC_EVENT.
LEMMA ReplyReadGood ==
    ASSUME IInv, ClientPolls, ClientReply
    PROVE  Good(srv, toServer, toClient, cl)'
<1> DEFINE call == TopOf(cl.calls)
           k == Head(toClient).n
           c == [cl EXCEPT !.calls = Pop(@), !.told = IF k = 0 THEN @ ELSE k]
           d == CASE call = "GET_DEBUG_EVENT" /\ k # 0 -> [c EXCEPT !.held = k]
                  [] call = "GET_DEBUG_EVENT" /\ k = 0 -> [c EXCEPT !.polling = ClientPolls]
                  [] call = "CONTINUE_AFTER_EVENT" -> [c EXCEPT !.held = 0]
                  [] OTHER -> c
<1>1. /\ Waiting /\ toClient # << >> /\ Head(toClient).code = "OK" /\ cl' = d
      /\ srv' = srv /\ toServer' = toServer /\ toClient' = Tail(toClient) /\ net' = net /\ made' = made
    BY DEF ClientReply, ToClientArrived
<1>2. net = "up" /\ Connected(srv, toServer, toClient, cl)
    BY <1>1, ClientUp
<1>3. /\ cl \in ClientState /\ toClient \in Seq(Packet) /\ cl.calls # << >> /\ call \in Requests
    BY <1>1, Basics DEF Waiting
<1>4. k \in Nat /\ Pop(cl.calls) \in Seq(Requests \cup Callbacks) /\ cl.told \in Nat
    BY <1>1, <1>3, ClientTyped, HeadTyped, Popping
<1>5. /\ c \in ClientState /\ c.calls = Pop(cl.calls) /\ c.pending = cl.pending
      /\ c.gone = cl.gone /\ c.held = cl.held /\ c.polling = cl.polling
      /\ c.told = IF k = 0 THEN cl.told ELSE k
    BY <1>3, <1>4 DEF ClientState
<1> HIDE DEF c
<1>6. /\ d \in ClientState /\ d.calls = c.calls /\ d.pending = c.pending
      /\ d.gone = c.gone /\ d.told = c.told
      /\ call = "GET_DEBUG_EVENT" /\ k # 0 => d.held = k /\ d.polling = c.polling
      /\ call = "GET_DEBUG_EVENT" /\ k = 0 => d.polling /\ d.held = c.held
      /\ call = "CONTINUE_AFTER_EVENT" => d.held = 0 /\ d.polling = c.polling
      /\ call \notin {"GET_DEBUG_EVENT", "CONTINUE_AFTER_EVENT"} =>
            d.held = c.held /\ d.polling = c.polling
  <2> HIDE DEF k, call
  <2>1. CASE call = "GET_DEBUG_EVENT" /\ k # 0
    <3>1. d = [c EXCEPT !.held = k]
        BY <2>1
    <3> QED BY <1>4, <1>5, <2>1, <3>1 DEF ClientState
  <2>2. CASE call = "GET_DEBUG_EVENT" /\ k = 0
    <3>1. d = [c EXCEPT !.polling = ClientPolls]
        BY <2>2
    <3> QED BY <1>4, <1>5, <2>2, <3>1, PollsAssumption DEF ClientState
  <2>3. CASE call = "CONTINUE_AFTER_EVENT"
    <3>1. d = [c EXCEPT !.held = 0]
        BY <2>3
    <3> QED BY <1>4, <1>5, <2>3, <3>1 DEF ClientState
  <2>4. CASE call \notin {"GET_DEBUG_EVENT", "CONTINUE_AFTER_EVENT"}
    <3>1. d = c
        BY <2>4
    <3> QED BY <1>4, <1>5, <2>4, <3>1 DEF ClientState
  <2> QED BY <2>1, <2>2, <2>3, <2>4
<1>7. AnswerKept(cl, d, call, k)
    BY <1>5, <1>6 DEF AnswerKept
<1>8. d.calls = Pop(cl.calls) /\ d \in ClientState
    BY <1>5, <1>6
<1> HIDE DEF d
<1>9. Good(srv, toServer, Tail(toClient), d)
    BY <1>1, <1>2, <1>3, <1>7, <1>8, Basics, ReplyRead
<1>10. made' >= made /\ made' \in Nat
    BY <1>1, Basics
<1> QED BY <1>1, <1>9, <1>10, Basics, GoodPrimed

-----------------------------------------------------------------------------
(* The client reads an event *)

\* A number below another.
LEMMA LessOrNone ==
    ASSUME NEW a \in Nat, NEW b \in Nat, NEW p \in Nat, NEW a2 \in Nat, NEW b2 \in Nat,
           a2 <= a, b2 <= b
    PROVE  /\ a2 + p >= 1 => a + p >= 1
           /\ a2 + b2 >= 1 => a + b >= 1
           /\ a <= p => a2 <= p
           /\ a = 0 => a2 = 0
           /\ a <= 1 => a2 <= 1
OBVIOUS

\* No packet that matters is added to the stream.
Fewer(ts, ts2) ==
    /\ \A x \in Requests : Count(ts2, Coded(x)) <= Count(ts, Coded(x))
    /\ \A b \in Callbacks : Count(ts2, AnswersTo(b)) <= Count(ts, AnswersTo(b))

\* The server's part of the invariant when the end of the stream is lost.
LEMMA FewerServer ==
    ASSUME NEW s \in Server, NEW ts \in Seq(Packet), NEW ts2 \in Seq(Packet), NEW told \in Nat,
           ServerInv(s, ts, told), Fewer(ts, ts2), GoodbyeLast(s, ts2), ToServerOK(ts2)
    PROVE  ServerInv(s, ts2, told)
<1>1. \A x : Count(ts2, Coded(x)) \in Nat /\ Count(ts, Coded(x)) \in Nat
             /\ Count(ts2, AnswersTo(x)) \in Nat /\ Count(ts, AnswersTo(x)) \in Nat
             /\ Performs(s, x) \in Nat
    BY CountsNat, StackCounts
<1>2. \A x \in Requests : /\ Pending(s, ts2, x) <= Pending(s, ts, x)
                          /\ Pending(s, ts2, x) \in Nat /\ Pending(s, ts, x) \in Nat
  <2> SUFFICES ASSUME NEW x \in Requests
               PROVE  /\ Pending(s, ts2, x) <= Pending(s, ts, x)
                      /\ Pending(s, ts2, x) \in Nat /\ Pending(s, ts, x) \in Nat
      OBVIOUS
  <2>1. Count(ts2, Coded(x)) <= Count(ts, Coded(x))
      BY DEF Fewer
  <2> QED BY <1>1, <2>1 DEF Pending
<1>3. /\ StackShape(s) /\ OneAtATime(s, ts) /\ MainWhenIdle(s, ts) /\ AnswersExpected(s, ts)
      /\ EventsInOrder(s, ts, told)
    BY DEF ServerInv
<1>4. Polls(s) \in Nat /\ \A x : Waits(s, x) \in Nat
    BY StackCounts
<1>5. /\ Pending(s, ts2, "GET_DEBUG_EVENT") <= Pending(s, ts, "GET_DEBUG_EVENT")
      /\ Pending(s, ts2, "CONTINUE_AFTER_EVENT") <= Pending(s, ts, "CONTINUE_AFTER_EVENT")
      /\ Pending(s, ts2, "STOPPED_AT_DEBUG_EVENT") <= Pending(s, ts, "STOPPED_AT_DEBUG_EVENT")
      /\ Pending(s, ts2, "APPCALL") <= Pending(s, ts, "APPCALL")
      /\ Pending(s, ts2, "OTHER") <= Pending(s, ts, "OTHER")
      /\ Pending(s, ts2, "GET_DEBUG_EVENT") \in Nat /\ Pending(s, ts, "GET_DEBUG_EVENT") \in Nat
      /\ Pending(s, ts2, "CONTINUE_AFTER_EVENT") \in Nat /\ Pending(s, ts, "CONTINUE_AFTER_EVENT") \in Nat
      /\ Pending(s, ts2, "STOPPED_AT_DEBUG_EVENT") \in Nat /\ Pending(s, ts, "STOPPED_AT_DEBUG_EVENT") \in Nat
      /\ Pending(s, ts2, "APPCALL") \in Nat /\ Pending(s, ts, "APPCALL") \in Nat
      /\ Pending(s, ts2, "OTHER") \in Nat /\ Pending(s, ts, "OTHER") \in Nat
    BY <1>2 DEF Requests
<1>6. /\ Count(ts2, Coded("APPCALL")) <= Count(ts, Coded("APPCALL"))
      /\ Count(ts2, Coded("OTHER")) <= Count(ts, Coded("OTHER"))
      /\ Count(ts2, AnswersTo("HANDLE_DEBUG_EVENT")) <= Count(ts, AnswersTo("HANDLE_DEBUG_EVENT"))
      /\ Count(ts2, AnswersTo("SET_DEBUG_NAMES")) <= Count(ts, AnswersTo("SET_DEBUG_NAMES"))
      /\ Count(ts2, AnswersTo("MSG")) <= Count(ts, AnswersTo("MSG"))
    BY DEF Fewer, Requests, Callbacks
<1>7. OneAtATime(s, ts2)
  <2>1. Pending(s, ts2, "OTHER") <= 1
      BY <1>3, <1>5, LessOrNone DEF OneAtATime
  <2>2. Pending(s, ts2, "GET_DEBUG_EVENT") + Pending(s, ts2, "CONTINUE_AFTER_EVENT") +
        Pending(s, ts2, "STOPPED_AT_DEBUG_EVENT") + Pending(s, ts2, "APPCALL") + Polls(s) <= 1
    <3> DEFINE a == Pending(s, ts, "GET_DEBUG_EVENT")
               b == Pending(s, ts, "CONTINUE_AFTER_EVENT")
               c == Pending(s, ts, "STOPPED_AT_DEBUG_EVENT")
               d == Pending(s, ts, "APPCALL")
               p == Polls(s)
               a2 == Pending(s, ts2, "GET_DEBUG_EVENT")
               b2 == Pending(s, ts2, "CONTINUE_AFTER_EVENT")
               c2 == Pending(s, ts2, "STOPPED_AT_DEBUG_EVENT")
               d2 == Pending(s, ts2, "APPCALL")
    <3>1. a + b + c + d + p <= 1
        BY <1>3 DEF OneAtATime
    <3>2. /\ a2 <= a /\ b2 <= b /\ c2 <= c /\ d2 <= d
          /\ a \in Nat /\ b \in Nat /\ c \in Nat /\ d \in Nat /\ p \in Nat
          /\ a2 \in Nat /\ b2 \in Nat /\ c2 \in Nat /\ d2 \in Nat
        BY <1>4, <1>5
    <3> HIDE DEF a, b, c, d, p, a2, b2, c2, d2
    <3>3. a2 + b2 + c2 + d2 + p <= 1
        BY <3>1, <3>2
    <3> QED BY <3>3 DEF a2, b2, c2, d2, p
  <2> QED BY <2>1, <2>2 DEF OneAtATime
<1>8. MainWhenIdle(s, ts2)
  <2> SUFFICES ASSUME NEW r \in Main, Count(ts2, Coded(r)) >= 1
               PROVE  s.frames = << >> /\ Count(ts2, Coded("OTHER")) = 0
      BY DEF MainWhenIdle
  <2>1. Count(ts2, Coded(r)) <= Count(ts, Coded(r)) /\ Count(ts, Coded(r)) \in Nat
        /\ Count(ts2, Coded(r)) \in Nat
      BY <1>1 DEF Fewer, Main
  <2>2. Count(ts, Coded(r)) >= 1
      BY <2>1
  <2>3. s.frames = << >> /\ Count(ts, Coded("OTHER")) = 0
      BY <1>3, <2>2 DEF MainWhenIdle
  <2>4. Count(ts2, Coded("OTHER")) \in Nat
      BY <1>1
  <2> QED BY <1>6, <2>3, <2>4
<1>9. AnswersExpected(s, ts2)
  <2>1. /\ Count(ts2, AnswersTo("HANDLE_DEBUG_EVENT")) \in Nat /\ Count(ts, AnswersTo("HANDLE_DEBUG_EVENT")) \in Nat
        /\ Count(ts2, AnswersTo("SET_DEBUG_NAMES")) \in Nat /\ Count(ts, AnswersTo("SET_DEBUG_NAMES")) \in Nat
        /\ Count(ts2, AnswersTo("MSG")) \in Nat /\ Count(ts, AnswersTo("MSG")) \in Nat
        /\ Waits(s, "MSG") \in Nat /\ Waits(s, "SET_DEBUG_NAMES") \in Nat
        /\ Waits(s, "HANDLE_DEBUG_EVENT") \in Nat
      BY <1>1, <1>4
  <2>2. /\ Count(ts, AnswersTo("SET_DEBUG_NAMES")) <= Waits(s, "SET_DEBUG_NAMES")
        /\ Count(ts, AnswersTo("HANDLE_DEBUG_EVENT")) <= Waits(s, "HANDLE_DEBUG_EVENT")
        /\ ~s.network_error_code => Count(ts, AnswersTo("MSG")) <= Waits(s, "MSG")
        /\ Count(ts, AnswersTo("SET_DEBUG_NAMES")) + Count(ts, AnswersTo("HANDLE_DEBUG_EVENT")) >= 1 =>
              ~s.network_error_code /\ Pending(s, ts, "OTHER") = 0
      BY <1>3 DEF AnswersExpected
  <2>3. Count(ts2, AnswersTo("SET_DEBUG_NAMES")) <= Waits(s, "SET_DEBUG_NAMES")
      BY <1>6, <2>1, <2>2, LessOrNone
  <2>4. Count(ts2, AnswersTo("HANDLE_DEBUG_EVENT")) <= Waits(s, "HANDLE_DEBUG_EVENT")
      BY <1>6, <2>1, <2>2, LessOrNone
  <2>5. ~s.network_error_code => Count(ts2, AnswersTo("MSG")) <= Waits(s, "MSG")
      BY <1>6, <2>1, <2>2, LessOrNone
  <2>6. ASSUME Count(ts2, AnswersTo("SET_DEBUG_NAMES")) + Count(ts2, AnswersTo("HANDLE_DEBUG_EVENT")) >= 1
        PROVE  ~s.network_error_code /\ Pending(s, ts2, "OTHER") = 0
    <3>1. Count(ts, AnswersTo("SET_DEBUG_NAMES")) + Count(ts, AnswersTo("HANDLE_DEBUG_EVENT")) >= 1
        BY <1>6, <2>1, <2>6, LessOrNone
    <3> QED BY <1>5, <2>2, <3>1, LessOrNone
  <2> QED BY <2>3, <2>4, <2>5, <2>6 DEF AnswersExpected
<1>10. EventsInOrder(s, ts2, told)
  <2>1. /\ Count(ts2, AnswersTo("HANDLE_DEBUG_EVENT")) \in Nat /\ Count(ts, AnswersTo("HANDLE_DEBUG_EVENT")) \in Nat
        /\ Count(ts2, Coded("APPCALL")) \in Nat /\ Count(ts, Coded("APPCALL")) \in Nat
      BY <1>1
  <2>2. EventsInOrder(s, ts, told)
      BY <1>3
  <2>3. /\ Pending(s, ts2, "GET_DEBUG_EVENT") + Polls(s) >= 1 =>
              Pending(s, ts, "GET_DEBUG_EVENT") + Polls(s) >= 1
        /\ Pending(s, ts2, "CONTINUE_AFTER_EVENT") + Count(ts2, Coded("APPCALL")) +
           Count(ts2, AnswersTo("HANDLE_DEBUG_EVENT")) >= 1 =>
              Pending(s, ts, "CONTINUE_AFTER_EVENT") + Count(ts, Coded("APPCALL")) +
              Count(ts, AnswersTo("HANDLE_DEBUG_EVENT")) >= 1
    <3>1. Pending(s, ts2, "GET_DEBUG_EVENT") + Polls(s) >= 1 =>
              Pending(s, ts, "GET_DEBUG_EVENT") + Polls(s) >= 1
        BY <1>4, <1>5, LessOrNone, SMTT(20)
    <3>2. Pending(s, ts2, "CONTINUE_AFTER_EVENT") + Count(ts2, Coded("APPCALL")) +
          Count(ts2, AnswersTo("HANDLE_DEBUG_EVENT")) >= 1 =>
              Pending(s, ts, "CONTINUE_AFTER_EVENT") + Count(ts, Coded("APPCALL")) +
              Count(ts, AnswersTo("HANDLE_DEBUG_EVENT")) >= 1
      <4> DEFINE a == Pending(s, ts, "CONTINUE_AFTER_EVENT")
                 b == Count(ts, Coded("APPCALL"))
                 c == Count(ts, AnswersTo("HANDLE_DEBUG_EVENT"))
                 a2 == Pending(s, ts2, "CONTINUE_AFTER_EVENT")
                 b2 == Count(ts2, Coded("APPCALL"))
                 c2 == Count(ts2, AnswersTo("HANDLE_DEBUG_EVENT"))
      <4>1. /\ a2 <= a /\ b2 <= b /\ c2 <= c
            /\ a \in Nat /\ b \in Nat /\ c \in Nat
            /\ a2 \in Nat /\ b2 \in Nat /\ c2 \in Nat
          BY <1>5, <1>6, <2>1
      <4> HIDE DEF a, b, c, a2, b2, c2
      <4>2. a2 + b2 + c2 >= 1 => a + b + c >= 1
          BY <4>1
      <4> QED BY <4>2 DEF a, b, c, a2, b2, c2
    <3> QED BY <3>1, <3>2
  <2> QED BY <2>2, <2>3 DEF EventsInOrder
<1> QED BY <1>3, <1>7, <1>8, <1>9, <1>10 DEF ServerInv

\* The client sends something that is no call and no answer.
Added(s, ts, p, told) ==
    /\ Append(ts, p) \in Seq(Packet)
    /\ \A x \in Requests : Count(Append(ts, p), Coded(x)) = Count(ts, Coded(x))
    /\ \A b \in Callbacks : Count(Append(ts, p), AnswersTo(b)) = Count(ts, AnswersTo(b))
    /\ p.code = "EVOK" => \A i \in 1 .. Len(Append(ts, p)) : Append(ts, p)[i] \notin AnswersTo("CLOSE")
    /\ ServerInv(s, Append(ts, p), told)
NoGoodbye(ts) == \A i \in 1 .. Len(ts) : ts[i] \notin AnswersTo("CLOSE")

\* The same when the client has added an acknowledgement or its goodbye.
LEMMA AddServer ==
    ASSUME NEW s \in Server, NEW ts \in Seq(Packet), NEW told \in Nat, ServerInv(s, ts, told),
           NoGoodbye(ts), NEW p \in Packet,
           \/ p.code = "EVOK"
           \/ p.code = "OK" /\ p.re = "CLOSE" /\ \A r \in Requests : Pending(s, ts, r) = 0
    PROVE  Added(s, ts, p, told)
<1> DEFINE ts2 == Append(ts, p)
<1>1. /\ ts2 \in Seq(Packet) /\ \A S : Count(ts2, S) = Count(ts, S) + One(p \in S)
    BY AppendCounts
<1>2. /\ Len(ts2) = Len(ts) + 1 /\ Len(ts) \in Nat
      /\ \A i \in 1 .. Len(ts) : ts2[i] = ts[i]
      /\ ts2[Len(ts) + 1] = p
      /\ \A i \in 1 .. Len(ts2) : i \in 1 .. Len(ts) \/ i = Len(ts) + 1
    BY AppendProperties, LenProperties
<1>3. \A S : Count(ts, S) \in Nat
    BY CountsNat
<1> HIDE DEF ts2
<1>4. ASSUME NEW x \in Requests PROVE Count(ts2, Coded(x)) = Count(ts, Coded(x))
  <2>1. p \notin Coded(x)
      BY DEF Coded, Requests
  <2> QED BY <1>1, <1>3, <2>1 DEF One
<1>5. ASSUME NEW b \in Callbacks PROVE Count(ts2, AnswersTo(b)) = Count(ts, AnswersTo(b))
  <2>1. p \notin AnswersTo(b)
      BY DEF AnswersTo, Callbacks
  <2> QED BY <1>1, <1>3, <2>1 DEF One
<1>6. Fewer(ts, ts2)
    BY <1>3, <1>4, <1>5 DEF Fewer
<1>7. ASSUME p.code = "EVOK" PROVE \A i \in 1 .. Len(ts2) : ts2[i] \notin AnswersTo("CLOSE")
  <2>1. p \notin AnswersTo("CLOSE")
      BY <1>7 DEF AnswersTo
  <2> QED BY <1>2, <2>1 DEF NoGoodbye
<1>8. GoodbyeLast(s, ts2)
  <2>1. CASE p.code = "EVOK"
      BY <1>7, <2>1 DEF GoodbyeLast
  <2>2. CASE p.code = "OK" /\ p.re = "CLOSE" /\ \A r \in Requests : Pending(s, ts, r) = 0
    <3>1. \A r \in Requests : Pending(s, ts2, r) = 0
      <4>1. \A r \in Requests : Pending(s, ts, r) = 0
          BY <2>2
      <4> SUFFICES ASSUME NEW r \in Requests PROVE Pending(s, ts2, r) = 0
          OBVIOUS
      <4>2. Pending(s, ts, r) = 0 /\ Count(ts2, Coded(r)) = Count(ts, Coded(r))
          BY <1>4, <4>1
      <4> QED BY <4>2 DEF Pending
    <3> QED BY <1>2, <3>1 DEF GoodbyeLast, NoGoodbye
  <2> QED BY <2>1, <2>2
<1>9. ToServerOK(ts2)
  <2>1. ToServerOK(ts)
      BY DEF ServerInv
  <2> QED BY <1>2, <2>1 DEF ToServerOK
<1>10. ServerInv(s, ts2, told)
    BY <1>1, <1>6, <1>8, <1>9, FewerServer
<1> QED BY <1>1, <1>4, <1>5, <1>7, <1>10 DEF ts2, Added

\* RPC_EVENT finds the client polling, and is the only packet of its kind.
LEMMA EventAlone ==
    ASSUME NEW s, NEW ts, NEW tc, NEW c, Good(s, ts, tc, c), Connected(s, ts, tc, c),
           tc # << >>, Head(tc).code = "EVENT"
    PROVE  /\ c.polling /\ Polls(s) = 0 /\ Count(tc, Coded("EVENT")) = 1
           /\ Count(tc, Empty) = 0 /\ Count(tc, Full) = 0
           /\ InCalls(c, "GET_DEBUG_EVENT") = 0 /\ c.pending = 0 /\ c.held = 0
           /\ \A r \in {"CONTINUE_AFTER_EVENT", "STOPPED_AT_DEBUG_EVENT", "APPCALL"} : InCalls(c, r) = 0
<1>1. /\ s \in Server /\ tc \in Seq(Packet) /\ ToClientOK(tc, s.got) /\ AnswerFirst(tc)
      /\ Count(tc, AnswersTo("GET_DEBUG_EVENT")) <= 1 /\ ts \in Seq(Packet) /\ c \in ClientState
      /\ s.got \in Nat /\ c.told \in Nat /\ s.got \in {c.told, c.told + 1}
    BY GetAnswerOnce
<1>2. /\ Head(tc) \in Packet /\ Tail(tc) \in Seq(Packet)
      /\ \A S : /\ Count(tc, S) = Count(Tail(tc), S) + One(Head(tc) \in S)
                /\ Count(tc, S) \in Nat /\ Count(Tail(tc), S) \in Nat
      /\ Count(tc, AnswersTo("GET_DEBUG_EVENT")) >= 1 => Head(tc) \in AnswersTo("GET_DEBUG_EVENT")
    BY <1>1, ReadFacts
<1>3. Head(tc) \in Coded("EVENT") /\ Head(tc) \notin AnswersTo("GET_DEBUG_EVENT")
    BY <1>2 DEF Coded, AnswersTo
<1>4. Count(tc, Coded("EVENT")) >= 1
  <2>1. One(Head(tc) \in Coded("EVENT")) = 1
      BY <1>3 DEF One
  <2>2. Count(tc, Coded("EVENT")) = Count(Tail(tc), Coded("EVENT")) + 1 /\ Count(Tail(tc), Coded("EVENT")) \in Nat
      BY <1>2, <2>1
  <2> QED BY <2>2
<1>5. Count(tc, AnswersTo("GET_DEBUG_EVENT")) = 0
  <2>1. Count(tc, AnswersTo("GET_DEBUG_EVENT")) \in Nat
      BY <1>2
  <2> QED BY <1>2, <1>3, <2>1
<1>6. Numbers(s, ts, tc, c)
    BY <1>1, ConnectedNumbers
<1>7. Count(tc, Empty) = 0 /\ Count(tc, Full) = 0
    BY <1>5, <1>6, NotCalled
<1>8. /\ One(c.polling) + Count(tc, Empty) = Polls(s) + Count(tc, Coded("EVENT"))
      /\ Polls(s) \in Nat /\ Count(tc, Coded("EVENT")) \in Nat /\ One(c.polling) \in {0, 1}
    BY <1>6 DEF Numbers, Cycle, StackTyped, QueueTyped, CallsTyped
<1>9. One(c.polling) = 1 /\ Polls(s) = 0 /\ Count(tc, Coded("EVENT")) = 1
    BY <1>4, <1>7, <1>8
<1>10. c.polling
    BY <1>9 DEF One
<1>11. InCalls(c, "GET_DEBUG_EVENT") = 0 /\ One(c.pending # 0) = 0 /\ One(c.held # 0) = 0
    BY <1>6, <1>9 DEF Numbers, Stage, CallsTyped
<1>12. c.pending = 0 /\ c.held = 0
    BY <1>11 DEF One
<1>13. \A r \in {"CONTINUE_AFTER_EVENT", "STOPPED_AT_DEBUG_EVENT", "APPCALL"} : InCalls(c, r) = 0
    BY <1>6, <1>12 DEF Numbers, Stage, CallsTyped
<1> QED BY <1>7, <1>9, <1>10, <1>11, <1>12, <1>13

\* The client reads RPC_EVENT.
LEMMA EventRead ==
    ASSUME NEW s, NEW ts, NEW tc, NEW c, Good(s, ts, tc, c), Connected(s, ts, tc, c), net = "up",
           tc # << >>, Head(tc).code = "EVENT",
           NEW c2 \in ClientState, c2.calls = c.calls, c2.held = c.held, c2.gone = c.gone,
           c2.pending = Head(tc).n, c2.told = Head(tc).n, ~c2.polling
    PROVE  Good(s, Append(ts, Bare("EVOK")), Tail(tc), c2)
<1> DEFINE p == Head(tc)
           t == Tail(tc)
           e == Bare("EVOK")
           ts2 == Append(ts, e)
<1>1. /\ Count(tc, AnswersTo("GET_DEBUG_EVENT")) <= 1
      /\ s.got \in Nat /\ c.told \in Nat /\ s.got \in {c.told, c.told + 1}
      /\ ToClientOK(tc, s.got) /\ AnswerFirst(tc)
      /\ s \in Server /\ ts \in Seq(Packet) /\ tc \in Seq(Packet) /\ c \in ClientState
      /\ ServerInv(s, ts, c.told) /\ Conserved(s, ts, tc, c) /\ Stage(c) /\ Cycle(s, tc, c)
    BY GetAnswerOnce
<1>2. /\ t \in Seq(Packet) /\ p \in Packet
      /\ \A S : /\ Count(tc, S) = Count(t, S) + One(p \in S)
                /\ Count(tc, S) \in Nat /\ Count(t, S) \in Nat
      /\ ToClientOK(t, s.got) /\ AnswerFirst(t)
      /\ p \in News => p.n = s.got
    BY <1>1, ReadFacts
<1>3. /\ c.polling /\ Polls(s) = 0 /\ Count(tc, Coded("EVENT")) = 1
      /\ Count(tc, Empty) = 0 /\ Count(tc, Full) = 0
      /\ InCalls(c, "GET_DEBUG_EVENT") = 0 /\ c.pending = 0 /\ c.held = 0
      /\ \A r \in {"CONTINUE_AFTER_EVENT", "STOPPED_AT_DEBUG_EVENT", "APPCALL"} : InCalls(c, r) = 0
    BY EventAlone
<1>4. e \in Packet /\ e.code = "EVOK" /\ e.code # "OK"
    BY PacketsTyped
<1>5. NoGoodbye(ts)
    BY DEF Connected, NoGoodbye
<1>6. p.code = "EVENT" /\ c2.told = p.n /\ c2.pending = p.n
    OBVIOUS
<1> HIDE DEF p, t, e
<1>7. /\ \A x : p \notin AnswersTo(x)
      /\ \A x : p \in Coded(x) <=> x = "EVENT"
      /\ p \notin Empty /\ p \notin Full /\ p \in News
    BY <1>2, <1>6, CallClass
<1>8. c2.told = s.got /\ c2.pending = s.got
    BY <1>2, <1>6, <1>7
<1>9. ServerInv(s, ts, c2.told)
    BY <1>1, <1>8, ToldMore
<1>10. /\ ts2 \in Seq(Packet)
       /\ \A x \in Requests : Count(ts2, Coded(x)) = Count(ts, Coded(x))
       /\ \A b \in Callbacks : Count(ts2, AnswersTo(b)) = Count(ts, AnswersTo(b))
       /\ \A i \in 1 .. Len(ts2) : ts2[i] \notin AnswersTo("CLOSE")
       /\ ServerInv(s, ts2, c2.told)
  <2>1. c2.told \in Nat
      BY <1>1, <1>8
  <2>2. Added(s, ts, e, c2.told)
      BY <1>1, <1>4, <1>5, <1>9, <2>1, AddServer
  <2> QED BY <1>4, <2>2 DEF Added
<1> HIDE DEF ts2
<1>11. \A x : InCalls(c2, x) = InCalls(c, x)
    BY DEF InCalls
<1>12. /\ \A x : Count(t, AnswersTo(x)) = Count(tc, AnswersTo(x))
       /\ \A b \in Callbacks : Count(t, Coded(b)) = Count(tc, Coded(b))
       /\ Count(t, Full) = 0 /\ Count(t, Empty) = 0 /\ Count(t, Coded("EVENT")) = 0
  <2>1. \A S : p \notin S => Count(t, S) = Count(tc, S)
      BY <1>2 DEF One
  <2>2. \A b \in Callbacks : p \notin Coded(b)
      BY <1>7 DEF Callbacks
  <2>3. Count(t, Coded("EVENT")) = 0
    <3>1. One(p \in Coded("EVENT")) = 1
        BY <1>7 DEF One
    <3>2. Count(tc, Coded("EVENT")) = Count(t, Coded("EVENT")) + 1 /\ Count(t, Coded("EVENT")) \in Nat
        BY <1>2, <3>1
    <3> QED BY <1>3, <3>2
  <2> QED BY <1>3, <1>7, <2>1, <2>2, <2>3
<1>13. Conserved(s, ts2, t, c2)
    BY <1>1, <1>10, <1>11, <1>12 DEF Conserved, Balanced, Awaited, Pending
<1>14. Stage(c2)
  <2>1. One(c2.polling) = 0 /\ One(c2.held # 0) = 0 /\ One(c2.pending # 0) \in {0, 1}
      BY <1>3 DEF One
  <2> QED BY <1>3, <1>11, <2>1 DEF Stage
<1>15. Cycle(s, t, c2)
  <2>1. One(c2.polling) = 0
      BY DEF One
  <2>2. s.in_event => One(c2.pending # 0) = 1 /\ One(c2.held # 0) \in {0, 1}
    <3>1. s.in_event => s.got # 0
        BY <1>1 DEF ServerInv, EventsInOrder
    <3> QED BY <1>8, <3>1 DEF One
  <2>3. Count(t, AnswersTo("CONTINUE_AFTER_EVENT")) >= 1 => ~s.in_event
      BY <1>1, <1>12 DEF Cycle
  <2> QED BY <1>3, <1>8, <1>12, <2>1, <2>2, <2>3 DEF Cycle
<1>16. Connected(s, ts2, t, c2)
    BY <1>2, <1>10, <1>13, <1>14, <1>15 DEF Connected
<1>17. c2.told = c.told \/ c2.told = s.got
    BY <1>8
<1>18. Good(s, ts2, t, c2)
    BY <1>2, <1>10, <1>16, <1>17, ClientGood
<1> QED BY <1>18 DEF t, ts2, e

\* ClientEvent keeps the invariant.
LEMMA EventReadGood ==
    ASSUME IInv, ClientEvent
    PROVE  Good(srv, toServer, toClient, cl)'
<1>1. /\ Waiting \/ (Idle /\ cl.polling)
      /\ toClient # << >> /\ Head(toClient).code = "EVENT"
      /\ cl' = [cl EXCEPT !.pending = Head(toClient).n, !.told = Head(toClient).n,
                          !.polling = FALSE]
      /\ srv' = srv /\ toServer' = Append(toServer, Bare("EVOK")) /\ toClient' = Tail(toClient)
      /\ net' = net /\ made' = made
    BY DEF ClientEvent, ToClientArrived
<1>2. net = "up" /\ Connected(srv, toServer, toClient, cl)
    BY <1>1, ClientUp
<1>3. Head(toClient).n \in Nat
    BY <1>1, Basics, HeadTyped
<1>4. /\ cl' \in ClientState /\ cl'.calls = cl.calls /\ cl'.held = cl.held /\ cl'.gone = cl.gone
      /\ cl'.pending = Head(toClient).n /\ cl'.told = Head(toClient).n /\ ~cl'.polling
    BY <1>1, <1>3, Basics DEF ClientState
<1>5. Good(srv, Append(toServer, Bare("EVOK")), Tail(toClient), cl')
    BY <1>1, <1>2, <1>4, Basics, EventRead
<1>6. made' >= made /\ made' \in Nat
    BY <1>1, Basics
<1> QED BY <1>1, <1>5, <1>6, Basics, GoodPrimed

-----------------------------------------------------------------------------
(* The client reads a callback *)

\* The callback the client reads fits on its stack.
LEMMA CallbackFits ==
    ASSUME NEW s, NEW ts, NEW tc, NEW c, Good(s, ts, tc, c), Connected(s, ts, tc, c),
           c.calls = << >> \/ TopOf(c.calls) \in Requests,
           NEW b \in Callbacks, Count(tc, Coded(b)) >= 1
    PROVE  InCalls(c, b) = 0 /\ CallsShape(Append(c.calls, b))
<1> DEFINE n == Len(c.calls)
           q == Append(c.calls, b)
<1>1. /\ s \in Server /\ ts \in Seq(Packet) /\ tc \in Seq(Packet) /\ c \in ClientState
      /\ Conserved(s, ts, tc, c) /\ CallsShape(c.calls) /\ StackShape(s)
    BY GetAnswerOnce, GoodFacts
<1>2. Flowing(s, ts, tc, c)
    BY <1>1, Flows
<1>3. c.calls \in Seq(Requests \cup Callbacks) /\ n \in Nat
    BY <1>1, ClientTyped, LenProperties
<1>4. n <= 4
    BY <1>1 DEF CallsShape
<1>5. n # 0 => TopOf(c.calls) = c.calls[n] /\ c.calls[n] \in Requests
  <2>1. n # 0 => c.calls # << >>
      BY EmptySeq
  <2> QED BY <2>1 DEF TopOf
<1>6. n # 0 => n \in {1, 2, 3, 4}
  <2> SUFFICES ASSUME n # 0 PROVE n \in {1, 2, 3, 4}
      OBVIOUS
  <2>1. n \in Nat \ {0}
      BY <1>3
  <2> QED BY <1>4, <2>1, UpToFour
<1>7. n \in {0, 1, 3}
  <2>1. CASE n = 2
      BY <1>1, <1>5, <2>1 DEF CallsShape, Requests, Callbacks
  <2>2. CASE n = 4
      BY <1>1, <1>5, <2>2 DEF CallsShape, Requests
  <2> QED BY <1>6, <2>1, <2>2
<1>8. ASSUME b = "MSG" PROVE InCalls(c, b) = 0
  <2>1. \A i \in 1 .. n : c.calls[i] # "MSG"
    <3>1. CASE n = 0
        BY <3>1
    <3>2. CASE n = 1
      <4>1. c.calls[1] # "MSG" /\ \A i \in 1 .. n : i = 1
          BY <1>5, <3>2 DEF Requests
      <4> QED BY <4>1
    <3>3. CASE n = 3
      <4>1. c.calls[1] # "MSG" /\ c.calls[2] # "MSG" /\ c.calls[3] # "MSG"
          BY <1>1, <3>3 DEF CallsShape, Requests
      <4>2. \A i \in 1 .. n : i = 1 \/ i = 2 \/ i = 3
          BY <3>3
      <4> QED BY <4>1, <4>2
    <3> QED BY <1>7, <3>1, <3>2, <3>3
  <2> QED BY <1>8, <2>1 DEF InCalls, One
<1>9. ASSUME b # "MSG"
      PROVE  /\ Waits(s, b) = 1 /\ InCalls(c, b) = 0
             /\ \A x \in {"SET_DEBUG_NAMES", "HANDLE_DEBUG_EVENT"} : x # b => Waits(s, x) = 0
             /\ b = "SET_DEBUG_NAMES" => InCalls(c, "STOPPED_AT_DEBUG_EVENT") = 1
             /\ b = "HANDLE_DEBUG_EVENT" => InCalls(c, "APPCALL") = 1
  <2>1. b \in {"SET_DEBUG_NAMES", "HANDLE_DEBUG_EVENT"}
      BY <1>9 DEF Callbacks
  <2>2. Waits(s, b) # 0
    <3>1. Waits(s, b) = 0 => Count(tc, Coded(b)) = 0
        BY <1>2, FlowOut
    <3> QED BY <3>1
  <2>3. Waits(s, b) = 1 /\ \A x \in {"SET_DEBUG_NAMES", "HANDLE_DEBUG_EVENT"} : x # b => Waits(s, x) = 0
      BY <1>1, <2>1, <2>2, WaitsOnce
  <2>4. InCalls(c, b) = 0
      BY <1>2, <2>3, FlowOut
  <2>5. /\ b = "SET_DEBUG_NAMES" => Performs(s, "STOPPED_AT_DEBUG_EVENT") >= 1
        /\ b = "HANDLE_DEBUG_EVENT" => Performs(s, "APPCALL") >= 1
      BY <1>1, <2>3, WaitsOnce
  <2>6. \A r \in Requests : Performs(s, r) >= 1 => InCalls(c, r) = 1
      BY <1>2, FlowOut
  <2> QED BY <2>3, <2>4, <2>5, <2>6 DEF Requests
<1>10. InCalls(c, b) = 0
    BY <1>8, <1>9
<1>11. /\ Len(q) = n + 1 /\ q[n + 1] = b
       /\ \A i \in 1 .. n : q[i] = c.calls[i]
    BY <1>3, AppendProperties
<1> HIDE DEF q
<1>12. ASSUME n = 0 PROVE CallsShape(q)
  <2>1. \A x : InCalls(c, x) = 0
      BY <1>12 DEF InCalls, One
  <2>2. b = "MSG"
    <3>1. CASE b = "SET_DEBUG_NAMES"
        BY <1>9, <2>1, <3>1
    <3>2. CASE b = "HANDLE_DEBUG_EVENT"
        BY <1>9, <2>1, <3>2
    <3> QED BY <3>1, <3>2 DEF Callbacks
  <2>3. Len(q) = 1 /\ q[1] = "MSG"
      BY <1>11, <1>12, <2>2
  <2> QED BY <2>3 DEF CallsShape
<1>13. ASSUME n = 1 PROVE CallsShape(q)
  <2>1. Len(q) = 2 /\ q[1] = c.calls[1] /\ q[2] = b
      BY <1>11, <1>13
  <2>2. \A x : InCalls(c, x) = 1 => c.calls[1] = x
    <3>1. \A i \in 1 .. n : i = 1
        BY <1>13
    <3> QED BY <3>1 DEF InCalls, One
  <2>3. /\ b = "SET_DEBUG_NAMES" => c.calls[1] = "STOPPED_AT_DEBUG_EVENT"
        /\ b = "HANDLE_DEBUG_EVENT" => c.calls[1] = "APPCALL"
      BY <1>9, <2>2
  <2>4. c.calls[1] \in Requests
      BY <1>5, <1>13
  <2> QED BY <2>1, <2>3, <2>4 DEF CallsShape
<1>14. ASSUME n = 3 PROVE CallsShape(q)
  <2>1. /\ Len(q) = 4 /\ q[4] = b
        /\ q[1] = c.calls[1] /\ q[2] = c.calls[2] /\ q[3] = c.calls[3]
    <3>1. 1 \in 1 .. n /\ 2 \in 1 .. n /\ 3 \in 1 .. n
        BY <1>14
    <3> QED BY <1>11, <1>14, <3>1
  <2>2. /\ c.calls[1] \in Requests /\ c.calls[2] \in Callbacks /\ c.calls[2] # "MSG"
        /\ c.calls[2] = "SET_DEBUG_NAMES" => c.calls[1] = "STOPPED_AT_DEBUG_EVENT"
        /\ c.calls[2] = "HANDLE_DEBUG_EVENT" => c.calls[1] = "APPCALL"
        /\ c.calls[3] = "OTHER"
      BY <1>1, <1>14 DEF CallsShape
  <2>3. InCalls(c, c.calls[2]) = 1
    <3>1. 2 \in 1 .. n
        BY <1>14
    <3> QED BY <3>1 DEF InCalls, One
  <2>4. Waits(s, c.calls[2]) # 0
    <3>1. Waits(s, c.calls[2]) = 0 => InCalls(c, c.calls[2]) = 0
        BY <1>2, <2>2, FlowOut
    <3> QED BY <2>3, <3>1
  <2>5. b = "MSG"
    <3> SUFFICES ASSUME b # "MSG" PROVE FALSE
        OBVIOUS
    <3>1. c.calls[2] \in {"SET_DEBUG_NAMES", "HANDLE_DEBUG_EVENT"}
        BY <2>2 DEF Callbacks
    <3>2. c.calls[2] # b
        BY <1>10, <2>3
    <3> QED BY <1>9, <2>4, <3>1, <3>2
  <2> QED BY <2>1, <2>2, <2>5 DEF CallsShape
<1> QED BY <1>7, <1>10, <1>12, <1>13, <1>14 DEF q

\* Two clients with the same stack.
LEMMA SameCalls ==
    ASSUME NEW c, NEW c2, Stage(c), c2.held = c.held, c2.pending = c.pending,
           c2.polling = c.polling, \A r \in Main : InCalls(c2, r) = InCalls(c, r)
    PROVE  Stage(c2)
<1>1. /\ InCalls(c2, "GET_DEBUG_EVENT") = InCalls(c, "GET_DEBUG_EVENT")
      /\ InCalls(c2, "CONTINUE_AFTER_EVENT") = InCalls(c, "CONTINUE_AFTER_EVENT")
      /\ InCalls(c2, "STOPPED_AT_DEBUG_EVENT") = InCalls(c, "STOPPED_AT_DEBUG_EVENT")
      /\ InCalls(c2, "APPCALL") = InCalls(c, "APPCALL")
    BY DEF Main, Requests
<1> QED BY <1>1 DEF Stage

\* The client reads a callback.
LEMMA CallbackRead ==
    ASSUME NEW s, NEW ts, NEW tc, NEW c, Good(s, ts, tc, c), Connected(s, ts, tc, c), net = "up",
           tc # << >>, Head(tc).code \in Callbacks, c.calls = << >> \/ TopOf(c.calls) \in Requests,
           NEW c2 \in ClientState, c2.calls = Append(c.calls, Head(tc).code), c2.held = c.held,
           c2.gone = c.gone, c2.pending = c.pending, c2.polling = c.polling,
           c2.told = IF Head(tc).n = 0 THEN c.told ELSE Head(tc).n
    PROVE  Good(s, ts, Tail(tc), c2)
<1> DEFINE p == Head(tc)
           t == Tail(tc)
           b == p.code
<1>1. /\ Count(tc, AnswersTo("GET_DEBUG_EVENT")) <= 1
      /\ s.got \in Nat /\ c.told \in Nat /\ s.got \in {c.told, c.told + 1}
      /\ ToClientOK(tc, s.got) /\ AnswerFirst(tc)
      /\ s \in Server /\ ts \in Seq(Packet) /\ tc \in Seq(Packet) /\ c \in ClientState
      /\ ServerInv(s, ts, c.told) /\ Conserved(s, ts, tc, c) /\ Stage(c) /\ Cycle(s, tc, c)
    BY GetAnswerOnce
<1>2. /\ t \in Seq(Packet) /\ p \in Packet
      /\ \A S : /\ Count(tc, S) = Count(t, S) + One(p \in S)
                /\ Count(tc, S) \in Nat /\ Count(t, S) \in Nat
      /\ ToClientOK(t, s.got) /\ AnswerFirst(t)
      /\ p.n # 0 => p \in News
      /\ p \in News => (IF p.n = 0 THEN c.told ELSE p.n) = s.got
    BY <1>1, ReadFacts
<1>3. b \in Callbacks /\ b # "OK" /\ b \notin Requests /\ b # "EVENT"
    BY DEF Callbacks, Requests
<1>4. c2.told = (IF p.n = 0 THEN c.told ELSE p.n) /\ c2.calls = Append(c.calls, b)
    OBVIOUS
<1> HIDE DEF p, t
<1>5. /\ \A x : p \notin AnswersTo(x)
      /\ \A x : p \in Coded(x) <=> b = x
      /\ p \notin Empty /\ p \notin Full
    BY <1>2, <1>3, CallClass
<1> HIDE DEF b
<1>6. Count(tc, Coded(b)) >= 1
  <2>1. One(p \in Coded(b)) = 1
      BY <1>5 DEF One
  <2>2. Count(tc, Coded(b)) = Count(t, Coded(b)) + 1 /\ Count(t, Coded(b)) \in Nat
      BY <1>2, <2>1
  <2> QED BY <2>2
<1>7. InCalls(c, b) = 0 /\ CallsShape(Append(c.calls, b))
    BY <1>3, <1>6, CallbackFits
<1>8. \A x : InCalls(c2, x) = InCalls(c, x) + One(x = b)
  <2>1. c.calls \in Seq(Requests \cup Callbacks) /\ b \in Requests \cup Callbacks
      BY <1>1, <1>3, ClientTyped
  <2> QED BY <1>4, <1>7, <2>1, CallsAppend, SMTT(20)
<1>9. \A r \in Requests : InCalls(c2, r) = InCalls(c, r)
  <2> SUFFICES ASSUME NEW r \in Requests PROVE InCalls(c2, r) = InCalls(c, r)
      OBVIOUS
  <2>1. One(r = b) = 0 /\ InCalls(c, r) \in Nat
      BY <1>3 DEF One, InCalls
  <2> QED BY <1>8, <2>1
<1>10. \A S : p \notin S => Count(t, S) = Count(tc, S)
    BY <1>2 DEF One
<1>11. Conserved(s, ts, t, c2)
  <2>1. ASSUME NEW r \in Requests PROVE Balanced(s, ts, t, c2, r)
      BY <1>1, <1>5, <1>9, <1>10 DEF Conserved, Balanced
  <2>2. ASSUME NEW x \in Callbacks PROVE Awaited(s, ts, t, c2, x)
    <3>1. Waits(s, x) = Count(tc, Coded(x)) + InCalls(c, x) + Count(ts, AnswersTo(x))
        BY <1>1 DEF Conserved, Awaited
    <3>2. One(p \in Coded(x)) = One(x = b) /\ One(x = b) \in Nat
        BY <1>5 DEF One
    <3>3. /\ Count(tc, Coded(x)) = Count(t, Coded(x)) + One(x = b) /\ Count(t, Coded(x)) \in Nat
          /\ InCalls(c2, x) = InCalls(c, x) + One(x = b)
        BY <1>2, <1>8, <3>2
    <3>4. InCalls(c, x) \in Nat /\ Count(ts, AnswersTo(x)) \in Nat
      <4>1. InCalls(c, x) \in Nat
          BY DEF InCalls, One
      <4> QED BY <1>1, <4>1, CountsNat
    <3>5. Waits(s, x) = Count(t, Coded(x)) + InCalls(c2, x) + Count(ts, AnswersTo(x))
        BY <3>1, <3>2, <3>3, <3>4
    <3> QED BY <3>5 DEF Awaited
  <2> QED BY <2>1, <2>2 DEF Conserved
<1>12. Stage(c2)
    BY <1>1, <1>9, SameCalls DEF Main
<1>13. c2.told = c.told \/ c2.told = s.got
    BY <1>2, <1>4
<1>14. Cycle(s, t, c2)
  <2>1. /\ Count(t, Empty) = Count(tc, Empty) /\ Count(t, Full) = Count(tc, Full)
        /\ Count(t, AnswersTo("CONTINUE_AFTER_EVENT")) = Count(tc, AnswersTo("CONTINUE_AFTER_EVENT"))
        /\ Count(t, Coded("EVENT")) = Count(tc, Coded("EVENT"))
      BY <1>3, <1>5, <1>10
  <2>2. s.got # c2.told => Count(t, News) >= 1
    <3> SUFFICES ASSUME s.got # c2.told PROVE Count(t, News) >= 1
        OBVIOUS
    <3>1. p \notin News
        BY <1>2, <1>4
    <3>2. c2.told = c.told
        BY <1>13
    <3>3. Count(tc, News) >= 1
        BY <1>1, <3>2 DEF Cycle
    <3> QED BY <1>10, <3>1, <3>3
  <2>3. Cycle(s, tc, c)
      BY <1>1
  <2> QED BY <2>1, <2>2, <2>3 DEF Cycle
<1>15. ServerInv(s, ts, c2.told)
    BY <1>1, <1>13, ToldMore
<1>16. Connected(s, ts, t, c2)
    BY <1>2, <1>4, <1>7, <1>11, <1>12, <1>14 DEF Connected
<1>17. Good(s, ts, t, c2)
    BY <1>1, <1>2, <1>13, <1>15, <1>16, ClientGood
<1> QED BY <1>17 DEF t

\* ClientCallback keeps the invariant.
LEMMA CallbackReadGood ==
    ASSUME IInv, ClientCallback
    PROVE  Good(srv, toServer, toClient, cl)'
<1> DEFINE p == Head(toClient)
<1>1. /\ Waiting \/ (Idle /\ cl.polling)
      /\ toClient # << >> /\ p.code \in Callbacks
      /\ cl' = [cl EXCEPT !.calls = Append(@, p.code), !.told = IF p.n = 0 THEN @ ELSE p.n]
      /\ srv' = srv /\ toServer' = toServer /\ toClient' = Tail(toClient)
      /\ net' = net /\ made' = made
    BY DEF ClientCallback, ToClientArrived
<1>2. net = "up" /\ Connected(srv, toServer, toClient, cl)
    BY <1>1, ClientUp
<1>3. cl.calls = << >> \/ TopOf(cl.calls) \in Requests
    BY <1>1 DEF Waiting, Idle
<1>4. p.n \in Nat
    BY <1>1, Basics, HeadTyped
<1>5. /\ cl.calls \in Seq(Requests \cup Callbacks) /\ p.code \in Requests \cup Callbacks
      /\ cl.told \in Nat
    BY <1>1, Basics, ClientTyped
<1>6. Append(cl.calls, p.code) \in Seq(Requests \cup Callbacks)
    BY <1>5, AppendProperties
<1> HIDE DEF p
<1>7. /\ cl' \in ClientState /\ cl'.calls = Append(cl.calls, p.code) /\ cl'.held = cl.held
      /\ cl'.gone = cl.gone /\ cl'.pending = cl.pending /\ cl'.polling = cl.polling
      /\ cl'.told = IF p.n = 0 THEN cl.told ELSE p.n
    BY <1>1, <1>4, <1>5, <1>6, Basics DEF ClientState
<1>8. Good(srv, toServer, Tail(toClient), cl')
    BY <1>1, <1>2, <1>3, <1>7, Basics, CallbackRead DEF p
<1>9. made' >= made /\ made' \in Nat
    BY <1>1, Basics
<1> QED BY <1>1, <1>8, <1>9, Basics, GoodPrimed

-----------------------------------------------------------------------------
(* The client answers a callback *)

\* The callback the client answers is not below on its stack.
LEMMA CallbackPops ==
    ASSUME NEW c \in ClientState, CallsShape(c.calls), c.calls # << >>,
           TopOf(c.calls) \in Callbacks
    PROVE  TopOnce(c) /\ (\A c2 : c2.calls = Pop(c.calls) => CallsShape(c2.calls))
<1> DEFINE n == Len(c.calls)
<1>1. c.calls \in Seq(Requests \cup Callbacks) /\ n \in Nat \ {0}
      /\ TopOf(c.calls) = c.calls[n]
    BY ClientTyped, Popping DEF TopOf
<1>2. n <= 4
    BY DEF CallsShape
<1>3. n \in {1, 2, 3, 4}
    BY <1>1, <1>2, UpToFour
<1>4. n # 3
  <2> SUFFICES ASSUME n = 3 PROVE FALSE
      OBVIOUS
  <2> QED BY <1>1 DEF CallsShape, Callbacks
<1>5. \A i \in 1 .. n - 1 : c.calls[i] # TopOf(c.calls)
  <2>1. CASE n = 1
      BY <2>1
  <2>2. CASE n = 2
    <3>1. c.calls[1] \in Requests
        BY <2>2 DEF CallsShape
    <3>2. c.calls[1] # TopOf(c.calls)
        BY <3>1 DEF Requests, Callbacks
    <3>3. \A i \in 1 .. n - 1 : i = 1
        BY <2>2
    <3> QED BY <3>2, <3>3
  <2>3. CASE n = 4
    <3>1. c.calls[1] \in Requests /\ c.calls[2] # "MSG" /\ c.calls[3] = "OTHER" /\ c.calls[4] = "MSG"
        BY <2>3 DEF CallsShape
    <3>2. \A i \in 1 .. n - 1 : i = 1 \/ i = 2 \/ i = 3
        BY <2>3
    <3> QED BY <1>1, <2>3, <3>1, <3>2 DEF Requests
  <2> QED BY <1>3, <1>4, <2>1, <2>2, <2>3
<1>6. ASSUME NEW c2, c2.calls = Pop(c.calls) PROVE CallsShape(c2.calls)
  <2>1. Len(c2.calls) = n - 1 /\ \A i \in 1 .. n - 1 : c2.calls[i] = c.calls[i]
      BY <1>1, <1>6, Popping
  <2>2. CASE n = 1
    <3>1. Len(c2.calls) = 0
        BY <2>1, <2>2
    <3> QED BY <3>1 DEF CallsShape
  <2>3. CASE n = 2
    <3>1. c.calls[1] \in Requests
        BY <2>3 DEF CallsShape
    <3>2. 1 \in 1 .. n - 1
        BY <2>3
    <3>3. Len(c2.calls) = 1 /\ c2.calls[1] = c.calls[1]
        BY <2>1, <2>3, <3>2
    <3> QED BY <3>1, <3>3 DEF CallsShape
  <2>4. CASE n = 4
    <3>1. /\ c.calls[1] \in Requests /\ c.calls[2] \in Callbacks /\ c.calls[2] # "MSG"
          /\ c.calls[2] = "SET_DEBUG_NAMES" => c.calls[1] = "STOPPED_AT_DEBUG_EVENT"
          /\ c.calls[2] = "HANDLE_DEBUG_EVENT" => c.calls[1] = "APPCALL"
          /\ c.calls[3] = "OTHER"
        BY <2>4 DEF CallsShape
    <3>2. 1 \in 1 .. n - 1 /\ 2 \in 1 .. n - 1 /\ 3 \in 1 .. n - 1
        BY <2>4
    <3>3. /\ Len(c2.calls) = 3 /\ c2.calls[1] = c.calls[1]
          /\ c2.calls[2] = c.calls[2] /\ c2.calls[3] = c.calls[3]
        BY <2>1, <2>4, <3>2
    <3> QED BY <3>1, <3>3 DEF CallsShape
  <2> QED BY <1>3, <1>4, <2>2, <2>3, <2>4
<1> QED BY <1>1, <1>5, <1>6 DEF TopOnce

\* At the end of a HANDLE_DEBUG_EVENT callback the client has been told of everything.
LEMMA ShownAll ==
    ASSUME NEW s, NEW ts, NEW tc, NEW c, Good(s, ts, tc, c), Connected(s, ts, tc, c),
           c.calls # << >>, TopOf(c.calls) = "HANDLE_DEBUG_EVENT"
    PROVE  s.got = c.told
<1>1. /\ s \in Server /\ ts \in Seq(Packet) /\ tc \in Seq(Packet) /\ c \in ClientState
      /\ Conserved(s, ts, tc, c) /\ Stage(c) /\ StackShape(s)
    BY GetAnswerOnce, GoodFacts
<1>2. /\ Waits(s, "HANDLE_DEBUG_EVENT") = 1 /\ Count(tc, Coded("HANDLE_DEBUG_EVENT")) = 0
    BY InCallback
<1>3. Performs(s, "APPCALL") >= 1
    BY <1>1, <1>2, WaitsOnce
<1>4. Flowing(s, ts, tc, c)
    BY <1>1, Flows
<1>5. InCalls(c, "APPCALL") = 1 /\ Count(tc, AnswersTo("APPCALL")) = 0
    BY <1>3, <1>4, FlowOut DEF Requests
<1>6. CallsTyped(c)
    BY CallsNumbers
<1>7. c.held # 0
    BY <1>1, <1>5, <1>6 DEF Stage, CallsTyped
<1>8. One(c.held # 0) = 1
    BY <1>7 DEF One
<1>9. InCalls(c, "GET_DEBUG_EVENT") = 0 /\ One(c.polling) = 0
    BY <1>1, <1>6, <1>8 DEF Stage, CallsTyped
<1>10. ~c.polling /\ Count(tc, AnswersTo("GET_DEBUG_EVENT")) = 0
    BY <1>4, <1>9, FlowOut DEF One, Requests
<1>11. Numbers(s, ts, tc, c)
    BY <1>1, ConnectedNumbers
<1> QED BY <1>2, <1>5, <1>10, <1>11, NewsRead

\* The answer to a callback arrives at a call that waits for it.
LEMMA AnswerServer ==
    ASSUME NEW s \in Server, NEW ts \in Seq(Packet), NEW ts2 \in Seq(Packet), NEW tc \in Seq(Packet),
           NEW c2, NEW told \in Nat, ServerInv(s, ts, told), NEW b \in Callbacks,
           \A x \in Requests : Count(ts2, Coded(x)) = Count(ts, Coded(x)),
           \A x \in Callbacks : x # b => Count(ts2, AnswersTo(x)) = Count(ts, AnswersTo(x)),
           Conserved(s, ts2, tc, c2), ToServerOK(ts2), GoodbyeLast(s, ts2),
           b # "MSG" => Pending(s, ts, "OTHER") = 0 /\ ~s.network_error_code,
           b = "HANDLE_DEBUG_EVENT" => told = s.got
    PROVE  ServerInv(s, ts2, told)
<1>1. /\ StackShape(s) /\ OneAtATime(s, ts) /\ MainWhenIdle(s, ts) /\ AnswersExpected(s, ts)
      /\ EventsInOrder(s, ts, told)
    BY DEF ServerInv
<1>2. \A x \in Requests : Pending(s, ts2, x) = Pending(s, ts, x)
    BY DEF Pending
<1>3. OneAtATime(s, ts2)
    BY <1>1, <1>2 DEF OneAtATime, Requests
<1>4. MainWhenIdle(s, ts2)
  <2>1. "OTHER" \in Requests /\ Main \subseteq Requests
      BY DEF Main, Requests
  <2> QED BY <1>1, <2>1 DEF MainWhenIdle
<1>5. \A x \in Callbacks : Count(ts2, AnswersTo(x)) <= Waits(s, x)
  <2> SUFFICES ASSUME NEW x \in Callbacks PROVE Count(ts2, AnswersTo(x)) <= Waits(s, x)
      OBVIOUS
  <2>1. Waits(s, x) = Count(tc, Coded(x)) + InCalls(c2, x) + Count(ts2, AnswersTo(x))
      BY DEF Conserved, Awaited
  <2>2. Count(tc, Coded(x)) \in Nat /\ Count(ts2, AnswersTo(x)) \in Nat
      BY CountsNat
  <2>3. InCalls(c2, x) \in Nat
      BY DEF InCalls, One
  <2> QED BY <2>1, <2>2, <2>3
<1>6. AnswersExpected(s, ts2)
  <2>1. /\ Count(ts2, AnswersTo("SET_DEBUG_NAMES")) <= Waits(s, "SET_DEBUG_NAMES")
        /\ Count(ts2, AnswersTo("HANDLE_DEBUG_EVENT")) <= Waits(s, "HANDLE_DEBUG_EVENT")
        /\ Count(ts2, AnswersTo("MSG")) <= Waits(s, "MSG")
      BY <1>5 DEF Callbacks
  <2>2. Count(ts2, AnswersTo("SET_DEBUG_NAMES")) + Count(ts2, AnswersTo("HANDLE_DEBUG_EVENT")) >= 1 =>
           ~s.network_error_code /\ Pending(s, ts2, "OTHER") = 0
    <3>1. Pending(s, ts2, "OTHER") = Pending(s, ts, "OTHER")
        BY <1>2 DEF Requests
    <3>2. CASE b = "MSG"
      <4>1. /\ Count(ts2, AnswersTo("SET_DEBUG_NAMES")) = Count(ts, AnswersTo("SET_DEBUG_NAMES"))
            /\ Count(ts2, AnswersTo("HANDLE_DEBUG_EVENT")) = Count(ts, AnswersTo("HANDLE_DEBUG_EVENT"))
          BY <3>2 DEF Callbacks
      <4> QED BY <1>1, <3>1, <4>1 DEF AnswersExpected
    <3>3. CASE b # "MSG"
        BY <3>1, <3>3
    <3> QED BY <3>2, <3>3
  <2> QED BY <2>1, <2>2 DEF AnswersExpected
<1>7. EventsInOrder(s, ts2, told)
  <2>1. /\ Pending(s, ts2, "GET_DEBUG_EVENT") = Pending(s, ts, "GET_DEBUG_EVENT")
        /\ Pending(s, ts2, "CONTINUE_AFTER_EVENT") = Pending(s, ts, "CONTINUE_AFTER_EVENT")
        /\ Count(ts2, Coded("APPCALL")) = Count(ts, Coded("APPCALL"))
      BY <1>2 DEF Requests
  <2>2. CASE b = "HANDLE_DEBUG_EVENT"
      BY <1>1, <2>1, <2>2 DEF EventsInOrder
  <2>3. CASE b # "HANDLE_DEBUG_EVENT"
    <3>1. Count(ts2, AnswersTo("HANDLE_DEBUG_EVENT")) = Count(ts, AnswersTo("HANDLE_DEBUG_EVENT"))
        BY <2>3 DEF Callbacks
    <3> QED BY <1>1, <2>1, <3>1 DEF EventsInOrder
  <2> QED BY <2>2, <2>3
<1> QED BY <1>1, <1>3, <1>4, <1>6, <1>7 DEF ServerInv

\* The client answers the callback on top of its stack.
LEMMA AnswerGiven ==
    ASSUME NEW s, NEW ts, NEW tc, NEW c, Good(s, ts, tc, c), Connected(s, ts, tc, c), net = "up",
           c.calls # << >>, TopOf(c.calls) \in Callbacks,
           NEW p \in Packet, p.code = "OK", p.re = TopOf(c.calls),
           NEW c2 \in ClientState, c2.calls = Pop(c.calls), c2.held = c.held, c2.told = c.told,
           c2.gone = c.gone, c2.pending = c.pending, c2.polling = c.polling
    PROVE  Good(s, Append(ts, p), tc, c2)
<1> DEFINE b == TopOf(c.calls)
           ts2 == Append(ts, p)
<1>1. /\ s \in Server /\ ts \in Seq(Packet) /\ tc \in Seq(Packet) /\ c \in ClientState
      /\ c.told \in Nat
      /\ ServerInv(s, ts, c.told) /\ Conserved(s, ts, tc, c) /\ Stage(c) /\ Cycle(s, tc, c)
      /\ CallsShape(c.calls)
    BY GetAnswerOnce
<1>2. TopOnce(c) /\ CallsShape(c2.calls)
    BY <1>1, CallbackPops
<1>3. CallGone(c, c2)
    BY <1>2, CallsPop
<1>4. \A x : InCalls(c2, x) = InCalls(c, x) - One(x = b)
    BY <1>3 DEF CallGone
<1>5. /\ ts2 \in Seq(Packet) /\ \A S : Count(ts2, S) = Count(ts, S) + One(p \in S)
    BY <1>1, AppendCounts
<1>6. /\ Len(ts2) = Len(ts) + 1 /\ Len(ts) \in Nat
      /\ \A i \in 1 .. Len(ts) : ts2[i] = ts[i]
      /\ ts2[Len(ts) + 1] = p
      /\ \A i \in 1 .. Len(ts2) : i \in 1 .. Len(ts) \/ i = Len(ts) + 1
    BY <1>1, AppendProperties, LenProperties
<1>7. b \in Callbacks /\ p.re = b /\ b \notin Requests /\ b # "CLOSE"
    BY DEF Callbacks, Requests
<1> HIDE DEF ts2
<1>8. /\ \A x : p \in AnswersTo(x) <=> b = x
      /\ \A x : p \in Coded(x) <=> x = "OK"
    BY <1>7, AnswerClass
<1>9. \A S : Count(ts, S) \in Nat /\ Count(ts2, S) \in Nat /\ Count(tc, S) \in Nat
    BY <1>1, <1>5, CountsNat
<1>10. \A S : p \notin S => Count(ts2, S) = Count(ts, S)
    BY <1>5, <1>9 DEF One
<1>11. \A x \in Requests : Count(ts2, Coded(x)) = Count(ts, Coded(x)) /\ InCalls(c2, x) = InCalls(c, x)
  <2> SUFFICES ASSUME NEW x \in Requests
               PROVE  Count(ts2, Coded(x)) = Count(ts, Coded(x)) /\ InCalls(c2, x) = InCalls(c, x)
      OBVIOUS
  <2>1. p \notin Coded(x)
      BY <1>8 DEF Requests
  <2>2. One(x = b) = 0 /\ InCalls(c, x) \in Nat
      BY <1>7 DEF One, InCalls
  <2> QED BY <1>4, <1>10, <2>1, <2>2
<1>12. Conserved(s, ts2, tc, c2)
  <2>1. ASSUME NEW r \in Requests PROVE Balanced(s, ts2, tc, c2, r)
      BY <1>1, <1>11 DEF Conserved, Balanced, Pending
  <2>2. ASSUME NEW x \in Callbacks PROVE Awaited(s, ts2, tc, c2, x)
    <3>1. Waits(s, x) = Count(tc, Coded(x)) + InCalls(c, x) + Count(ts, AnswersTo(x))
        BY <1>1 DEF Conserved, Awaited
    <3>2. One(p \in AnswersTo(x)) = One(x = b) /\ One(x = b) \in Nat
        BY <1>8 DEF One
    <3>3. /\ Count(ts2, AnswersTo(x)) = Count(ts, AnswersTo(x)) + One(x = b)
          /\ InCalls(c2, x) = InCalls(c, x) - One(x = b)
        BY <1>4, <1>5, <3>2
    <3>4. InCalls(c, x) \in Nat
        BY DEF InCalls, One
    <3>5. Count(tc, Coded(x)) \in Nat /\ Count(ts, AnswersTo(x)) \in Nat
        BY <1>9
    <3>6. Waits(s, x) = Count(tc, Coded(x)) + InCalls(c2, x) + Count(ts2, AnswersTo(x))
        BY <3>1, <3>2, <3>3, <3>4, <3>5
    <3> QED BY <3>6 DEF Awaited
  <2> QED BY <2>1, <2>2 DEF Conserved
<1>13. \A i \in 1 .. Len(ts2) : ts2[i] \notin AnswersTo("CLOSE")
  <2>1. \A i \in 1 .. Len(ts) : ts[i] \notin AnswersTo("CLOSE")
      BY DEF Connected
  <2> QED BY <1>6, <1>7, <1>8, <2>1
<1>14. GoodbyeLast(s, ts2)
    BY <1>13 DEF GoodbyeLast
<1>15. ToServerOK(ts2)
  <2>1. ToServerOK(ts)
      BY <1>1 DEF ServerInv
  <2> QED BY <1>6, <1>7, <2>1 DEF ToServerOK
<1>16. b # "MSG" => Pending(s, ts, "OTHER") = 0 /\ ~s.network_error_code
  <2> SUFFICES ASSUME b # "MSG" PROVE Pending(s, ts, "OTHER") = 0 /\ ~s.network_error_code
      OBVIOUS
  <2>1. b \in {"SET_DEBUG_NAMES", "HANDLE_DEBUG_EVENT"}
      BY <1>7 DEF Callbacks
  <2>2. InCalls(c, "OTHER") = 0
      BY <2>1, InCallback
  <2>3. Flowing(s, ts, tc, c)
      BY <1>1, Flows
  <2> QED BY <2>2, <2>3, FlowOut DEF Requests, Connected
<1>17. b = "HANDLE_DEBUG_EVENT" => c.told = s.got
    BY ShownAll
<1>18. ServerInv(s, ts2, c.told)
  <2>1. \A x \in Callbacks : x # b => Count(ts2, AnswersTo(x)) = Count(ts, AnswersTo(x))
      BY <1>8, <1>10
  <2> HIDE DEF b
  <2> QED BY <1>1, <1>5, <1>7, <1>11, <1>12, <1>14, <1>15, <1>16, <1>17, <2>1, AnswerServer
<1>19. Stage(c2)
    BY <1>1, <1>11, SameCalls DEF Main
<1>20. Cycle(s, tc, c2)
    BY <1>1 DEF Cycle
<1>21. Connected(s, ts2, tc, c2)
    BY <1>2, <1>12, <1>13, <1>19, <1>20 DEF Connected
<1>22. ServerInv(s, ts2, c2.told)
    BY <1>18
<1>23. Good(s, ts2, tc, c2)
    BY <1>1, <1>5, <1>21, <1>22, ClientGood
<1> QED BY <1>23 DEF ts2

-----------------------------------------------------------------------------
(* The client goes, and every step *)

\* ClientAnswers keeps the invariant.
LEMMA AnswersGood ==
    ASSUME IInv, ClientAnswers
    PROVE  Good(srv, toServer, toClient, cl)'
<1>1. PICK good \in BOOLEAN :
          toServer' = Append(toServer, [Answer(TopOf(cl.calls), 0) EXCEPT !.good = good])
    BY DEF ClientAnswers
<1> DEFINE p == [Answer(TopOf(cl.calls), 0) EXCEPT !.good = good]
<1>2. /\ Answering /\ cl' = [cl EXCEPT !.calls = Pop(@)]
      /\ srv' = srv /\ toClient' = toClient /\ net' = net /\ made' = made
    BY DEF ClientAnswers
<1>3. net = "up" /\ Connected(srv, toServer, toClient, cl)
    BY <1>2, ClientUp
<1>4. cl.calls # << >> /\ TopOf(cl.calls) \in Callbacks
    BY <1>2 DEF Answering
<1>5. p \in Packet /\ p.code = "OK" /\ p.re = TopOf(cl.calls)
  <2> DEFINE a == Answer(TopOf(cl.calls), 0)
  <2>1. a \in Packet /\ a.code = "OK" /\ a.re = TopOf(cl.calls)
      BY <1>4, PacketsTyped
  <2> HIDE DEF a
  <2>2. [a EXCEPT !.good = good] \in Packet /\ [a EXCEPT !.good = good].code = "OK"
        /\ [a EXCEPT !.good = good].re = TopOf(cl.calls)
      BY <2>1 DEF Packet
  <2> QED BY <2>2 DEF a
<1> HIDE DEF p
<1>6. Pop(cl.calls) \in Seq(Requests \cup Callbacks)
    BY <1>4, Basics, ClientTyped, Popping
<1>7. /\ cl' \in ClientState /\ cl'.calls = Pop(cl.calls) /\ cl'.held = cl.held
      /\ cl'.told = cl.told /\ cl'.gone = cl.gone /\ cl'.pending = cl.pending
      /\ cl'.polling = cl.polling
    BY <1>2, <1>6, Basics DEF ClientState
<1>8. Good(srv, Append(toServer, p), toClient, cl')
    BY <1>3, <1>4, <1>5, <1>7, Basics, AnswerGiven
<1>9. made' >= made /\ made' \in Nat
    BY <1>2, Basics
<1> QED BY <1>1, <1>2, <1>8, <1>9, Basics, GoodPrimed DEF p

\* The client has gone; what it sent last is on its way.
LEMMA GoneGood ==
    ASSUME IInv, net = "up", cl' = Gone, toClient' = << >>, net' = "down", srv' = srv, made' = made,
           toServer' \in Seq(Packet), ServerInv(srv, toServer', cl.told)
    PROVE  Good(srv, toServer, toClient, cl)'
<1>1. Connected(srv, toServer, toClient, cl) /\ Good(srv, toServer, toClient, cl) /\ cl \in ClientState
    BY Basics, GoodFacts
<1>2. << >> \in Seq(Requests \cup Callbacks)
    BY EmptySeq
<1>3. /\ cl' \in ClientState /\ cl'.calls = << >> /\ cl'.gone /\ cl'.told = cl.told
    BY <1>1, <1>2 DEF ClientState, Gone
<1>4. Disconnected(srv, toServer', << >>, cl')
    BY <1>1, <1>3 DEF Disconnected, Connected
<1>5. /\ srv \in Server /\ ~srv.has_pending_event /\ srv.got <= made /\ StackWaits(srv)
      /\ (srv.pc = "loop" => cl.told = srv.got)
    BY <1>1, GoodFacts
<1>6. << >> \in Seq(Packet)
    BY EmptySeq
<1> QED BY <1>3, <1>4, <1>5, <1>6 DEF Good, Session, Linked

\* ClientCloses keeps the invariant.
LEMMA ClosesGood ==
    ASSUME IInv, ClientCloses
    PROVE  Good(srv, toServer, toClient, cl)'
<1> DEFINE p == Answer("CLOSE", 0)
<1>1. /\ Idle /\ net = "up" /\ cl' = Gone /\ toServer' = Append(toServer, p)
      /\ toClient' = << >> /\ net' = "down" /\ srv' = srv /\ made' = made
    BY DEF ClientCloses
<1>2. Connected(srv, toServer, toClient, cl) /\ Good(srv, toServer, toClient, cl)
    BY <1>1, ClientUp, Basics
<1>3. /\ srv \in Server /\ toServer \in Seq(Packet) /\ cl.told \in Nat
      /\ toClient \in Seq(Packet)
      /\ ServerInv(srv, toServer, cl.told) /\ Conserved(srv, toServer, toClient, cl)
    BY <1>2, GetAnswerOnce
<1>4. p \in Packet /\ p.code = "OK" /\ p.re = "CLOSE"
    BY PacketsTyped
<1> HIDE DEF p
<1>5. \A r \in Requests : Pending(srv, toServer, r) = 0
  <2>1. \A x : InCalls(cl, x) = 0
      BY <1>1, CallsNone DEF Idle
  <2>2. Flowing(srv, toServer, toClient, cl)
      BY <1>3, Flows
  <2> QED BY <2>1, <2>2, FlowOut
<1>6. NoGoodbye(toServer)
    BY <1>2 DEF Connected, NoGoodbye
<1>7. Added(srv, toServer, p, cl.told)
    BY <1>3, <1>4, <1>5, <1>6, AddServer
<1>8. toServer' \in Seq(Packet) /\ ServerInv(srv, toServer', cl.told)
    BY <1>1, <1>7 DEF Added
<1> QED BY <1>1, <1>8, GoneGood

\* ConnectionBreaks keeps the invariant.
LEMMA BreaksGood ==
    ASSUME IInv, ConnectionBreaks
    PROVE  Good(srv, toServer, toClient, cl)'
<1>1. PICK k \in 0 .. Len(toServer) : toServer' = SubSeq(toServer, 1, k)
    BY DEF ConnectionBreaks
<1> DEFINE ts2 == SubSeq(toServer, 1, k)
<1>2. /\ net = "up" /\ cl' = Gone /\ toClient' = << >> /\ net' = "down" /\ srv' = srv /\ made' = made
    BY DEF ConnectionBreaks
<1>3. Connected(srv, toServer, toClient, cl) /\ Good(srv, toServer, toClient, cl)
    BY <1>2, Basics, GoodFacts
<1>4. /\ srv \in Server /\ toServer \in Seq(Packet) /\ cl.told \in Nat
      /\ ServerInv(srv, toServer, cl.told)
    BY <1>3, GetAnswerOnce
<1>5. /\ ts2 \in Seq(Packet) /\ Len(ts2) = k /\ \A i \in 1 .. k : ts2[i] = toServer[i]
      /\ \A S : Count(ts2, S) <= Count(toServer, S)
    BY <1>4, CountPrefix
<1>6. \A i \in 1 .. k : i \in 1 .. Len(toServer)
    BY <1>4, LenProperties
<1> HIDE DEF ts2
<1>7. Fewer(toServer, ts2)
    BY <1>5 DEF Fewer
<1>8. GoodbyeLast(srv, ts2)
  <2>1. \A i \in 1 .. Len(toServer) : toServer[i] \notin AnswersTo("CLOSE")
      BY <1>3 DEF Connected
  <2> QED BY <1>5, <1>6, <2>1 DEF GoodbyeLast
<1>9. ToServerOK(ts2)
  <2>1. ToServerOK(toServer)
      BY <1>4 DEF ServerInv
  <2> QED BY <1>5, <1>6, <2>1 DEF ToServerOK
<1>10. ServerInv(srv, ts2, cl.told)
    BY <1>4, <1>5, <1>7, <1>8, <1>9, FewerServer
<1>11. toServer' \in Seq(Packet) /\ ServerInv(srv, toServer', cl.told)
    BY <1>1, <1>5, <1>10 DEF ts2
<1> QED BY <1>2, <1>11, GoneGood

\* Every step of the client keeps the invariant, if it obeys the protocol.
LEMMA ClientStepGood ==
    ASSUME IInv, ClientPolls, ClientStep
    PROVE  Good(srv, toServer, toClient, cl)'
BY GetEventGood, ContinuesGood, ExtraGood, TakesEventGood, ReplyReadGood, EventReadGood,
   CallbackReadGood, AnswersGood, ClosesGood, BreaksGood DEF ClientStep

\* An event of the debugged process keeps the invariant.
LEMMA HappensGood ==
    ASSUME IInv, Happens
    PROVE  Good(srv, toServer, toClient, cl)'
<1>1. /\ srv' = srv /\ toServer' = toServer /\ toClient' = toClient /\ cl' = cl /\ net' = net
      /\ made' = made + 1
    BY DEF Happens
<1>2. made \in Nat /\ Good(srv, toServer, toClient, cl)
    BY Basics
<1>3. made' \in Nat /\ made' >= made
    BY <1>1, <1>2
<1> QED BY <1>1, <1>2, <1>3, GoodPrimed

\* So does a step that changes nothing.
LEMMA NothingGood ==
    ASSUME IInv, UNCHANGED vars
    PROVE  Good(srv, toServer, toClient, cl)'
<1>1. /\ srv' = srv /\ toServer' = toServer /\ toClient' = toClient /\ cl' = cl /\ net' = net
      /\ made' = made
    BY DEF vars
<1>2. made \in Nat /\ Good(srv, toServer, toClient, cl)
    BY Basics
<1>3. made' \in Nat /\ made' >= made
    BY <1>1, <1>2
<1> QED BY <1>1, <1>2, <1>3, GoodPrimed

\* The invariant is inductive.
LEMMA NextGood ==
    ASSUME IInv, ClientPolls, [Next]_vars
    PROVE  IInv'
<1>1. Shapes'
    BY NextTyped DEF IInv
<1>2. CASE ServerStep
    BY <1>1, <1>2, ServerStepGood DEF IInv
<1>3. CASE ClientStep
    BY <1>1, <1>3, ClientStepGood DEF IInv
<1>4. CASE Happens
    BY <1>1, <1>4, HappensGood DEF IInv
<1>5. CASE UNCHANGED vars
    BY <1>1, <1>5, NothingGood DEF IInv
<1>6. CASE Terminated
    BY <1>5, <1>6 DEF Terminated
<1> QED BY <1>2, <1>3, <1>4, <1>5, <1>6 DEF Next

-----------------------------------------------------------------------------
(* What follows from the invariant *)

\* It holds when a session begins.
LEMMA InitGood ==
    ASSUME Init
    PROVE  IInv
<1>1. Shapes
  <2>1. srv \in Server /\ srv.frames = << >> /\ srv.pc = "recv"
      BY DEF Init, Server
  <2>2. cl \in ClientState
      BY DEF Init, ClientState
  <2>3. Shaped(srv)
      BY <2>1 DEF Shaped
  <2> QED BY <2>1, <2>2, <2>3, BoundsAssumption DEF Init, Shapes, TypeOK
<1>2. /\ srv.frames = << >> /\ srv.pc = "recv" /\ ~srv.poll_debug_events
      /\ ~srv.has_pending_event /\ ~srv.network_error_code /\ ~srv.in_event /\ srv.got = 0
      /\ cl.calls = << >> /\ cl.held = 0 /\ cl.pending = 0 /\ ~cl.polling /\ cl.told = 0
      /\ ~cl.gone /\ toServer = << >> /\ toClient = << >> /\ net = "up" /\ made = 0
    BY DEF Init
<1>3. srv \in Server /\ cl \in ClientState /\ toServer \in Seq(Packet) /\ toClient \in Seq(Packet)
    BY <1>1 DEF Shapes, TypeOK
<1>4. Len(srv.frames) = 0 /\ Len(cl.calls) = 0 /\ Len(toServer) = 0 /\ Len(toClient) = 0
    BY <1>2, EmptySeq
<1>5. \A S : Count(toServer, S) = 0 /\ Count(toClient, S) = 0
    BY <1>2, CountEmpty
<1>6. /\ \A x : Performs(srv, x) = 0 /\ Waits(srv, x) = 0 /\ InCalls(cl, x) = 0
      /\ Polls(srv) = 0 /\ ~Talking(srv)
    BY <1>2, <1>4 DEF Performs, Waits, InCalls, Polls, Talking, One
<1>7. \A x : Pending(srv, toServer, x) = 0
    BY <1>5, <1>6 DEF Pending
<1>8. ServerInv(srv, toServer, cl.told)
  <2>1. StackShape(srv)
      BY <1>4 DEF StackShape
  <2>2. OneAtATime(srv, toServer)
      BY <1>6, <1>7 DEF OneAtATime
  <2>3. MainWhenIdle(srv, toServer)
      BY <1>5 DEF MainWhenIdle
  <2>4. AnswersExpected(srv, toServer)
      BY <1>5, <1>6 DEF AnswersExpected
  <2>5. GoodbyeLast(srv, toServer) /\ ToServerOK(toServer)
      BY <1>4 DEF GoodbyeLast, ToServerOK
  <2>6. EventsInOrder(srv, toServer, cl.told)
      BY <1>2, <1>5, <1>6, <1>7 DEF EventsInOrder
  <2> QED BY <2>1, <2>2, <2>3, <2>4, <2>5, <2>6 DEF ServerInv
<1>9. Connected(srv, toServer, toClient, cl)
  <2>1. CallsShape(cl.calls)
      BY <1>4 DEF CallsShape
  <2>2. Conserved(srv, toServer, toClient, cl)
      BY <1>5, <1>6, <1>7 DEF Conserved, Balanced, Awaited
  <2>3. ToClientOK(toClient, srv.got)
      BY <1>4 DEF ToClientOK
  <2>4. Stage(cl)
      BY <1>2, <1>6 DEF Stage, One
  <2>5. Cycle(srv, toClient, cl)
      BY <1>2, <1>5, <1>6 DEF Cycle, One
  <2>6. AnswerFirst(toClient)
      BY <1>5 DEF AnswerFirst
  <2>7. \A i \in 1 .. Len(toServer) : toServer[i] \notin AnswersTo("CLOSE")
      BY <1>4
  <2> QED BY <1>2, <2>1, <2>2, <2>3, <2>4, <2>5, <2>6, <2>7 DEF Connected
<1>10. StackWaits(srv)
    BY <1>2, <1>4 DEF StackWaits
<1>11. Good(srv, toServer, toClient, cl)
    BY <1>2, <1>3, <1>8, <1>9, <1>10 DEF Good, Session, Linked
<1> QED BY <1>1, <1>11 DEF IInv

\* A session with a client that waits for RPC_EVENT after an empty answer keeps
\* the inductive invariant.
THEOREM AlwaysIInv ==
    ASSUME ClientPolls
    PROVE  Spec => []IInv
<1>1. Init => IInv
    BY InitGood
<1>2. IInv /\ [Next]_vars => IInv'
    BY NextGood
<1> QED BY <1>1, <1>2, PTL DEF Spec

\* recv_all calls poll_events only at the outermost level: perform_request and
\* poll_events itself turn the poll mode off, and no nested call turns it on
\* before they return (rpc_server.cpp:325).
THEOREM NeverPollsWhilePerforming ==
    ASSUME ClientPolls
    PROVE  Spec => []NoPollWhilePerforming
<1>1. IInv => NoPollWhilePerforming
  <2> SUFFICES ASSUME IInv, srv.frames # << >> PROVE ~srv.poll_debug_events
      BY DEF NoPollWhilePerforming
  <2>1. StackShape(srv) /\ srv.frames \in Seq(Frame)
      BY Basics, GoodFacts, FieldsTyped
  <2>2. Len(srv.frames) >= 1
      BY <2>1, Popping
  <2> QED BY <2>1, <2>2 DEF StackShape
<1> QED BY <1>1, AlwaysIInv, PTL

\* The invariant implies that answers match calls.
LEMMA Matching ==
    ASSUME IInv
    PROVE  RepliesMatch
<1>1. Good(srv, toServer, toClient, cl) /\ net \in {"up", "down"} /\ cl \in ClientState
    BY Basics
<1>2. ASSUME toClient # << >>, Head(toClient).code = "OK", ~Answering
      PROVE  Waiting /\ Head(toClient).re = TopOf(cl.calls)
  <2>1. net = "up"
    <3>1. net = "down" => toClient = << >>
        BY <1>1, GoodFacts DEF Disconnected
    <3> QED BY <1>1, <1>2, <3>1
  <2>2. Connected(srv, toServer, toClient, cl)
      BY <1>1, <2>1, GoodFacts
  <2>3. cl.calls = << >> \/ TopOf(cl.calls) \in Requests
    <3>1. cl.calls # << >> => TopOf(cl.calls) \in Requests \cup Callbacks
        BY <1>1, ClientTyped, Popping
    <3> QED BY <1>2, <3>1 DEF Answering
  <2> QED BY <1>1, <1>2, <2>2, <2>3, AnswerIsTop DEF Waiting
<1>3. ASSUME PacketArrived({"OK"}), srv.frames # << >>, Head(toServer).re # "CLOSE"
      PROVE  Head(toServer).re = Top(srv).wait
    BY <1>1, <1>3, AnswerMatches DEF PacketArrived
<1> QED BY <1>2, <1>3 DEF RepliesMatch

\* The RPC_OK that process_request reads next answers the request on top of the
\* stack of its side, however deep requests of both sides are nested: the code
\* does not look at what an RPC_OK answers (rpc_engine.cpp, process_request).
THEOREM AnswersMatchCalls ==
    ASSUME ClientPolls
    PROVE  Spec => []RepliesMatch
BY AlwaysIInv, Matching, PTL

\* The number between 1 and 3.
LEMMA IsTwo == \A k \in Nat : k <= 2 /\ k # 0 /\ k # 1 => k = 2
OBVIOUS

\* The invariant implies that somebody can move.
LEMMA Awake ==
    ASSUME IInv
    PROVE  NoMutualWait
<1> SUFFICES ASSUME net = "up", srv.pc = "recv", Waiting, toServer = << >>, toClient = << >>
             PROVE  FALSE
    BY DEF NoMutualWait
<1>1. /\ Good(srv, toServer, toClient, cl) /\ Connected(srv, toServer, toClient, cl)
      /\ srv \in Server /\ cl \in ClientState /\ StackShape(srv) /\ StackWaits(srv)
      /\ toServer \in Seq(Packet) /\ toClient \in Seq(Packet)
    BY Basics, GoodFacts
<1>2. Conserved(srv, toServer, toClient, cl) /\ CallsShape(cl.calls)
    BY <1>1 DEF Connected
<1>3. \A S : Count(toServer, S) = 0 /\ Count(toClient, S) = 0
    BY CountEmpty
<1>4. \A x : Performs(srv, x) \in Nat /\ Waits(srv, x) \in Nat /\ InCalls(cl, x) \in {0, 1}
    BY <1>1, StackCounts DEF InCalls, One
<1>5. \A r \in Requests : Performs(srv, r) = InCalls(cl, r)
    BY <1>2, <1>3, <1>4 DEF Conserved, Balanced, Pending
<1>6. \A b \in Callbacks : Waits(srv, b) = InCalls(cl, b)
    BY <1>2, <1>3, <1>4 DEF Conserved, Awaited
<1> DEFINE n == Len(cl.calls)
           m == Len(srv.frames)
<1>7. n \in Nat \ {0} /\ TopOf(cl.calls) = cl.calls[n] /\ cl.calls[n] \in Requests
  <2>1. cl.calls # << >> /\ TopOf(cl.calls) \in Requests
      BY DEF Waiting
  <2> QED BY <1>1, <2>1, ClientTyped, Popping DEF TopOf
<1>8. n \in {1, 2, 3, 4}
  <2>1. n <= 4
      BY <1>2 DEF CallsShape
  <2> QED BY <1>7, <2>1, UpToFour
<1>9. n = 1 \/ n = 3
  <2>1. CASE n = 2
      BY <1>2, <1>7, <2>1 DEF CallsShape, Requests, Callbacks
  <2>2. CASE n = 4
      BY <1>2, <1>7, <2>2 DEF CallsShape, Requests
  <2> QED BY <1>8, <2>1, <2>2
<1>10. m \in Nat /\ m <= 2 /\ \A i \in 1 .. m : srv.frames[i] \in Frame /\ srv.frames[i].wait \in Callbacks
  <2>1. srv.frames \in Seq(Frame)
      BY <1>1, FieldsTyped
  <2>2. \A i \in 1 .. m : srv.frames[i] \in Frame /\ srv.frames[i].wait # "none"
      BY <1>1, <2>1, ElementOfSeq DEF StackWaits
  <2>3. \A i \in 1 .. m : srv.frames[i].wait \in Callbacks
      BY <2>2, FrameTyped
  <2>4. m \in Nat /\ m <= 2
      BY <1>1, <2>1, LenProperties DEF StackShape
  <2> QED BY <2>2, <2>3, <2>4
<1>11. \A i \in 1 .. n : InCalls(cl, cl.calls[i]) = 1
    BY DEF InCalls, One
<1>12. \A b \in Callbacks : InCalls(cl, b) = 1 => \E i \in 1 .. n : cl.calls[i] = b
    BY DEF InCalls, One
<1>13. \A i \in 1 .. m : \E j \in 1 .. n : cl.calls[j] = srv.frames[i].wait
  <2> SUFFICES ASSUME NEW i \in 1 .. m PROVE \E j \in 1 .. n : cl.calls[j] = srv.frames[i].wait
      OBVIOUS
  <2>1. i = 1 \/ i = 2
      BY <1>10
  <2>2. Waits(srv, srv.frames[i].wait) # 0
      BY <1>10, <2>1 DEF Waits, One
  <2> QED BY <1>4, <1>6, <1>10, <1>12, <2>2
<1>14. CASE n = 1
  <2>1. Performs(srv, cl.calls[1]) = 1
      BY <1>5, <1>7, <1>11, <1>14
  <2>2. m # 0
      BY <2>1 DEF Performs, One
  <2>3. 1 \in 1 .. m
      BY <1>10, <2>2
  <2>4. cl.calls[1] = srv.frames[1].wait
    <3>1. \A j \in 1 .. n : j = 1
        BY <1>14
    <3> QED BY <1>13, <2>3, <3>1
  <2> QED BY <1>7, <1>10, <1>14, <2>3, <2>4 DEF Requests, Callbacks
<1>15. CASE n = 3
  <2>1. /\ cl.calls[1] \in {"STOPPED_AT_DEBUG_EVENT", "APPCALL"}
        /\ cl.calls[2] # "MSG" /\ cl.calls[3] = "OTHER"
      BY <1>2, <1>15 DEF CallsShape, Callbacks
  <2>2. Performs(srv, cl.calls[1]) = 1 /\ Performs(srv, "OTHER") = 1
    <3>1. 1 \in 1 .. n /\ 3 \in 1 .. n
        BY <1>15
    <3> QED BY <1>5, <1>11, <2>1, <3>1 DEF Requests
  <2>3. m = 2
    <3>1. m # 0
        BY <2>2 DEF Performs, One
    <3>2. m # 1
      <4> SUFFICES ASSUME m = 1 PROVE FALSE
          OBVIOUS
      <4>m. m = 1 /\ Len(srv.frames) = 1
          OBVIOUS
      <4>1. \A x : Performs(srv, x) = 1 => srv.frames[1].op = x
          BY <4>m DEF Performs, One
      <4>2. srv.frames[1].op = cl.calls[1] /\ srv.frames[1].op = "OTHER"
          BY <2>2, <4>1
      <4> QED BY <2>1, <4>2
    <3> HIDE DEF m
    <3>3. m \in Nat /\ m <= 2
        BY <1>10
    <3> QED BY <3>1, <3>2, <3>3, IsTwo
  <2>4. srv.frames[2].wait \in {"none", "MSG"}
      BY <1>1, <2>3 DEF StackShape
  <2>5. srv.frames[2].wait = "MSG"
      BY <1>10, <2>3, <2>4 DEF Callbacks
  <2>6. \E j \in 1 .. n : cl.calls[j] = "MSG"
      BY <1>13, <2>3, <2>5
  <2>7. \A j \in 1 .. n : j = 1 \/ j = 2 \/ j = 3
      BY <1>15
  <2> QED BY <2>1, <2>6, <2>7
<1> QED BY <1>9, <1>14, <1>15

\* While the connection is up, the server's process_request and the client's never
\* wait for each other with nothing on its way to either (rpc_engine.cpp).
THEOREM NeverBothWait ==
    ASSUME ClientPolls
    PROVE  Spec => []NoMutualWait
BY AlwaysIInv, Awake, PTL

-----------------------------------------------------------------------------
(* The refinement: what a step of the server does to the event *)

\* The fields of the server that its steps change, whatever they hold.
Fielded(s) == {"pc", "frames", "poll_debug_events", "network_error_code", "broken_connection",
               "in_event", "got"} \subseteq DOMAIN s

\* What EventDelivery allows a step of the server to do with the event that is out.
Stays(s, s2) == s2.got = s.got /\ (s2.in_event = s.in_event \/ ~s2.in_event)
TakesOne(s, s2) == ~s.in_event /\ s.got < made /\ s2.got = s.got + 1 /\ s2.in_event
Moved(s, s2) == Fielded(s2) /\ (Stays(s, s2) \/ TakesOne(s, s2))
MovedAll(s, outcomes) == \A o \in outcomes : Moved(s, o.srv)

\* Where the code is, the stack and the flags do not matter to the event.
LEMMA Unmoved ==
    ASSUME NEW s, NEW r, Moved(s, r)
    PROVE  /\ \A f : Moved(s, Retop(r, f))
           /\ Moved(s, Popped(r)) /\ Moved(s, Performed(r))
           /\ \A pc : Moved(s, At(r, pc))
           /\ \A b : Moved(s, [r EXCEPT !.poll_debug_events = b])
           /\ Moved(s, [r EXCEPT !.network_error_code = TRUE, !.broken_connection = TRUE])
<1>1. ASSUME NEW q, Fielded(q), q.got = r.got, q.in_event = r.in_event PROVE Moved(s, q)
    BY <1>1 DEF Moved, Stays, TakesOne
<1>2. Fielded(r)
    BY DEF Moved
<1>3. ASSUME NEW f PROVE Moved(s, Retop(r, f))
  <2>1. Fielded(Retop(r, f)) /\ Retop(r, f).got = r.got /\ Retop(r, f).in_event = r.in_event
      BY <1>2 DEF Fielded, Retop
  <2> QED BY <1>1, <2>1
<1>4. Moved(s, Popped(r))
  <2>1. Fielded(Popped(r)) /\ Popped(r).got = r.got /\ Popped(r).in_event = r.in_event
      BY <1>2 DEF Fielded, Popped
  <2> QED BY <1>1, <2>1
<1>5. Moved(s, Performed(r))
  <2>1. /\ Fielded(Performed(r)) /\ Performed(r).got = r.got
        /\ Performed(r).in_event = r.in_event
      BY <1>2 DEF Fielded, Performed, Popped
  <2> QED BY <1>1, <2>1
<1>6. ASSUME NEW pc PROVE Moved(s, At(r, pc))
  <2>1. Fielded(At(r, pc)) /\ At(r, pc).got = r.got /\ At(r, pc).in_event = r.in_event
      BY <1>2 DEF Fielded, At
  <2> QED BY <1>1, <2>1
<1>7. ASSUME NEW b PROVE Moved(s, [r EXCEPT !.poll_debug_events = b])
  <2> DEFINE q == [r EXCEPT !.poll_debug_events = b]
  <2>1. Fielded(q) /\ q.got = r.got /\ q.in_event = r.in_event
      BY <1>2 DEF Fielded
  <2> QED BY <1>1, <2>1
<1>8. Moved(s, [r EXCEPT !.network_error_code = TRUE, !.broken_connection = TRUE])
  <2> DEFINE q == [r EXCEPT !.network_error_code = TRUE, !.broken_connection = TRUE]
  <2>1. Fielded(q) /\ q.got = r.got /\ q.in_event = r.in_event
      BY <1>2 DEF Fielded
  <2> QED BY <1>1, <2>1
<1> QED BY <1>3, <1>4, <1>5, <1>6, <1>7, <1>8

\* Resuming the process, and taking an event.
LEMMA Moving ==
    ASSUME NEW s, NEW r, Fielded(r), r.got = s.got, r.in_event = s.in_event
    PROVE  /\ Moved(s, r)
           /\ Moved(s, Continued(r))
           /\ ~s.in_event /\ EventReady(r) => Moved(s, Fetched(r))
<1>1. Fielded(Continued(r)) /\ Continued(r).got = r.got /\ Continued(r).in_event = FALSE
    BY DEF Fielded, Continued
<1>2. Fielded(Fetched(r)) /\ Fetched(r).got = r.got + 1 /\ Fetched(r).in_event = TRUE
    BY DEF Fielded, Fetched
<1> QED BY <1>1, <1>2 DEF Moved, Stays, TakesOne, EventReady

\* Nothing is sent.
LEMMA SilentMoves ==
    ASSUME NEW s, NEW r, Moved(s, r)
    PROVE  MovedAll(s, Silent(r))
BY DEF MovedAll, Silent, Outcome

\* send_request.
LEMMA SendingMoves ==
    ASSUME NEW s, NEW sent, NEW unsent, Moved(s, sent), Moved(s, unsent), NEW p
    PROVE  MovedAll(s, Sending(sent, unsent, p))
<1> DEFINE failed == [unsent EXCEPT !.network_error_code = TRUE, !.broken_connection = TRUE]
<1>1. Moved(s, failed)
    BY Unmoved
<1> HIDE DEF failed
<1>2. \A o \in Sending(sent, unsent, p) : o.srv \in {sent, unsent, failed}
    BY DEF Sending, Silent, Outcome, failed
<1> QED BY <1>1, <1>2 DEF MovedAll

\* A reply.
LEMMA ReplyingMoves ==
    ASSUME NEW s, NEW r, Moved(s, r), NEW k
    PROVE  MovedAll(s, Replying(r, k))
<1>1. \A pc : Moved(s, At(Performed(r), pc))
    BY Unmoved
<1> QED BY <1>1, SendingMoves DEF Replying

\* A call of the server.
LEMMA CallingMoves ==
    ASSUME NEW s, NEW r, Moved(s, r), NEW b, NEW k
    PROVE  MovedAll(s, Calling(r, b, k))
<1>1. \A f, pc : Moved(s, At(Retop(r, f), pc))
    BY Unmoved
<1> QED BY <1>1, SendingMoves DEF Calling

\* A packet of names.
LEMMA SendNamesMoves ==
    ASSUME NEW s, NEW r, Moved(s, r), NEW k
    PROVE  MovedAll(s, SendNames(r, k))
<1>1. \A f : Moved(s, Retop(r, f))
    BY Unmoved
<1> QED BY <1>1, ReplyingMoves, CallingMoves DEF SendNames

\* The switch of perform_request takes an event only when it is asked to.
LEMMA BodyMoves ==
    ASSUME NEW s, NEW r, Fielded(r), r.got = s.got, r.in_event = s.in_event,
           Top(r).op \in {"GET_DEBUG_EVENT", "POLL"} => ~s.in_event
    PROVE  MovedAll(s, Body(r))
<1>1. Moved(s, r) /\ Moved(s, Continued(r))
    BY Moving
<1>2. ~s.in_event /\ EventReady(r) => Moved(s, Fetched(r))
    BY Moving
<1>3. \A f : Moved(s, Retop(r, f))
    BY <1>1, Unmoved
<1>4. ASSUME ~s.in_event PROVE MovedAll(s, GetDebugEvent(r))
  <2>1. \A k : EventReady(r) => MovedAll(s, Replying(Fetched(r), k))
      BY <1>2, <1>4, ReplyingMoves
  <2>2. \A f, k : MovedAll(s, Replying(Retop(r, f), k))
      BY <1>3, ReplyingMoves
  <2>3. \A k : MovedAll(s, Replying(r, k))
      BY <1>1, ReplyingMoves
  <2> QED BY <2>1, <2>2, <2>3 DEF GetDebugEvent
<1>5. ASSUME ~s.in_event PROVE MovedAll(s, PollEvents(r))
  <2> DEFINE idle == At(Popped(r), "recv")
  <2>1. Fielded(idle) /\ idle.got = s.got /\ idle.in_event = s.in_event
      BY DEF Fielded, At, Popped
  <2> HIDE DEF idle
  <2>2. Moved(s, idle) /\ (EventReady(idle) => Moved(s, Fetched(idle)))
      BY <1>5, <2>1, Moving
  <2>3. EventReady(r) => EventReady(idle)
      BY <2>1 DEF EventReady
  <2>4. EventReady(r) => Moved(s, Fetched(idle)) /\ Moved(s, At(Fetched(idle), "null"))
      BY <2>2, <2>3, Unmoved
  <2>5. \A p : EventReady(r) => MovedAll(s, Sending(Fetched(idle), At(Fetched(idle), "null"), p))
      BY <2>4, SendingMoves
  <2>6. MovedAll(s, Silent([idle EXCEPT !.poll_debug_events = TRUE]))
      BY <2>2, Unmoved, SilentMoves
  <2> QED BY <2>5, <2>6 DEF PollEvents, idle
<1>6. MovedAll(s, Appcall(r))
  <2>1. \A k : MovedAll(s, Replying(r, k)) /\ MovedAll(s, Replying(Continued(r), k))
      BY <1>1, ReplyingMoves
  <2>2. ASSUME NEW f PROVE MovedAll(s, Silent(At(Continued(Retop(r, f)), "loop")))
    <3>1. /\ Fielded(Retop(r, f)) /\ Retop(r, f).got = s.got
          /\ Retop(r, f).in_event = s.in_event
        BY DEF Fielded, Retop
    <3>2. Moved(s, Continued(Retop(r, f)))
        BY <3>1, Moving
    <3> QED BY <3>2, Unmoved, SilentMoves
  <2> QED BY <2>1, <2>2 DEF Appcall, MovedAll
<1>7. \A k : MovedAll(s, Replying(r, k)) /\ MovedAll(s, Replying(Continued(r), k))
    BY <1>1, ReplyingMoves
<1>8. MovedAll(s, UNION {SendNames(r, k) : k \in 0 .. MaxNames})
    BY <1>1, SendNamesMoves DEF MovedAll
<1> QED BY <1>4, <1>5, <1>6, <1>7, <1>8 DEF Body

\* The caller of a nested process_request goes on.
LEMMA ReturnedMoves ==
    ASSUME NEW s, NEW r, Fielded(r), r.got = s.got, r.in_event = s.in_event, Top(r) = Top(s),
           Top(s).op \in {"GET_DEBUG_EVENT", "POLL"} => ~s.in_event,
           Len(r.frames) \in DOMAIN r.frames, Top(s) \in Frame, NEW good
    PROVE  MovedAll(s, Returned(r, good))
<1> DEFINE f == Top(r)
           s1 == Retop(r, [f EXCEPT !.wait = "none"])
<1>1. Fielded(s1) /\ s1.got = s.got /\ s1.in_event = s.in_event
    BY DEF Fielded, Retop
<1>2. Top(s1).op = Top(s).op
    BY DEF Top, TopOf, Retop, Fielded, Frame
<1> HIDE DEF s1
<1>3. Moved(s, s1) /\ Moved(s, Continued(s1))
    BY <1>1, Moving
<1>4. MovedAll(s, Body(s1))
    BY <1>1, <1>2, BodyMoves
<1>5. \A k : MovedAll(s, SendNames(s1, k))
    BY <1>3, SendNamesMoves
<1>6. MovedAll(s, AppcallAnswered(s1, good))
  <2>1. \A k : MovedAll(s, Replying(s1, k))
      BY <1>3, ReplyingMoves
  <2>2. MovedAll(s, Silent(At(Continued(s1), "loop")))
      BY <1>3, Unmoved, SilentMoves
  <2> QED BY <2>1, <2>2 DEF AppcallAnswered
<1> QED BY <1>4, <1>5, <1>6 DEF Returned, s1

\* A request that takes events is performed only while no event is out.
LEMMA NoneOut ==
    ASSUME NEW s \in Server, NEW ts \in Seq(Packet), NEW told, s.frames # << >>,
           StackShape(s), EventsInOrder(s, ts, told), Len(s.frames) \in {1, 2},
           Top(s).op \in {"GET_DEBUG_EVENT", "POLL"}
    PROVE  ~s.in_event
<1> DEFINE G == "GET_DEBUG_EVENT"
<1>1. Top(s) = s.frames[Len(s.frames)]
    BY DEF Top, TopOf
<1>2. Len(s.frames) = 1 /\ Top(s) = s.frames[1]
    BY <1>1 DEF StackShape
<1>3. /\ Count(ts, Coded(G)) \in Nat /\ Performs(s, G) \in Nat /\ Polls(s) \in Nat
    BY CountsNat, NumbersTyped DEF StackTyped
<1>4. Top(s).op = G => Performs(s, G) = 1
    BY <1>2 DEF Performs, One
<1>5. Top(s).op = "POLL" => Polls(s) >= 1
    BY <1>2 DEF Polls, One
<1>6. Performs(s, G) + Polls(s) >= 1
    BY <1>3, <1>4, <1>5
<1>7. Pending(s, ts, G) + Polls(s) >= 1
    BY <1>3, <1>6 DEF Pending
<1> QED BY <1>7 DEF EventsInOrder

\* The stack has one frame or two.
LEMMA FromOneToTwo == \A k \in Nat \ {0} : k <= 2 => k \in {1, 2}
OBVIOUS

\* A step of the server has one of the outcomes.
LEMMA TakesMoves ==
    ASSUME NEW O, Takes(O), MovedAll(srv, O)
    PROVE  Moved(srv, srv')
BY DEF Takes, MovedAll

\* A server has its fields.
LEMMA ServerFielded == ASSUME NEW s \in Server PROVE Fielded(s)
BY DEF Server, Fielded

\* A request is performed from its beginning.
LEMMA EnteredMoves ==
    ASSUME IInv, srv.pc = "recv", NEW r \in Requests \cup {"POLL"}, NEW ts,
           Mid(Entered(srv, r), ts, toClient, cl)
    PROVE  MovedAll(srv, Body(Entered(srv, r))) /\ MovedAll(srv, Calling(Entered(srv, r), "MSG", 0))
<1> DEFINE s == Entered(srv, r)
<1>1. s \in Server /\ s.got = srv.got /\ s.in_event = srv.in_event
    BY Basics, EnteredFields
<1> HIDE DEF s
<1>2. /\ ts \in Seq(Packet) /\ s.frames # << >> /\ StackShape(s) /\ EventsInOrder(s, ts, cl.told)
      /\ Len(s.frames) \in {1, 2}
    BY MidFacts DEF s
<1>3. Top(s).op \in {"GET_DEBUG_EVENT", "POLL"} => ~srv.in_event
    BY <1>1, <1>2, NoneOut
<1>4. Fielded(s)
    BY <1>1, ServerFielded
<1>5. MovedAll(srv, Body(s))
    BY <1>1, <1>3, <1>4, BodyMoves
<1>6. Moved(srv, s)
    BY <1>1, <1>4, Moving
<1>7. MovedAll(srv, Calling(s, "MSG", 0))
    BY <1>6, CallingMoves
<1> QED BY <1>5, <1>7 DEF s

\* A request is performed from an answer on.
LEMMA ReturnsMove ==
    ASSUME IInv, srv.frames # << >>, NEW good
    PROVE  MovedAll(srv, Returned(srv, good)) /\ MovedAll(srv, Returned(At(srv, "recv"), good))
<1>1. /\ srv \in Server /\ toServer \in Seq(Packet) /\ StackShape(srv)
      /\ EventsInOrder(srv, toServer, cl.told) /\ srv.frames \in Seq(Frame)
    BY Basics, GoodFacts, FieldsTyped
<1>2. Len(srv.frames) \in Nat \ {0} /\ Top(srv) \in Frame
    BY <1>1, PoppedFields
<1>3. Len(srv.frames) \in {1, 2}
  <2>1. Len(srv.frames) <= 2
      BY <1>1 DEF StackShape
  <2> DEFINE k == Len(srv.frames)
  <2>2. k \in Nat \ {0} /\ k <= 2
      BY <1>2, <2>1
  <2> HIDE DEF k
  <2>3. k \in {1, 2}
      BY <2>2, FromOneToTwo
  <2> QED BY <2>3 DEF k
<1>4. Top(srv).op \in {"GET_DEBUG_EVENT", "POLL"} => ~srv.in_event
    BY <1>1, <1>3, NoneOut
<1>5. Len(srv.frames) \in DOMAIN srv.frames
    BY <1>1, <1>2
<1> DEFINE r == At(srv, "recv")
<1>6. Fielded(srv) /\ Fielded(r) /\ r.got = srv.got /\ r.in_event = srv.in_event
      /\ r.frames = srv.frames
    BY <1>1 DEF Fielded, At, Server
<1>7. Top(r) = Top(srv) /\ Len(r.frames) \in DOMAIN r.frames
    BY <1>5, <1>6 DEF Top
<1> HIDE DEF r
<1>8. MovedAll(srv, Returned(srv, good))
    BY <1>2, <1>4, <1>5, <1>6, ReturnedMoves
<1>9. MovedAll(srv, Returned(r, good))
    BY <1>2, <1>4, <1>6, <1>7, ReturnedMoves
<1> QED BY <1>8, <1>9 DEF r

\* Every step of the server keeps the event, resumes, or takes the next one.
LEMMA ServerMoves ==
    ASSUME IInv, ServerStep
    PROVE  Moved(srv, srv')
<1>1. srv \in Server /\ Fielded(srv) /\ net \in {"up", "down"}
    BY Basics, ServerFielded
<1>2. Moved(srv, srv) /\ \A pc : Moved(srv, At(srv, pc))
    BY <1>1, Moving, Unmoved
<1>3. CASE ServerPerforms
  <2>1. /\ srv.pc = "recv" /\ toServer # << >> /\ Head(toServer).code \in Requests
        /\ Takes(Body(Entered(srv, Head(toServer).code)))
      BY <1>3 DEF ServerPerforms, PacketArrived
  <2>2. Mid(Entered(srv, Head(toServer).code), Tail(toServer), toClient, cl)
      BY <1>1, <2>1, Basics, EnterMid
  <2> QED BY <2>1, <2>2, EnteredMoves, TakesMoves
<1>4. CASE ServerTalks
  <2>1. /\ srv.pc = "recv" /\ toServer # << >> /\ Head(toServer).code \in Requests
        /\ Takes(Calling(Entered(srv, Head(toServer).code), "MSG", 0))
      BY <1>4 DEF ServerTalks, PacketArrived
  <2>2. Mid(Entered(srv, Head(toServer).code), Tail(toServer), toClient, cl)
      BY <1>1, <2>1, Basics, EnterMid
  <2> QED BY <2>1, <2>2, EnteredMoves, TakesMoves
<1>5. CASE ServerEvok
  <2>1. MovedAll(srv, Evok(srv))
      BY <1>2, SilentMoves DEF Evok
  <2> QED BY <1>5, <2>1, TakesMoves DEF ServerEvok
<1>6. CASE ServerAnswered
  <2>1. MovedAll(srv, IF srv.frames = << >> THEN Silent(At(srv, "ended"))
                      ELSE Returned(srv, Head(toServer).good))
      BY <1>2, SilentMoves, ReturnsMove
  <2> QED BY <1>6, <2>1, TakesMoves DEF ServerAnswered
<1>7. CASE ServerPolls \/ ServerPollTalks
  <2>1. /\ srv.pc = "recv" /\ srv.poll_debug_events
        /\ \/ Takes(Body(Entered(srv, "POLL")))
           \/ Takes(Calling(Entered(srv, "POLL"), "MSG", 0))
      BY <1>7 DEF ServerPolls, ServerPollTalks, Polling
  <2>2. Mid(Entered(srv, "POLL"), toServer, toClient, cl)
      BY <1>1, <2>1, Basics, PollMid
  <2> QED BY <2>1, <2>2, EnteredMoves, TakesMoves
<1>8. CASE ServerLost
  <2>1. PICK code \in BOOLEAN :
           srv' = [At(srv, "null") EXCEPT !.network_error_code = @ \/ code,
                                          !.broken_connection = TRUE]
      BY <1>8 DEF ServerLost
  <2>2. Fielded(srv') /\ srv'.got = srv.got /\ srv'.in_event = srv.in_event
      BY <1>1, <2>1 DEF Fielded, At
  <2> QED BY <2>2, Moving
<1>9. CASE ServerUnwinds
  <2>1. MovedAll(srv, Unwound(srv))
      BY <1>2, SilentMoves, ReturnsMove DEF Unwound
  <2> QED BY <1>9, <2>1, TakesMoves DEF ServerUnwinds
<1>10. CASE AppcallEvent
  <2> DEFINE s == Fetched(srv)
             Shown(last) == Calling(Retop(s, [Top(s) EXCEPT !.last = last]),
                                    "HANDLE_DEBUG_EVENT", s.got)
  <2>1. /\ srv.pc = "loop" /\ EventReady(srv)
        /\ Takes(IF Top(s).late THEN Shown(TRUE)
                 ELSE Replying(s, s.got) \cup Shown(TRUE) \cup Shown(FALSE))
      BY <1>10 DEF AppcallEvent
  <2>2. ~srv.in_event
      BY <2>1, Basics, GoodFacts DEF StackWaits
  <2>3. Moved(srv, s)
      BY <1>1, <2>1, <2>2, Moving
  <2> HIDE DEF s
  <2>4. \A f : Moved(srv, Retop(s, f))
      BY <2>3, Unmoved
  <2>5. MovedAll(srv, Replying(s, s.got)) /\ \A last : MovedAll(srv, Shown(last))
      BY <2>3, <2>4, ReplyingMoves, CallingMoves
  <2> HIDE DEF Shown
  <2>6. MovedAll(srv, IF Top(s).late THEN Shown(TRUE)
                      ELSE Replying(s, s.got) \cup Shown(TRUE) \cup Shown(FALSE))
      BY <2>5 DEF MovedAll
  <2> QED BY <2>1, <2>6, TakesMoves
<1>11. CASE AppcallTimeout
  <2>1. \A f : Moved(srv, Retop(srv, f))
      BY <1>2, Unmoved
  <2>2. MovedAll(srv, Replying(srv, srv.got)) /\ \A f : MovedAll(srv, Silent(Retop(srv, f)))
      BY <1>2, <2>1, ReplyingMoves, SilentMoves
  <2> QED BY <1>11, <2>2, TakesMoves DEF AppcallTimeout
<1> QED BY <1>3, <1>4, <1>5, <1>6, <1>7, <1>8, <1>9, <1>10, <1>11 DEF ServerStep

-----------------------------------------------------------------------------
(* The refinement: what the client learns, and every step *)

\* What the client reads about an event is about the one that is out.
LEMMA ReadsNews ==
    ASSUME IInv, toClient # << >>, net = "up"
    PROVE  /\ Head(toClient).n \in {0, srv.got}
           /\ Head(toClient).code = "EVENT" => Head(toClient).n = srv.got
<1> DEFINE h == Head(toClient)
<1>1. /\ toClient \in Seq(Packet) /\ ToClientOK(toClient, srv.got)
    BY Basics, GoodFacts DEF Connected
<1>2. h \in Packet /\ h = toClient[1] /\ 1 \in 1 .. Len(toClient)
    BY <1>1, TailFacts
<1> HIDE DEF h
<1>3. (h.n # 0 => h \in News) /\ (h \in News => h.n = srv.got)
    BY <1>1, <1>2 DEF ToClientOK
<1>4. h.code = "EVENT" => h \in News
    BY <1>2 DEF News, Coded
<1> QED BY <1>3, <1>4 DEF h

\* The client learns of the event that is out, or of none.
LEMMA ClientLearns ==
    ASSUME IInv, ClientStep
    PROVE  srv' = srv /\ made' = made /\ cl'.told \in {cl.told, srv.got}
<1> DEFINE k == Head(toClient).n
<1>1. cl \in ClientState
    BY Basics
<1>2. srv' = srv /\ made' = made
    BY DEF ClientStep, ClientGetEvent, ClientContinues, ClientExtra, Asks, ClientTakesEvent,
           ClientReply, ClientEvent, ClientCallback, ClientAnswers, ClientCloses, ConnectionBreaks
<1>3. ASSUME NEW S, ToClientArrived(S)
      PROVE  k \in {0, srv.got} /\ (Head(toClient).code = "EVENT" => k = srv.got)
  <2>1. toClient # << >> /\ net = "up"
      BY <1>3, ClientUp DEF ToClientArrived
  <2> QED BY <2>1, ReadsNews
<1>4. CASE ClientReply
  <2> DEFINE call == TopOf(cl.calls)
             c == [cl EXCEPT !.calls = Pop(@), !.told = IF k = 0 THEN @ ELSE k]
  <2>1. k \in {0, srv.got}
      BY <1>3, <1>4 DEF ClientReply
  <2>2. c.told \in {cl.told, srv.got} /\ DOMAIN c = DOMAIN cl
      BY <1>1, <2>1 DEF ClientState
  <2>3. cl' = CASE call = "GET_DEBUG_EVENT" /\ k # 0 -> [c EXCEPT !.held = k]
                [] call = "GET_DEBUG_EVENT" /\ k = 0 -> [c EXCEPT !.polling = ClientPolls]
                [] call = "CONTINUE_AFTER_EVENT" -> [c EXCEPT !.held = 0]
                [] OTHER -> c
      BY <1>4 DEF ClientReply
  <2> HIDE DEF c
  <2>4. /\ [c EXCEPT !.held = k].told = c.told /\ [c EXCEPT !.polling = ClientPolls].told = c.told
        /\ [c EXCEPT !.held = 0].told = c.told
      BY <1>1, <2>2 DEF ClientState
  <2>5. cl' \in {[c EXCEPT !.held = k], [c EXCEPT !.polling = ClientPolls],
                 [c EXCEPT !.held = 0], c}
    <3> HIDE DEF k
    <3> QED BY <2>3
  <2> QED BY <1>2, <2>2, <2>4, <2>5
<1>5. CASE ClientEvent
  <2>1. ToClientArrived({"EVENT"}) /\ Head(toClient).code = "EVENT"
      BY <1>5 DEF ClientEvent, ToClientArrived
  <2>2. k = srv.got
      BY <1>3, <2>1
  <2>3. cl'.told = k
      BY <1>1, <1>5 DEF ClientEvent, ClientState
  <2> QED BY <1>2, <2>2, <2>3
<1>6. CASE ClientCallback
  <2>1. k \in {0, srv.got}
      BY <1>3, <1>6 DEF ClientCallback
  <2>2. cl'.told = IF k = 0 THEN cl.told ELSE k
      BY <1>1, <1>6 DEF ClientCallback, ClientState
  <2> QED BY <1>2, <2>1, <2>2
<1>7. CASE ClientGetEvent \/ ClientContinues \/ ClientExtra
    BY <1>1, <1>2, <1>7 DEF ClientGetEvent, ClientContinues, ClientExtra, Asks, ClientState
<1>8. CASE ClientTakesEvent \/ ClientAnswers \/ ClientCloses \/ ConnectionBreaks
    BY <1>1, <1>2, <1>8 DEF ClientTakesEvent, ClientAnswers, ClientCloses, ConnectionBreaks, Gone,
                            ClientState
<1> QED BY <1>4, <1>5, <1>6, <1>7, <1>8 DEF ClientStep

\* The part of the invariant the steps of EventDelivery need.
Ordered ==
    /\ srv.got \in Nat /\ cl.told \in Nat /\ srv.in_event \in BOOLEAN /\ made \in Nat
    /\ srv.got \in {cl.told, cl.told + 1} /\ (~srv.in_event => cl.told = srv.got)

\* The invariant says so.
LEMMA InOrder == ASSUME IInv PROVE Ordered
<1>1. /\ srv \in Server /\ cl \in ClientState /\ made \in Nat
      /\ EventsInOrder(srv, toServer, cl.told)
    BY Basics, GoodFacts
<1> QED BY <1>1, FieldsTyped, ClientTyped DEF EventsInOrder, Ordered

\* Each step is one that EventDelivery allows, or changes nothing of what it sees.
LEMMA StepDelivers ==
    ASSUME IInv, Ordered', [Next]_vars
    PROVE  [Delivery!Next]_(Delivery!vars)
<1>1. /\ srv.got \in Nat /\ cl.told \in Nat /\ srv.in_event \in BOOLEAN /\ made \in Nat
      /\ srv.got \in {cl.told, cl.told + 1} /\ (~srv.in_event => cl.told = srv.got)
    BY InOrder DEF Ordered
<1>2. /\ srv'.got \in Nat /\ cl'.told \in Nat /\ srv'.in_event \in BOOLEAN /\ made' \in Nat
      /\ srv'.got \in {cl'.told, cl'.told + 1} /\ (~srv'.in_event => cl'.told = srv'.got)
    BY DEF Ordered
<1>3. CASE ServerStep
  <2>1. cl' = cl
      BY <1>3 DEF ServerStep, ServerPerforms, ServerTalks, ServerEvok, ServerAnswered, ServerPolls,
                  ServerPollTalks, ServerLost, ServerUnwinds, AppcallEvent, AppcallTimeout
  <2>2. Moved(srv, srv')
      BY <1>3, ServerMoves
  <2>3. made' = made \/ (made' = made + 1 /\ srv' = Retop(srv, [Top(srv) EXCEPT !.late = TRUE]))
    <3>1. CASE AppcallTimeout
        BY <3>1 DEF AppcallTimeout, Takes, Silent, Outcome
    <3>2. CASE ~AppcallTimeout
        BY <1>3, <3>2 DEF ServerStep, ServerPerforms, ServerTalks, ServerEvok, ServerAnswered,
                          ServerPolls, ServerPollTalks, ServerLost, ServerUnwinds, AppcallEvent
    <3> QED BY <3>1, <3>2
  <2>4. CASE made' = made
    <3>1. CASE Stays(srv, srv')
        BY <1>1, <1>2, <2>1, <2>4, <3>1
           DEF Stays, Delivery!Next, Delivery!Resume, Delivery!vars
    <3>2. CASE TakesOne(srv, srv')
        BY <1>1, <1>2, <2>1, <2>4, <3>2
           DEF TakesOne, Delivery!Next, Delivery!Take, Delivery!vars
    <3> QED BY <2>2, <3>1, <3>2 DEF Moved
  <2>5. CASE made' = made + 1 /\ srv' = Retop(srv, [Top(srv) EXCEPT !.late = TRUE])
    <3>1. srv'.got = srv.got /\ srv'.in_event = srv.in_event
        BY <2>5, Basics DEF Retop, Server
    <3> QED BY <2>1, <2>5, <3>1 DEF Delivery!Next, Delivery!Happen
  <2> QED BY <2>3, <2>4, <2>5
<1>4. CASE ClientStep
  <2>1. srv' = srv /\ made' = made /\ cl'.told \in {cl.told, srv.got}
      BY <1>4, ClientLearns
  <2>2. CASE cl'.told = cl.told
      BY <2>1, <2>2 DEF Delivery!vars
  <2>3. CASE cl'.told # cl.told
    <3>1. cl'.told = srv.got /\ srv.got = cl.told + 1 /\ srv.in_event
        BY <1>1, <2>1, <2>3
    <3> QED BY <2>1, <3>1 DEF Delivery!Next, Delivery!Tell
  <2> QED BY <2>2, <2>3
<1>5. CASE Happens
    BY <1>5 DEF Happens, Delivery!Next, Delivery!Happen
<1>6. CASE UNCHANGED vars
    BY <1>6 DEF vars, Delivery!vars
<1>7. CASE Terminated
    BY <1>6, <1>7 DEF Terminated
<1> QED BY <1>3, <1>4, <1>5, <1>6, <1>7 DEF Next

\* The session implements EventDelivery: whichever of the four ways an event
\* travels, the server takes one event at a time, the client learns of each in
\* order, and dbg_continue_after_event is not reached before it knows the last
\* one (rpc_server.cpp, poll_events, perform_request; debmod.cpp, dbg_appcall).
THEOREM EventsDelivered ==
    ASSUME ClientPolls
    PROVE  Spec => DeliversEvents
<1>1. Init => Delivery!Init
    BY DEF Init, Delivery!Init
<1>2. IInv /\ Ordered' /\ [Next]_vars => [Delivery!Next]_(Delivery!vars)
    BY StepDelivers
<1>3. IInv => Ordered
    BY InOrder
<1> QED BY <1>1, <1>2, <1>3, AlwaysIInv, PTL DEF Spec, DeliversEvents, Delivery!Spec
=============================================================================
