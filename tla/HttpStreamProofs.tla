--------------------------- MODULE HttpStreamProofs ---------------------------
(***************************************************************************)
(* For every application, every body and every limit, over HTTP/2 and      *)
(* HTTP/3: what HTTPStream sends of a response, when a request is logged,  *)
(* that a client that stays is answered, and that a WSGI application has   *)
(* the whole body, all from one inductive invariant (IInv).  The parts of  *)
(* it build on each other: Types and Roles hold of any step alone, so the  *)
(* step is first replaced by a sheet of what it does (Steps), from which   *)
(* each further part follows.                                              *)
(***************************************************************************)
EXTENDS HttpStream, SequenceTheorems, TLAPS

-----------------------------------------------------------------------------
(* The operations a task may be at.                                        *)

States == {"REQUEST", "RESPONSE", "TRAILERS", "CLOSED"}
Items == {"Informational", "Response", "Body", "Trailers", "EndBody"}
Silent == {"Push", "nothing", "StreamClosed"}

PushOp == Op("Push", "same")
HintOp == Op("Informational", "same")
StartOp == Op("Response", "RESPONSE")
BareStartOp == Op("Response", "TRAILERS")
ErrorOp == Op("Response", "same")
BodyOp == Op("Body", "same")
TurnOp == Op("nothing", "TRAILERS")
TrailersOp == Op("Trailers", "same")
EndOp == Op("EndBody", "CLOSED")
UnloggedOp == Op("EndBody", "UNLOGGED")
ClosedOp == Op("StreamClosed", "same")

(* What each operation sends and assigns.                                  *)
LEMMA Operations ==
    /\ PushOp.send = "Push" /\ PushOp.then = "same"
    /\ HintOp.send = "Informational" /\ HintOp.then = "same"
    /\ StartOp.send = "Response" /\ StartOp.then = "RESPONSE"
    /\ BareStartOp.send = "Response" /\ BareStartOp.then = "TRAILERS"
    /\ ErrorOp.send = "Response" /\ ErrorOp.then = "same"
    /\ BodyOp.send = "Body" /\ BodyOp.then = "same"
    /\ TurnOp.send = "nothing" /\ TurnOp.then = "TRAILERS"
    /\ TrailersOp.send = "Trailers" /\ TrailersOp.then = "same"
    /\ EndOp.send = "EndBody" /\ EndOp.then = "CLOSED"
    /\ UnloggedOp.send = "EndBody" /\ UnloggedOp.then = "UNLOGGED"
    /\ ClosedOp.send = "StreamClosed" /\ ClosedOp.then = "same"
BY DEF Op, PushOp, HintOp, StartOp, BareStartOp, ErrorOp, BodyOp, TurnOp, TrailersOp,
   EndOp, UnloggedOp, ClosedOp

\* The operations that may be a task's last, in a state of the stream.
LastOps(state) ==
    CASE state = "REQUEST" -> {PushOp, HintOp, StartOp, BareStartOp, UnloggedOp}
      [] state = "RESPONSE" -> {PushOp, BodyOp, TurnOp, ClosedOp}
      [] OTHER -> {PushOp, ClosedOp}

\* Those that the end of the response may follow.
EndedOps(state) ==
    CASE state = "REQUEST" -> {BareStartOp, ErrorOp}
      [] state = "RESPONSE" -> {BodyOp}
      [] state = "TRAILERS" -> {TrailersOp}
      [] OTHER -> {}

\* What is left to the application's task, in a state of the stream.
Lists(state) ==
    {<<>>} \cup {<<a>> : a \in LastOps(state)}
    \cup {<<a, EndOp, ClosedOp>> : a \in EndedOps(state)}
    \cup (IF state = "CLOSED" THEN {} ELSE {<<EndOp, ClosedOp>>})
    \cup (IF state = "RESPONSE" THEN {<<BodyOp, TurnOp>>} ELSE {})

\* What is left to the consumer.
Refusals == {<<>>, <<ErrorOp, EndOp>>, <<EndOp>>}

\* What is left after the application has ended.
NoneLists == {<<>>, <<ClosedOp>>, <<EndOp, ClosedOp>>, <<ErrorOp, EndOp, ClosedOp>>}

\* What a task is at the end of a response it cannot log.
Unlogged(l) == l # <<>> /\ Head(l).then = "UNLOGGED"

After(state, l) ==
    CASE Head(l).then = "same" -> state
      [] Head(l).then = "UNLOGGED" -> "CLOSED"
      [] OTHER -> Head(l).then

\* What a task goes on with when a send has returned, and what that means for the
\* response: an end is sent once, after what is not one, and of a response.
Continues(state, l) ==
    LET next == After(state, l)
        rest == Tail(l)
        item == Head(l).send
    IN
    /\ next \in States /\ item \in Items \cup Silent
    /\ rest # <<>> => Head(rest).send \in {"EndBody", "StreamClosed", "nothing"}
    /\ rest # <<>> /\ Head(rest).send = "EndBody" =>
         /\ state # "CLOSED" /\ next # "CLOSED" /\ item # "EndBody"
         /\ state \in {"RESPONSE", "TRAILERS"} \/ item = "Response"
    /\ rest = <<>> \/ Head(rest).send # "EndBody" =>
         /\ next = "CLOSED" <=> state = "CLOSED" \/ item = "EndBody"
         /\ next # "CLOSED" =>
              (next \in {"RESPONSE", "TRAILERS"}
                <=> state \in {"RESPONSE", "TRAILERS"} \/ item = "Response")
         /\ item # "Trailers"
    /\ Head(l).then \in {"CLOSED", "UNLOGGED"} <=> item = "EndBody"
    /\ Unlogged(l) => rest = <<>>
    /\ ~Unlogged(rest)
    /\ item = "EndBody" => state # "CLOSED"
    /\ item = "StreamClosed" => next # "REQUEST"
    /\ rest # <<>> /\ Head(rest).send = "StreamClosed" => next = "CLOSED"

(* The heads and tails of short lists.                                     *)
LEMMA ShortLists ==
    ASSUME NEW a, NEW b, NEW c
    PROVE  /\ Head(<<a>>) = a /\ Tail(<<a>>) = <<>> /\ <<a>> # <<>>
           /\ Head(<<a, b>>) = a /\ Tail(<<a, b>>) = <<b>> /\ <<a, b>> # <<>>
           /\ Head(<<a, b, c>>) = a /\ Tail(<<a, b, c>>) = <<b, c>> /\ <<a, b, c>> # <<>>
OBVIOUS

(* A task of the application continues as it may.                          *)
LEMMA AppContinues ==
    ASSUME NEW state \in States, NEW l \in Lists(state), l # <<>>
    PROVE  Continues(state, l) /\ Tail(l) \in Lists(After(state, l))
<1>1. CASE \E a \in LastOps(state) : l = <<a>>
  <2>1. PICK a \in LastOps(state) : l = <<a>>
    BY <1>1
  <2>2. Head(l) = a /\ Tail(l) = <<>>
    BY <2>1, ShortLists
  <2>3. Tail(l) \in Lists(After(state, l))
    BY <2>2 DEF Lists
  <2> QED
    BY <2>1, <2>2, <2>3, Operations
       DEF LastOps, States, Items, Silent, Continues, After, Unlogged
<1>2. CASE \E a \in EndedOps(state) : l = <<a, EndOp, ClosedOp>>
  <2>1. PICK a \in EndedOps(state) : l = <<a, EndOp, ClosedOp>>
    BY <1>2
  <2>2. Head(l) = a /\ Tail(l) = <<EndOp, ClosedOp>> /\ Tail(l) # <<>> /\ Head(Tail(l)) = EndOp
    BY <2>1, ShortLists
  <2>3. Continues(state, l) /\ After(state, l) \in {"REQUEST", "RESPONSE", "TRAILERS"}
    BY <2>2, Operations
       DEF EndedOps, States, Items, Silent, Continues, After, Unlogged
  <2> QED
    BY <2>2, <2>3 DEF Lists
<1>3. CASE state # "CLOSED" /\ l = <<EndOp, ClosedOp>>
  <2>2. /\ Head(l) = EndOp /\ Tail(l) = <<ClosedOp>> /\ Tail(l) # <<>>
        /\ Head(Tail(l)) = ClosedOp
    BY <1>3, ShortLists
  <2>3. Continues(state, l) /\ After(state, l) = "CLOSED"
    BY <1>3, <2>2, Operations DEF States, Items, Silent, Continues, After, Unlogged
  <2> QED
    BY <2>2, <2>3 DEF Lists, LastOps
<1>4. CASE state = "RESPONSE" /\ l = <<BodyOp, TurnOp>>
  <2>2. /\ Head(l) = BodyOp /\ Tail(l) = <<TurnOp>> /\ Tail(l) # <<>>
        /\ Head(Tail(l)) = TurnOp
    BY <1>4, ShortLists
  <2>3. Continues(state, l) /\ After(state, l) = "RESPONSE"
    BY <1>4, <2>2, Operations DEF States, Items, Silent, Continues, After, Unlogged
  <2> QED
    BY <2>2, <2>3 DEF Lists, LastOps
<1> QED
  BY <1>1, <1>2, <1>3, <1>4 DEF Lists

(* The consumer does when it refuses a request.                            *)
LEMMA ConsumerContinues ==
    ASSUME NEW l \in Refusals, l # <<>>
    PROVE  /\ Continues("REQUEST", l) /\ Tail(l) \in Refusals /\ ~Unlogged(l)
           /\ Tail(l) # <<>> => After("REQUEST", l) = "REQUEST"
           /\ Tail(l) = <<>> => After("REQUEST", l) = "CLOSED"
<1>1. CASE l = <<ErrorOp, EndOp>>
  <2>1. /\ Head(l) = ErrorOp /\ Tail(l) = <<EndOp>> /\ Tail(l) # <<>>
        /\ Head(Tail(l)) = EndOp
    BY <1>1, ShortLists
  <2> QED
    BY <2>1, Operations DEF States, Items, Silent, Continues, After, Unlogged, Refusals
<1>2. CASE l = <<EndOp>>
  <2>1. Head(l) = EndOp /\ Tail(l) = <<>>
    BY <1>2, ShortLists
  <2> QED
    BY <2>1, Operations DEF States, Items, Silent, Continues, After, Unlogged, Refusals
<1> QED
  BY <1>1, <1>2 DEF Refusals

(* The application's end continues as it may.                              *)
LEMMA NoneContinues ==
    ASSUME NEW l \in NoneLists, l # <<>>
    PROVE  /\ Tail(l) \in NoneLists
           /\ Tail(l) = <<>> => Head(l) = ClosedOp
           /\ Tail(l) = <<ClosedOp>> => Head(l) = EndOp
           /\ ~Unlogged(l)
<1>1. l = <<ClosedOp>> \/ l = <<EndOp, ClosedOp>> \/ l = <<ErrorOp, EndOp, ClosedOp>>
  BY DEF NoneLists
<1>2. CASE l = <<ClosedOp>>
  <2>1. Head(l) = ClosedOp /\ Tail(l) = <<>> /\ <<>> # <<ClosedOp>>
    BY <1>2, ShortLists
  <2> QED
    BY <2>1, Operations DEF NoneLists, Unlogged
<1>3. CASE l = <<EndOp, ClosedOp>>
  <2>1. Head(l) = EndOp /\ Tail(l) = <<ClosedOp>> /\ <<ClosedOp>> # <<>>
    BY <1>3, ShortLists
  <2> QED
    BY <2>1, Operations DEF NoneLists, Unlogged
<1>4. CASE l = <<ErrorOp, EndOp, ClosedOp>>
  <2>1. /\ Head(l) = ErrorOp /\ Tail(l) = <<EndOp, ClosedOp>>
        /\ <<EndOp, ClosedOp>> # <<>> /\ <<EndOp, ClosedOp>> # <<ClosedOp>>
    BY <1>4, ShortLists
  <2> QED
    BY <2>1, Operations DEF NoneLists, Unlogged
<1> QED
  BY <1>1, <1>2, <1>3, <1>4

-----------------------------------------------------------------------------
(* What a message, and the end of the application, makes a task do.        *)

\* What may be sent when nothing is, in a state of the stream.
MayBegin(state, item) ==
    /\ item \in Items \cup Silent
    /\ item \in {"Informational", "Response"} => state = "REQUEST"
    /\ item = "Body" => state = "RESPONSE"
    /\ item = "Trailers" => state = "TRAILERS"
    /\ item = "EndBody" =>
         \/ state \in {"RESPONSE", "TRAILERS"}
         \/ state = "REQUEST" /\ ~(world.te \/ world.wsgi)

(* Short lists joined.                                                     *)
LEMMA Joined ==
    ASSUME NEW a, NEW b, NEW c
    PROVE  /\ <<a>> \o <<>> = <<a>> /\ <<>> \o <<a>> = <<a>>
           /\ <<>> \o <<a, b>> = <<a, b>> /\ <<>> \o <<>> = <<>>
           /\ <<a>> \o <<b>> = <<a, b>>
           /\ <<a>> \o <<b, c>> = <<a, b, c>>
           /\ <<a, b>> \o <<c>> = <<a, b, c>>
<1> PICK S : S = {a, b, c}
  OBVIOUS
<1>2. <<a>> \o <<>> = <<a>> /\ <<>> \o <<a>> = <<a>>
  OBVIOUS
<1>3. <<>> \o <<a, b>> = <<a, b>> /\ <<>> \o <<>> = <<>>
  OBVIOUS
<1> PICK s1 : s1 = <<a>>
  OBVIOUS
<1> PICK t1 : t1 = <<b>>
  OBVIOUS
<1> PICK u1 : u1 = <<c>>
  OBVIOUS
<1> PICK s2 : s2 = <<a, b>>
  OBVIOUS
<1> PICK t2 : t2 = <<b, c>>
  OBVIOUS
<1> PICK s3 : s3 = <<a, b, c>>
  OBVIOUS
<1>4. /\ s1 \in Seq(S) /\ Len(s1) = 1 /\ s1[1] = a
      /\ t1 \in Seq(S) /\ Len(t1) = 1 /\ t1[1] = b
      /\ u1 \in Seq(S) /\ Len(u1) = 1 /\ u1[1] = c
  OBVIOUS
<1>5. /\ s2 \in Seq(S) /\ Len(s2) = 2 /\ s2[1] = a /\ s2[2] = b
      /\ t2 \in Seq(S) /\ Len(t2) = 2 /\ t2[1] = b /\ t2[2] = c
  OBVIOUS
<1>6. s3 \in Seq(S) /\ Len(s3) = 3 /\ s3[1] = a /\ s3[2] = b /\ s3[3] = c
  OBVIOUS
<1>7. s1 \o t1 = s2
  <2>1. s1 \o t1 \in Seq(S) /\ Len(s1 \o t1) = Len(s2)
    BY <1>4, <1>5, ConcatProperties
  <2>2. \A i \in 1..Len(s1 \o t1) : (s1 \o t1)[i] = s2[i]
    BY <1>4, <1>5, <2>1, ConcatProperties
  <2> QED
    BY <1>4, <1>5, <2>1, <2>2, SeqEqual
<1>8. s1 \o t2 = s3
  <2>1. s1 \o t2 \in Seq(S) /\ Len(s1 \o t2) = Len(s3)
    BY <1>4, <1>5, <1>6, ConcatProperties
  <2>2. \A i \in 1..Len(s1 \o t2) : (s1 \o t2)[i] = s3[i]
    BY <1>4, <1>5, <1>6, <2>1, ConcatProperties
  <2> QED
    BY <1>4, <1>5, <1>6, <2>1, <2>2, SeqEqual
<1>9. s2 \o u1 = s3
  <2>1. s2 \o u1 \in Seq(S) /\ Len(s2 \o u1) = Len(s3)
    BY <1>4, <1>5, <1>6, ConcatProperties
  <2>2. \A i \in 1..Len(s2 \o u1) : (s2 \o u1)[i] = s3[i]
    BY <1>4, <1>5, <1>6, <2>1, ConcatProperties
  <2> QED
    BY <1>4, <1>5, <1>6, <2>1, <2>2, SeqEqual
<1> QED
  BY <1>2, <1>3, <1>7, <1>8, <1>9

(* A message has the fields of one.                                        *)
LEMMA MessageFields ==
    ASSUME NEW m \in Messages
    PROVE  /\ m.type \in {"start", "body", "trailers", "hint", "push"}
           /\ m.more \in BOOLEAN /\ m.flag \in BOOLEAN
           /\ m.type = "start" => ~m.more
BY DEF Messages

(* Whatever it is, what is sent for an expected message may be sent in this state. *)
LEMMA MessageBegins ==
    ASSUME NEW m \in Messages, stream.state \in States, world \in WorldRecords,
           stream.promised \in BOOLEAN, Expected(m)
    PROVE  LET l == OpsOf(m) IN
           /\ l \in Lists(stream.state)
           /\ (world.wsgi => m.type \in {"start", "body"}) /\ l # <<>>
                => MayBegin(stream.state, Head(l).send)
           /\ l # <<>> => Head(l).send # "StreamClosed"
           /\ Unlogged(l) => m.type = "trailers" /\ ~world.te
<1> PICK l : l = OpsOf(m)
  OBVIOUS
<1> SUFFICES /\ l \in Lists(stream.state)
             /\ (world.wsgi => m.type \in {"start", "body"}) /\ l # <<>>
                  => MayBegin(stream.state, Head(l).send)
             /\ l # <<>> => Head(l).send # "StreamClosed"
             /\ Unlogged(l) => m.type = "trailers" /\ ~world.te
  OBVIOUS
<1>1. EndOps = <<EndOp, ClosedOp>>
  BY DEF EndOps, EndOp, ClosedOp
<1>2. world.te \in BOOLEAN /\ world.head \in BOOLEAN /\ world.wsgi \in BOOLEAN
  BY DEF WorldRecords
<1>3. CASE m.type = "start"
  <2>1. l = <<StartOp>> /\ stream.state = "REQUEST"
    BY <1>3 DEF OpsOf, Expected, StartOp
  <2> QED
    BY <2>1, ShortLists, Operations DEF Lists, LastOps, MayBegin, Items, Silent, Unlogged
<1>4. CASE m.type = "hint"
  <2>1. l = <<HintOp>> /\ stream.state = "REQUEST"
    BY <1>4 DEF OpsOf, Expected, HintOp
  <2> QED
    BY <2>1, ShortLists, Operations DEF Lists, LastOps, MayBegin, Items, Silent, Unlogged
<1>5. CASE m.type = "push"
  <2>1. l = <<PushOp>>
    BY <1>5 DEF OpsOf, PushOp
  <2> QED
    BY <2>1, ShortLists, Operations DEF Lists, LastOps, MayBegin, Items, Silent, Unlogged, States
<1>6. CASE m.type = "body"
  <2>0. stream.state = "RESPONSE"
    BY <1>6 DEF Expected
  <2>1. l = When(m.flag /\ ~world.head, <<BodyOp>>)
              \o When(~m.more, IF stream.promised THEN <<TurnOp>> ELSE <<EndOp, ClosedOp>>)
    BY <1>1, <1>6 DEF OpsOf, BodyOp, TurnOp
  <2>2. \/ l = <<>> \/ l = <<BodyOp>> \/ l = <<TurnOp>> \/ l = <<EndOp, ClosedOp>>
        \/ l = <<BodyOp, TurnOp>> \/ l = <<BodyOp, EndOp, ClosedOp>>
    BY <2>1, Joined, MessageFields, <1>2, Zenon DEF When
  <2> QED
    BY <2>0, <2>2, ShortLists, Operations DEF Lists, LastOps, EndedOps, MayBegin, Items, Silent, Unlogged
<1>7. CASE m.type = "trailers" /\ stream.state = "REQUEST"
  <2>1. l = IF world.te THEN <<BareStartOp>> \o When(~m.more, <<EndOp, ClosedOp>>)
                        ELSE When(~m.more, <<UnloggedOp>>)
    BY <1>1, <1>7 DEF OpsOf, BareStartOp, UnloggedOps, UnloggedOp
  <2>2. \/ l = <<>> \/ l = <<BareStartOp>> \/ l = <<BareStartOp, EndOp, ClosedOp>>
        \/ ~world.te /\ l = <<UnloggedOp>>
    BY <2>1, Joined, MessageFields, <1>2, Zenon DEF When
  <2> QED
    BY <1>7, <2>2, ShortLists, Operations
       DEF Lists, LastOps, EndedOps, MayBegin, Items, Silent, Unlogged
<1>8. CASE m.type = "trailers" /\ stream.state # "REQUEST"
  <2>0. stream.state = "TRAILERS"
    BY <1>8 DEF Expected
  <2>1. l = When(~m.more, When(world.te, <<TrailersOp>>) \o <<EndOp, ClosedOp>>)
    BY <1>1, <1>8 DEF OpsOf, TrailersOp
  <2>2. l = <<>> \/ l = <<EndOp, ClosedOp>> \/ l = <<TrailersOp, EndOp, ClosedOp>>
    BY <2>1, Joined, MessageFields, <1>2, Zenon DEF When
  <2> QED
    BY <2>0, <2>2, ShortLists, Operations DEF Lists, LastOps, EndedOps, MayBegin, Items, Silent, Unlogged
<1> QED
  BY <1>3, <1>4, <1>5, <1>6, <1>7, <1>8, MessageFields

(* What the end of the application sends may be sent.                      *)
LEMMA NoneBegins ==
    ASSUME stream.state \in States, stream.closed \in BOOLEAN
    PROVE  /\ NoneOps \in NoneLists /\ NoneOps \in Lists(stream.state)
           /\ NoneOps = <<>> <=> stream.closed
           /\ NoneOps # <<>> /\ stream.state # "REQUEST" => NoneOps = <<ClosedOp>>
           /\ NoneOps # <<>> /\ stream.state = "REQUEST" => Head(NoneOps) = ErrorOp
           /\ NoneOps # <<>> => MayBegin(stream.state, Head(NoneOps).send)
<1> PICK l : l = NoneOps
  OBVIOUS
<1> SUFFICES /\ l \in NoneLists /\ l \in Lists(stream.state)
             /\ l = <<>> <=> stream.closed
             /\ l # <<>> /\ stream.state # "REQUEST" => l = <<ClosedOp>>
             /\ l # <<>> /\ stream.state = "REQUEST" => Head(l) = ErrorOp
             /\ l # <<>> => MayBegin(stream.state, Head(l).send)
  OBVIOUS
<1>1. ErrorOps = <<ErrorOp, EndOp>>
  BY DEF ErrorOps, ErrorOp, EndOp
<1>2. l = IF stream.closed THEN <<>>
          ELSE When(stream.state = "REQUEST", <<ErrorOp, EndOp>>) \o <<ClosedOp>>
  BY <1>1 DEF NoneOps, ClosedOp
<1>3. CASE stream.closed
  BY <1>2, <1>3 DEF NoneLists, Lists
<1>4. CASE ~stream.closed /\ stream.state = "REQUEST"
  <2>1. l = <<ErrorOp, EndOp, ClosedOp>>
    BY <1>2, <1>4, Joined, Zenon DEF When
  <2> QED
    BY <1>4, <2>1, ShortLists, Operations
       DEF NoneLists, Lists, EndedOps, MayBegin, Items, Silent
<1>5. CASE ~stream.closed /\ stream.state # "REQUEST"
  <2>1. l = <<ClosedOp>>
    BY <1>2, <1>5, Joined, Zenon DEF When
  <2> QED
    BY <1>5, <2>1, ShortLists, Operations
       DEF NoneLists, Lists, LastOps, MayBegin, Items, Silent, States
<1> QED
  BY <1>3, <1>4, <1>5

-----------------------------------------------------------------------------
(* The response on the wire.                                               *)

On(w, item) == \E i \in 1..Len(w) : w[i] = item
OnBefore(w, i, items) == \E j \in 1..(i - 1) : w[j] \in items

\* What WireInOrder says of an item of the wire.
ItemInOrder(w, i) ==
    /\ ~OnBefore(w, i, {"EndBody"})
    /\ w[i] \in {"Informational", "Response"} => ~OnBefore(w, i, {"Response"})
    /\ w[i] \in {"Body", "Trailers"} =>
         OnBefore(w, i, {"Response"}) /\ ~OnBefore(w, i, {"Trailers"})
    /\ w[i] = "EndBody" => OnBefore(w, i, {"Response"}) \/ ~(world.te \/ world.wsgi)

InOrder(w) == \A i \in 1..Len(w) : ItemInOrder(w, i)

MayAppend(w, item) ==
    /\ ~On(w, "EndBody")
    /\ item \in {"Informational", "Response"} => ~On(w, "Response")
    /\ item \in {"Body", "Trailers"} => On(w, "Response") /\ ~On(w, "Trailers")
    /\ item = "EndBody" => On(w, "Response") \/ ~(world.te \/ world.wsgi)

(* An item that may be appended keeps the order.                           *)
LEMMA OrderGrows ==
    ASSUME NEW w \in Seq(Items), NEW item \in Items, NEW v, v = Append(w, item),
           InOrder(w), MayAppend(w, item)
    PROVE  InOrder(v)
<1>1. /\ v \in Seq(Items) /\ Len(v) = Len(w) + 1 /\ Len(w) \in Nat
      /\ v[Len(w) + 1] = item /\ \A i \in 1..Len(w) : v[i] = w[i]
  OBVIOUS
<1>2. ASSUME NEW i \in 1..Len(w) PROVE ItemInOrder(v, i)
  <2>1. ItemInOrder(w, i) /\ v[i] = w[i]
    BY <1>1 DEF InOrder
  <2>2. \A items : OnBefore(v, i, items) <=> OnBefore(w, i, items)
    BY <1>1 DEF OnBefore
  <2> QED
    BY <2>1, <2>2 DEF ItemInOrder
<1>3. ItemInOrder(v, Len(w) + 1)
  <2>1. \A x : OnBefore(v, Len(w) + 1, {x}) <=> On(w, x)
    BY <1>1 DEF OnBefore, On
  <2> QED
    BY <1>1, <2>1 DEF ItemInOrder, MayAppend
<1> QED
  BY <1>1, <1>2, <1>3 DEF InOrder

(* What is on the wire after an append.                                    *)
LEMMA OnAppended ==
    ASSUME NEW w \in Seq(Items), NEW item \in Items, NEW v, v = Append(w, item), NEW x
    PROVE  On(v, x) <=> On(w, x) \/ x = item
<1>1. /\ Len(v) = Len(w) + 1 /\ Len(w) \in Nat
      /\ v[Len(w) + 1] = item /\ \A i \in 1..Len(w) : v[i] = w[i]
  OBVIOUS
<1> QED
  BY <1>1 DEF On

\* How the state tells what is on the wire, when item is being sent.
Told(w, state, item) ==
    /\ On(w, "EndBody") <=> state = "CLOSED" \/ item = "EndBody"
    /\ ~On(w, "EndBody") =>
         (On(w, "Response") <=> state \in {"RESPONSE", "TRAILERS"} \/ item = "Response")
    /\ On(w, "Trailers") => On(w, "EndBody") \/ item = "Trailers"

\* What is on the wire once the send of item has begun.
WithItem(w, item) == IF item \in Silent THEN w ELSE Append(w, item)

(* The first send of a message keeps the order and what the state tells.   *)
LEMMA FirstSent ==
    ASSUME NEW w \in Seq(Items), NEW state \in States, NEW item, MayBegin(state, item),
           InOrder(w), Told(w, state, "nothing"), NEW v, v = WithItem(w, item)
    PROVE  v \in Seq(Items) /\ InOrder(v) /\ Told(v, state, item)
<1>1. CASE item \in Silent
  <2>1. v = w
    BY <1>1 DEF WithItem
  <2> QED
    BY <1>1, <2>1 DEF Told, Silent
<1>2. CASE item \notin Silent
  <2>1. v = Append(w, item) /\ item \in Items
    BY <1>2 DEF WithItem, MayBegin
  <2>2. v \in Seq(Items)
    BY <2>1
  <2>3. MayAppend(w, item)
    BY <2>1 DEF Told, MayBegin, MayAppend, States, Items
  <2>4. InOrder(v)
    BY <2>1, <2>3, OrderGrows
  <2>5. \A x : On(v, x) <=> On(w, x) \/ x = item
    BY <2>1, OnAppended
  <2> QED
    BY <2>1, <2>2, <2>4, <2>5 DEF Told, MayBegin, States, Items
<1> QED
  BY <1>1, <1>2

Item(l) == IF l = <<>> THEN "nothing" ELSE Head(l).send

(* So does the next one, when a send has returned and the state is assigned. *)
LEMMA NextSent ==
    ASSUME NEW w \in Seq(Items), NEW state \in States, NEW l, Continues(state, l),
           InOrder(w), Told(w, state, Head(l).send),
           NEW v, v = WithItem(w, Item(Tail(l)))
    PROVE  v \in Seq(Items) /\ InOrder(v) /\ Told(v, After(state, l), Item(Tail(l)))
<1> PICK next : next = After(state, l)
  OBVIOUS
<1> PICK item : item = Head(l).send
  OBVIOUS
<1> PICK rest : rest = Tail(l)
  OBVIOUS
<1>1. CASE rest # <<>> /\ Head(rest).send = "EndBody"
  <2>0. Item(rest) = "EndBody" /\ v = Append(w, "EndBody")
    BY <1>1 DEF Item, WithItem, Silent
  <2>1. /\ state # "CLOSED" /\ next # "CLOSED" /\ item # "EndBody"
        /\ state \in {"RESPONSE", "TRAILERS"} \/ item = "Response"
    BY <1>1 DEF Continues
  <2>2. ~On(w, "EndBody") /\ On(w, "Response")
    BY <2>1 DEF Told
  <2>3. v \in Seq(Items) /\ InOrder(v)
    <3>1. MayAppend(w, "EndBody") /\ "EndBody" \in Items
      BY <2>2 DEF MayAppend, Items
    <3> QED
      BY <2>0, <3>1, OrderGrows
  <2>4. On(v, "EndBody")
    <3>1. "EndBody" \in Items
      BY DEF Items
    <3> QED
      BY <2>0, <3>1, OnAppended
  <2> QED
    BY <2>0, <2>1, <2>3, <2>4 DEF Told
<1>2. CASE rest = <<>> \/ Head(rest).send # "EndBody"
  <2>0. /\ Item(rest) \in {"nothing", "StreamClosed"} /\ v = w
        /\ next = "CLOSED" <=> state = "CLOSED" \/ item = "EndBody"
        /\ next # "CLOSED" =>
             (next \in {"RESPONSE", "TRAILERS"}
               <=> state \in {"RESPONSE", "TRAILERS"} \/ item = "Response")
        /\ item # "Trailers"
    BY <1>2 DEF Item, WithItem, Silent, Continues
  <2> QED
    BY <2>0 DEF Told
<1> QED
  BY <1>1, <1>2

-----------------------------------------------------------------------------
(* The inductive invariant.                                                *)

Inputs == {"Request", "Body", "EndBody", "StreamClosed"}
Given == {"Body", "EndBody", "disconnect"}
Places == {"none", "run", "read", "thread", "returned", "failed", "failed again",
           "ending", "over"}
Ending == {"failed again", "ending", "over"}
Streams == [state : States, closed : BOOLEAN, promised : BOOLEAN]
Consumers == [at : {"wait", "put", "refuse", "over"}, puts : Given \cup {"none"}]
Apps == [at : Places, calls : Seq(Messages), sent : 0..MaxMessages]
Wsgis == [size : Nat, whole : BOOLEAN, started : BOOLEAN, headers : BOOLEAN]
Clients == [chunks : 0..MaxChunks, done : BOOLEAN]

Types ==
    /\ world \in WorldRecords /\ client \in Clients
    /\ queue \in Seq(Inputs) /\ known \in BOOLEAN /\ broken \in BOOLEAN
    /\ stream \in Streams /\ logged \in Nat /\ missed \in BOOLEAN
    /\ consumer \in Consumers
    /\ appQueue \in Seq(Given) /\ Len(appQueue) <= AppQueueSize
    /\ app \in Apps /\ wsgi \in Wsgis
    /\ DOMAIN ops = {"consumer", "app"} /\ wire \in Seq(Items)

\* The request has not been handled.
Fresh == queue # <<>> /\ Head(queue) = "Request"

\* Until then nothing has happened; afterwards there is an application if the host
\* is served.
Opening ==
    /\ \A i \in 2..Len(queue) : queue[i] # "Request"
    /\ Fresh => /\ app.at = "none" /\ consumer.at = "wait" /\ stream.state = "REQUEST"
                /\ ~stream.closed /\ wire = <<>> /\ appQueue = <<>> /\ wsgi.size = 0
                /\ ops["consumer"] = <<>>
    /\ ~Fresh => (world.served <=> app.at # "none")

\* What the consumer is doing.
Consuming ==
    /\ ops["consumer"] \in Refusals
    /\ consumer.at = "put" <=> consumer.puts # "none"
    /\ consumer.at = "put" => app.at # "none"
    /\ consumer.at = "refuse" => app.at = "none" /\ ~stream.closed
    /\ consumer.at = "refuse" /\ ops["consumer"] = <<>> => stream.state = "CLOSED"
    /\ ops["consumer"] # <<>> => consumer.at = "refuse" /\ stream.state = "REQUEST"

\* Which messages a WSGI application sends.
OfWsgi(calls) == \A i \in 1..Len(calls) : calls[i].type \in {"start", "body"}

\* What the application's task is doing.
Applying ==
    /\ ops["app"] \in Lists(stream.state)
    /\ app.at \in {"none", "read", "failed", "over"} =>
         ops["app"] = <<>> /\ app.calls = <<>>
    /\ app.at \in {"failed again", "ending"} =>
         ops["app"] \in NoneLists /\ app.calls = <<>>
    /\ app.at = "read" => stream.state = "REQUEST"
    /\ app.at = "run" => ~world.wsgi
    /\ world.wsgi => OfWsgi(app.calls)

Roles == Opening /\ Consuming /\ Applying

\* A response is logged when it is complete, or when its stream is closed before
\* that; both only if the stream breaks while the end of the response is sent.  It
\* is missed only where trailers were not asked for.
Logging ==
    /\ stream.state = "CLOSED" \/ stream.closed => logged >= 1 \/ missed
    /\ stream.state # "CLOSED" /\ ~stream.closed => logged = 0
    /\ stream.state # "CLOSED" \/ ~stream.closed => logged <= 1
    /\ logged <= 2
    /\ logged = 2 \/ (logged = 1 /\ missed) => world.version = 2 /\ broken
    /\ missed => stream.state = "CLOSED" /\ logged < 2
    /\ missed \/ Unlogged(ops["app"]) => ~world.te /\ ~world.wsgi

\* Where the end of the stream is on its way to the application.
Telling ==
    /\ world.version = 2 /\ consumer.at = "over" => stream.closed
    /\ \A i \in 1..Len(queue) :
         queue[i] = "StreamClosed" => world.version = 2 /\ ~known /\ i = Len(queue)
    /\ stream.closed /\ app.at # "none" => world.version = 2 /\ ~known /\ queue = <<>>
    /\ consumer.puts = "disconnect" => stream.closed
    /\ \A i \in 1..Len(appQueue) : appQueue[i] = "disconnect" => stream.closed

\* When the stream leaves the protocol.
Leaving ==
    /\ ~known /\ ~broken => \/ stream.state = "CLOSED"
                            \/ app.at \in Ending /\ ops["app"] \in {<<>>, <<ClosedOp>>}
    /\ app.at \in Ending /\ ~broken /\ ops["app"] = <<>> =>
         ~known /\ stream.state # "REQUEST"
    /\ Item(ops["app"]) = "StreamClosed" => ~known

\* What is being sent.
Sending == IF ops["consumer"] # <<>> THEN Item(ops["consumer"]) ELSE Item(ops["app"])

Wired == InOrder(wire) /\ (~broken => Told(wire, stream.state, Sending))

-----------------------------------------------------------------------------
(* What the steps do.                                                      *)

(* An event of the client, or of the protocol, at the end of the queue.    *)
LEMMA QueueGrows ==
    ASSUME queue \in Seq(Inputs), NEW e \in Inputs \ {"Request"}, queue' = Append(queue, e)
    PROVE  /\ queue' \in Seq(Inputs) /\ Len(queue') = Len(queue) + 1 /\ Len(queue) \in Nat
           /\ queue'[Len(queue) + 1] = e /\ queue' # <<>>
           /\ \A i \in 1..Len(queue) : queue'[i] = queue[i]
           /\ Fresh' <=> Fresh
           /\ (\A i \in 2..Len(queue) : queue[i] # "Request")
                => \A i \in 2..Len(queue') : queue'[i] # "Request"
<1> PICK q : q = queue
  OBVIOUS
<1> PICK r : r = Append(q, e)
  OBVIOUS
<1>1. /\ r \in Seq(Inputs) /\ Len(r) = Len(q) + 1 /\ Len(q) \in Nat
      /\ r[Len(q) + 1] = e /\ r # <<>>
      /\ \A i \in 1..Len(q) : r[i] = q[i]
  OBVIOUS
<1>2. q # <<>> => Head(r) = Head(q)
  BY <1>1
<1>3. q = <<>> => Head(r) # "Request"
  BY <1>1
<1>4. r # <<>> /\ Head(r) = "Request" <=> q # <<>> /\ Head(q) = "Request"
  BY <1>1, <1>2, <1>3
<1> QED
  BY <1>1, <1>4 DEF Fresh

(* The event at its head is taken.                                         *)
LEMMA QueueShrinks ==
    ASSUME queue \in Seq(Inputs), queue # <<>>, queue' = Tail(queue)
    PROVE  /\ queue' \in Seq(Inputs) /\ Len(queue') = Len(queue) - 1 /\ Len(queue) \in Nat
           /\ Len(queue) >= 1 /\ Head(queue) = queue[1]
           /\ \A i \in 1..Len(queue') : queue'[i] = queue[i + 1]
           /\ (\A i \in 2..Len(queue) : queue[i] # "Request")
                => ~Fresh' /\ \A i \in 2..Len(queue') : queue'[i] # "Request"
<1> PICK q : q = queue
  OBVIOUS
<1> PICK r : r = Tail(q)
  OBVIOUS
<1>1. /\ r \in Seq(Inputs) /\ Len(r) = Len(q) - 1 /\ Len(q) \in Nat
      /\ Len(q) >= 1 /\ Head(q) = q[1]
      /\ \A i \in 1..Len(r) : r[i] = q[i + 1]
  BY HeadTailProperties
<1>2. r # <<>> => Head(r) = r[1] /\ 1 \in 1..Len(r)
  BY <1>1
<1>3. ASSUME \A i \in 2..Len(q) : q[i] # "Request"
      PROVE  /\ ~(r # <<>> /\ Head(r) = "Request")
             /\ \A i \in 2..Len(r) : r[i] # "Request"
  BY <1>1, <1>2, <1>3
<1> QED
  BY <1>1, <1>3 DEF Fresh

\* What the first send of a list does to the stream's queue.
Tells(item) == IF item = "StreamClosed" THEN CloseStream ELSE UNCHANGED queueVars

(* What the first send of a list does.                                     *)
LEMMA BeginDoes ==
    ASSUME NEW l, Begin(l)
    PROVE  /\ wire' = IF broken THEN wire ELSE WithItem(wire, Item(l))
           /\ Tells(Item(l))
<1>1. CASE l = <<>>
  BY <1>1 DEF Begin, Item, Tells, WithItem, Silent
<1>2. CASE l # <<>> /\ Head(l).send = "StreamClosed"
  BY <1>2 DEF Begin, Item, Tells, WithItem, Silent
<1>3. CASE l # <<>> /\ Head(l).send # "StreamClosed"
  BY <1>3 DEF Begin, Item, Tells, WithItem, Silent
<1> QED
  BY <1>1, <1>2, <1>3

(* A stream that is closed may be told so, under HTTP/2, once.             *)
LEMMA ToldOnce ==
    ASSUME NEW item, Tells(item), queue \in Seq(Inputs)
    PROVE  /\ \/ UNCHANGED queue
              \/ known /\ world.version = 2 /\ queue' = Append(queue, "StreamClosed")
           /\ known' = known \/ known' = FALSE
           /\ item # "StreamClosed" => UNCHANGED queueVars
           /\ item = "StreamClosed" => ~known'
           /\ item = "StreamClosed" /\ known /\ world.version = 2 =>
                queue' = Append(queue, "StreamClosed")
           /\ ~known /\ known \in BOOLEAN => ~known' /\ UNCHANGED queue
           /\ queue' \in Seq(Inputs) /\ (Fresh' <=> Fresh)
           /\ (\A i \in 2..Len(queue) : queue[i] # "Request")
                => \A i \in 2..Len(queue') : queue'[i] # "Request"
<1>1. "StreamClosed" \in Inputs \ {"Request"}
  BY DEF Inputs
<1>2. UNCHANGED queue \/ queue' = Append(queue, "StreamClosed")
  BY DEF Tells, CloseStream, queueVars
<1>3. /\ queue' \in Seq(Inputs) /\ (Fresh' <=> Fresh)
      /\ (\A i \in 2..Len(queue) : queue[i] # "Request")
                => \A i \in 2..Len(queue') : queue'[i] # "Request"
  <2>1. CASE UNCHANGED queue
    BY <2>1 DEF Fresh
  <2>2. CASE queue' = Append(queue, "StreamClosed")
    BY <1>1, <2>2, QueueGrows
  <2> QED
    BY <1>2, <2>1, <2>2
<1> QED
  BY <1>3 DEF Tells, CloseStream, queueVars

(* What is on the wire has its type, with the next item too.               *)
LEMMA WireTypes ==
    ASSUME wire \in Seq(Items), NEW item \in Items \cup Silent,
           wire' = IF broken THEN wire ELSE WithItem(wire, item)
    PROVE  wire' \in Seq(Items)
<1>1. CASE item \in Silent \/ broken
  BY <1>1 DEF WithItem
<1>2. CASE item \in Items /\ item \notin Silent /\ ~broken
  <2>1. wire' = Append(wire, item)
    BY <1>2 DEF WithItem
  <2> QED
    BY <1>2, <2>1
<1> QED
  BY <1>1, <1>2

\* What a send that returns does: the task continues with the rest, or with nothing
\* if that raises.
Returned(t, l, list) ==
    LET other == IF t = "app" THEN "consumer" ELSE "app" IN
    /\ l = ops[t] /\ l # <<>> /\ Continues(stream.state, l)
    /\ \/ list = Tail(l)
       \/ list = <<>> /\ broken /\ world.version = 3
    /\ ops'[t] = list /\ ops'[other] = ops[other] /\ DOMAIN ops' = {"consumer", "app"}
    /\ Begin(list)
    /\ stream' \in Streams /\ stream'.state = After(stream.state, l)
    /\ stream'.closed = stream.closed
    /\ logged' = IF Head(l).then = "CLOSED" THEN logged + 1 ELSE logged
    /\ missed' = (missed \/ Head(l).then = "UNLOGGED")
    /\ UNCHANGED <<world, client, broken, appQueue, wsgi>>
    /\ app' \in Apps
    /\ \/ UNCHANGED app
       \/ /\ t = "app" /\ list = <<>> /\ app'.calls = <<>> /\ (broken \/ Unlogged(l))
          /\ app'.at = IF app.at = "ending" THEN "over" ELSE "failed"
    /\ consumer' \in Consumers /\ consumer'.puts = consumer.puts
    /\ \/ UNCHANGED consumer /\ (t = "consumer" => list = Tail(l))
       \/ t = "consumer" /\ list = <<>> /\ consumer'.at = "over" /\ world.version = 3

(* What applies to a task's operations when it is the only one.            *)
LEMMA Continuing ==
    ASSUME Types, Roles, NEW t \in {"consumer", "app"}, ops[t] # <<>>
    PROVE  Continues(stream.state, ops[t])
<1>1. CASE t = "consumer"
  <2>1. ops["consumer"] \in Refusals /\ stream.state = "REQUEST"
    BY <1>1 DEF Roles, Consuming
  <2> QED
    BY <1>1, <2>1, ConsumerContinues
<1>2. CASE t = "app"
  <2>1. ops["app"] \in Lists(stream.state) /\ stream.state \in States
    BY DEF Roles, Applying, Types, Streams
  <2> QED
    BY <1>2, <2>1, AppContinues
<1> QED
  BY <1>1, <1>2

(* An application or a consumer that changes is one still.                 *)
LEMMA AppChanges ==
    ASSUME NEW p \in Places, NEW c \in Seq(Messages), app \in Apps
    PROVE  /\ app' = [app EXCEPT !.at = p]
                => app' \in Apps /\ app'.at = p /\ app'.calls = app.calls
           /\ app' = [app EXCEPT !.calls = c]
                => app' \in Apps /\ app'.at = app.at /\ app'.calls = c
           /\ app' = [app EXCEPT !.at = p, !.calls = c]
                => app' \in Apps /\ app'.at = p /\ app'.calls = c
<1> PICK S : S = Seq(Messages)
  OBVIOUS
<1>1. Apps = [at : Places, calls : S, sent : 0..MaxMessages] /\ c \in S
  BY DEF Apps
<1> QED
  BY <1>1

(* An application that fails has nothing more to send.                     *)
LEMMA AppFails ==
    ASSUME NEW p \in Places, app \in Apps, app' = [app EXCEPT !.at = p, !.calls = <<>>]
    PROVE  app' \in Apps /\ app'.at = p /\ app'.calls = <<>>
<1>1. <<>> \in Seq(Messages)
  BY EmptySeq
<1> QED
  BY <1>1, AppChanges

(* A send that returns lets its task go on, or ends it where that raises.   *)
LEMMA ReturnDoes ==
    ASSUME Types, Roles, NEW t \in {"consumer", "app"}, Return(t)
    PROVE  \E l, list : Returned(t, l, list)
<1> PICK l : l = ops[t]
  OBVIOUS
<1> PICK rest : rest = Tail(l)
  OBVIOUS
<1> PICK then : then = Head(l).then
  OBVIOUS
<1> PICK fails : fails = (Raises(rest) \/ then = "UNLOGGED")
  OBVIOUS
<1> PICK list : list = When(~fails, rest)
  OBVIOUS
<1>1. l # <<>> /\ Continues(stream.state, l) /\ Begin(list) /\ ops' = [ops EXCEPT ![t] = list]
  <2>1. l # <<>> /\ Begin(list) /\ ops' = [ops EXCEPT ![t] = list]
    BY DEF Return
  <2>2. Continues(stream.state, l)
    BY <2>1, Continuing
  <2> QED
    BY <2>1, <2>2
<1>3. Raises(rest) => broken /\ world.version = 3
  BY DEF Raises
<1>2. list = Tail(l) \/ (list = <<>> /\ broken /\ world.version = 3)
  <2>1. then = "UNLOGGED" => rest = <<>>
    BY <1>1 DEF Continues, Unlogged
  <2> QED
    BY <1>3, <2>1 DEF When
<1>4. /\ ops'[t] = list /\ ops'[IF t = "app" THEN "consumer" ELSE "app"]
                              = ops[IF t = "app" THEN "consumer" ELSE "app"]
      /\ DOMAIN ops' = {"consumer", "app"}
  BY <1>1 DEF Types
<1>5. /\ stream' = [stream EXCEPT !.state = After(stream.state, l)]
      /\ logged' = IF then = "CLOSED" THEN logged + 1 ELSE logged
      /\ missed' = (missed \/ then = "UNLOGGED")
      /\ UNCHANGED <<world, client, broken, appQueue, wsgi>>
  BY DEF Return, Assigned, After
<1>7. stream' \in Streams /\ stream'.state = After(stream.state, l)
      /\ stream'.closed = stream.closed
  <2>1. After(stream.state, l) \in States
    BY <1>1 DEF Continues
  <2> QED
    BY <1>5, <2>1 DEF Types, Streams
<1>8. /\ app' \in Apps
      /\ \/ UNCHANGED app
         \/ /\ t = "app" /\ list = <<>> /\ app'.calls = <<>> /\ (broken \/ Unlogged(l))
            /\ app'.at = IF app.at = "ending" THEN "over" ELSE "failed"
  <2>1. CASE t = "app" /\ fails
    <3>1. PICK p : p = IF app.at = "ending" THEN "over" ELSE "failed"
      OBVIOUS
    <3>2. app' = [app EXCEPT !.at = p, !.calls = <<>>]
      BY <2>1, <3>1 DEF Return
    <3>3. app' \in Apps /\ app'.at = p /\ app'.calls = <<>>
      <4>1. p \in Places /\ app \in Apps
        BY <3>1 DEF Places, Types
      <4> QED
        BY <3>2, <4>1, AppFails
    <3>4. list = <<>>
      BY <2>1 DEF When
    <3> QED
      BY <2>1, <1>1, <1>3, <3>1, <3>3, <3>4 DEF Unlogged
  <2>2. CASE ~(t = "app" /\ fails)
    <3>1. UNCHANGED app
      BY <2>2 DEF Return
    <3> QED
      BY <3>1 DEF Types
  <2> QED
    BY <2>1, <2>2
<1>9. /\ consumer' \in Consumers /\ consumer'.puts = consumer.puts
      /\ \/ UNCHANGED consumer /\ (t = "consumer" => list = Tail(l))
         \/ t = "consumer" /\ list = <<>> /\ consumer'.at = "over" /\ world.version = 3
  <2>1. consumer' = IF t = "consumer" /\ fails THEN [consumer EXCEPT !.at = "over"]
                                                     ELSE consumer
    BY DEF Return
  <2>2. CASE t = "consumer" /\ fails
    <3>1. list = <<>>
      BY <2>2 DEF When
    <3>2. ~Unlogged(l)
      BY <1>1, <2>2, ConsumerContinues DEF Roles, Consuming
    <3>3. Raises(rest)
      BY <1>1, <2>2, <3>2 DEF Unlogged
    <3> QED
      BY <2>1, <2>2, <3>1, <3>3, <1>3 DEF Types, Consumers
  <2>3. CASE ~(t = "consumer" /\ fails)
    <3>1. t = "consumer" => list = Tail(l)
      BY <2>3 DEF When
    <3> QED
      BY <2>1, <2>3, <3>1 DEF Types
  <2> QED
    BY <2>2, <2>3
<1> QED
  BY <1>1, <1>2, <1>3, <1>4, <1>5, <1>7, <1>8, <1>9 DEF Returned

\* What the first send of a message, or of the application's end, does.
Called(list) ==
    /\ ops["app"] = <<>>
    /\ ops'["app"] = list /\ ops'["consumer"] = ops["consumer"]
    /\ DOMAIN ops' = {"consumer", "app"}
    /\ list \in Lists(stream.state)
    /\ list # <<>> => MayBegin(stream.state, Head(list).send)
    /\ Unlogged(list) => ~world.te /\ ~world.wsgi
    /\ Begin(list)
    /\ stream' \in Streams /\ stream'.state = stream.state
    /\ stream'.closed = stream.closed
    /\ app' \in Apps
    /\ UNCHANGED <<world, client, broken, logged, missed, consumer, appQueue, wsgi>>

Messaged(list) ==
    /\ Called(list)
    /\ app.calls # <<>>
    /\ list # <<>> => Head(list).send # "StreamClosed"
    /\ \/ app'.at = app.at /\ app'.calls = Tail(app.calls)
       \/ app'.at = "failed" /\ app'.calls = <<>> /\ list = <<>>

(* A message's first send begins, or the message is refused and raises.     *)
LEMMA CallDoes ==
    ASSUME Types, Roles, Call
    PROVE  \E list : Messaged(list)
<1> PICK m : m = Head(app.calls)
  OBVIOUS
<1> PICK l : l = OpsOf(m)
  OBVIOUS
<1> PICK fails : fails = (~Expected(m) \/ Raises(l))
  OBVIOUS
<1> PICK list : list = When(~fails, l)
  OBVIOUS
<1>0. app.calls # <<>> /\ ops["app"] = <<>> /\ app.calls \in Seq(Messages)
  BY DEF Call, Types, Apps
<1>1. m \in Messages /\ Tail(app.calls) \in Seq(Messages)
  BY <1>0, HeadTailProperties
<1>2. fails \in BOOLEAN /\ (fails => list = <<>>) /\ (~fails => list = l /\ Expected(m))
  BY DEF When
<1>3. /\ list \in Lists(stream.state)
      /\ list # <<>> => MayBegin(stream.state, Head(list).send)
      /\ list # <<>> => Head(list).send # "StreamClosed"
      /\ Unlogged(list) => ~world.te /\ ~world.wsgi
  <2>1. world.wsgi => m.type \in {"start", "body"}
    <3>1. world.wsgi => OfWsgi(app.calls)
      BY DEF Roles, Applying
    <3>2. Len(app.calls) >= 1 /\ m = app.calls[1] /\ Len(app.calls) \in Nat
      BY <1>0, HeadTailProperties
    <3> QED
      BY <3>1, <3>2 DEF OfWsgi
  <2>2. /\ stream.state \in States /\ world \in WorldRecords /\ stream.promised \in BOOLEAN
    BY DEF Types, Streams
  <2>3. CASE fails
    BY <1>2, <2>3 DEF Lists, Unlogged
  <2>4. CASE ~fails
    BY <1>1, <1>2, <2>1, <2>2, <2>4, MessageBegins
  <2> QED
    BY <2>3, <2>4
<1>4. ops' = [ops EXCEPT !["app"] = list] /\ Begin(list)
  BY DEF Call
<1>5. /\ ops'["app"] = list /\ ops'["consumer"] = ops["consumer"]
      /\ DOMAIN ops' = {"consumer", "app"}
  BY <1>4 DEF Types
<1>6. UNCHANGED <<world, client, broken, logged, missed, consumer, appQueue, wsgi>>
  BY DEF Call
<1>7. stream' \in Streams /\ stream'.state = stream.state /\ stream'.closed = stream.closed
  <2>1. stream' = IF m.type = "start" /\ Expected(m)
                  THEN [stream EXCEPT !.promised = m.flag] ELSE stream
    BY DEF Call
  <2>2. m.flag \in BOOLEAN
    BY <1>1, MessageFields
  <2> QED
    BY <2>1, <2>2 DEF Types, Streams
<1>8. /\ app' \in Apps
      /\ \/ app'.at = app.at /\ app'.calls = Tail(app.calls)
         \/ app'.at = "failed" /\ app'.calls = <<>> /\ list = <<>>
  <2>1. CASE fails
    <3>1. app' = [app EXCEPT !.at = "failed", !.calls = <<>>]
      BY <2>1 DEF Call
    <3>2. "failed" \in Places /\ app \in Apps
      BY DEF Places, Types
    <3> QED
      BY <2>1, <1>2, <3>1, <3>2, AppFails
  <2>2. CASE ~fails
    <3> PICK tail : tail = Tail(app.calls)
      OBVIOUS
    <3>1. app' = [app EXCEPT !.calls = tail]
      BY <2>2 DEF Call
    <3>2. tail \in Seq(Messages) /\ app \in Apps /\ "none" \in Places
      BY <1>1 DEF Types, Places
    <3>3. app' \in Apps /\ app'.at = app.at /\ app'.calls = tail
      BY <3>1, <3>2, AppChanges
    <3> QED
      BY <3>3
  <2> QED
    BY <1>2, <2>1, <2>2
<1> QED
  BY <1>0, <1>3, <1>4, <1>5, <1>6, <1>7, <1>8, Zenon DEF Messaged, Called

\* What app_send(None) does.
Ended(list, next) ==
    /\ Called(list)
    /\ app.calls = <<>> /\ app'.calls = <<>> /\ list \in NoneLists
    /\ list # <<>> => /\ ~stream.closed
                      /\ stream.state # "REQUEST" => list = <<ClosedOp>>
                      /\ stream.state = "REQUEST" => Head(list) = ErrorOp
    /\ list = <<>> /\ ~broken => stream.closed
    /\ \/ app'.at = next
       \/ list = <<>> /\ broken /\ app'.at = "over"

(* The first send of app_send(None) begins, unless the stream is closed.    *)
LEMMA NoneDoes ==
    ASSUME Types, Roles, NEW place, Idle(place), NEW next \in {"ending", "failed again"},
           SendNone(next)
    PROVE  \E list : Ended(list, next)
<1>0. PICK l : l = NoneOps
  OBVIOUS
<1>1. PICK list : list = When(~Raises(l), l)
  OBVIOUS
<1>2. stream.state \in States /\ stream.closed \in BOOLEAN
  BY DEF Types, Streams
<1>3. /\ l \in NoneLists /\ l \in Lists(stream.state)
      /\ l = <<>> <=> stream.closed
      /\ l # <<>> /\ stream.state # "REQUEST" => l = <<ClosedOp>>
      /\ l # <<>> /\ stream.state = "REQUEST" => Head(l) = ErrorOp
      /\ l # <<>> => MayBegin(stream.state, Head(l).send)
  BY <1>0, <1>2, NoneBegins
<1>4. <<>> \in NoneLists /\ <<>> \in Lists(stream.state)
  BY DEF NoneLists, Lists
<1>5. \/ list = l /\ ~Raises(l)
      \/ list = <<>> /\ Raises(l) /\ broken
  BY <1>1 DEF When, Raises
<1>6. /\ ops' = [ops EXCEPT !["app"] = list] /\ Begin(list)
      /\ UNCHANGED <<world, client, broken, streamVars, consumer, appQueue, wsgi>>
  BY <1>0, <1>1 DEF SendNone
<1>7. /\ ops'["app"] = list /\ ops'["consumer"] = ops["consumer"]
      /\ DOMAIN ops' = {"consumer", "app"}
  BY <1>6 DEF Types
<1>8. /\ app' \in Apps /\ app'.calls = app.calls
      /\ \/ app'.at = next /\ ~Raises(l)
         \/ app'.at = "over" /\ Raises(l)
  <2>1. PICK p : p = IF Raises(l) THEN "over" ELSE next
    OBVIOUS
  <2>2. app' = [app EXCEPT !.at = p]
    BY <1>0, <2>1 DEF SendNone
  <2>3. p \in Places
    BY <2>1 DEF Places
  <2>4. app' \in Apps /\ app'.at = p /\ app'.calls = app.calls
    <3>1. <<>> \in Seq(Messages)
      BY EmptySeq
    <3>2. app \in Apps
      BY DEF Types
    <3> QED
      BY <2>2, <2>3, <3>1, <3>2, AppChanges
  <2> QED
    BY <2>1, <2>4
<1>9. ops["app"] = <<>> /\ app.calls = <<>>
  BY DEF Idle
<1>10. /\ list \in NoneLists /\ list \in Lists(stream.state)
       /\ list # <<>> => MayBegin(stream.state, Head(list).send)
       /\ list # <<>> => /\ ~stream.closed
                         /\ stream.state # "REQUEST" => list = <<ClosedOp>>
                         /\ stream.state = "REQUEST" => Head(list) = ErrorOp
       /\ list = <<>> /\ ~broken => stream.closed
  BY <1>3, <1>4, <1>5
<1>11. /\ stream' \in Streams /\ stream'.state = stream.state
       /\ stream'.closed = stream.closed /\ UNCHANGED <<logged, missed>>
  BY <1>6 DEF streamVars, Types
<1>12. \/ app'.at = next
       \/ list = <<>> /\ broken /\ app'.at = "over"
  BY <1>5, <1>8
<1>13. ~Unlogged(list)
  <2>1. list = <<>> \/ ~Unlogged(list)
    BY <1>10, NoneContinues
  <2> QED
    BY <2>1 DEF Unlogged
<1>14. Called(list)
  BY <1>6, <1>7, <1>8, <1>9, <1>10, <1>11, <1>13 DEF Called
<1> QED
  BY <1>8, <1>9, <1>10, <1>12, <1>14 DEF Ended

\* What an application does without sending anything.
AppMoves ==
    /\ UNCHANGED <<world, client, queueVars, broken, streamVars, consumer, ops, wire>>
    /\ app.at \in {"run", "read", "thread"} /\ app.calls = <<>> /\ ops["app"] = <<>>
    /\ app' \in Apps /\ app'.at \in {"run", "read", "thread", "returned", "failed"}
    /\ app'.at \in {"read", "failed"} => app'.calls = <<>>
    /\ app'.at \in {"read", "run"} => app'.at = app.at
    /\ world.wsgi => OfWsgi(app'.calls)
    /\ \/ UNCHANGED appQueue
       \/ appQueue # <<>> /\ appQueue' = Tail(appQueue)
    /\ wsgi' \in Wsgis
    /\ \/ Read
       \/ /\ app.at # "read" /\ wsgi'.size = wsgi.size /\ wsgi'.whole = wsgi.whole
          /\ app'.at \in {"read", "thread"} => app'.at = app.at

(* The messages of a WSGI application are of ASGI.                         *)
LEMMA WsgiMessages ==
    ASSUME NEW b \in BOOLEAN, NEW data \in BOOLEAN, NEW calls,
           \/ calls = When(b, <<Start(FALSE)>>) \o <<BodyOf(data, TRUE)>>
           \/ calls = When(b, <<Start(FALSE)>>) \o <<LastBody>>
           \/ calls = <<Start(FALSE), LastBody>>
    PROVE  calls \in Seq(Messages) /\ OfWsgi(calls)
<1>1. /\ Start(FALSE) \in Messages /\ LastBody \in Messages /\ BodyOf(data, TRUE) \in Messages
      /\ Start(FALSE).type = "start" /\ LastBody.type = "body"
      /\ BodyOf(data, TRUE).type = "body"
  BY DEF Start, LastBody, BodyOf, Message, Messages
<1>2. PICK s : s = Start(FALSE)
  OBVIOUS
<1>3. ASSUME NEW e \in Messages, e.type = "body"
      PROVE  /\ <<e>> \in Seq(Messages) /\ OfWsgi(<<e>>)
             /\ <<s, e>> \in Seq(Messages) /\ OfWsgi(<<s, e>>)
  <2>1. s \in Messages /\ s.type = "start"
    BY <1>1, <1>2
  <2>2. <<e>> \in Seq(Messages) /\ <<s, e>> \in Seq(Messages)
    BY <2>1
  <2>3. /\ Len(<<e>>) = 1 /\ <<e>>[1] = e
        /\ Len(<<s, e>>) = 2 /\ <<s, e>>[1] = s /\ <<s, e>>[2] = e
    OBVIOUS
  <2>4. OfWsgi(<<e>>)
    BY <1>3, <2>3 DEF OfWsgi
  <2>5. OfWsgi(<<s, e>>)
    <3>1. \A i \in 1..2 : <<s, e>>[i].type \in {"start", "body"}
      BY <1>3, <2>1, <2>3
    <3> QED
      BY <2>3, <3>1 DEF OfWsgi
  <2> QED
    BY <2>2, <2>4, <2>5
<1>4. \E e \in Messages : e.type = "body" /\ (calls = <<e>> \/ calls = <<s, e>>)
  <2>1. CASE calls = When(b, <<Start(FALSE)>>) \o <<BodyOf(data, TRUE)>>
    BY <1>1, <1>2, <2>1, Joined, Zenon DEF When
  <2>2. CASE calls = When(b, <<Start(FALSE)>>) \o <<LastBody>>
    BY <1>1, <1>2, <2>2, Joined, Zenon DEF When
  <2>3. CASE calls = <<Start(FALSE), LastBody>>
    BY <1>1, <1>2, <2>3, Zenon
  <2> QED
    BY <2>1, <2>2, <2>3
<1> QED
  BY <1>3, <1>4

(* An application that goes elsewhere, with messages or none.              *)
LEMMA AppTurns ==
    ASSUME NEW p \in Places, NEW c \in Seq(Messages), app \in Apps
    PROVE  /\ app' = [app EXCEPT !.at = p, !.calls = c]
                => app' \in Apps /\ app'.at = p /\ app'.calls = c
           /\ app' = [app EXCEPT !.at = p]
                => app' \in Apps /\ app'.at = p /\ app'.calls = app.calls
           /\ app' = [app EXCEPT !.calls = c, !.sent = @ + 1] /\ app.sent < MaxMessages
                => app' \in Apps /\ app'.at = app.at /\ app'.calls = c
<1>1. /\ app' = [app EXCEPT !.at = p, !.calls = c]
           => app' \in Apps /\ app'.at = p /\ app'.calls = c
      /\ app' = [app EXCEPT !.at = p]
           => app' \in Apps /\ app'.at = p /\ app'.calls = app.calls
  BY AppChanges
<1>2. ASSUME app' = [app EXCEPT !.calls = c, !.sent = @ + 1], app.sent < MaxMessages
      PROVE  app' \in Apps /\ app'.at = app.at /\ app'.calls = c
  <2>0. PICK S : S = Seq(Messages)
    OBVIOUS
  <2>1. app \in [at : Places, calls : S, sent : 0..MaxMessages] /\ c \in S
    BY <2>0 DEF Apps
  <2>2. PICK n : n = app.sent + 1
    OBVIOUS
  <2>3. n \in 0..MaxMessages
    BY <1>2, <2>1, <2>2, HttpStreamAssumption
  <2>4. app' = [app EXCEPT !.calls = c, !.sent = n]
    BY <1>2, <2>2
  <2>5. app' \in [at : Places, calls : S, sent : 0..MaxMessages]
    BY <2>1, <2>3, <2>4
  <2>6. app'.at = app.at /\ app'.calls = c
    BY <2>1, <2>4
  <2> QED
    BY <2>0, <2>5, <2>6 DEF Apps
<1> QED
  BY <1>1, <1>2

(* An application's steps are what AppMoves says.                          *)
LEMMA AppDoes ==
    ASSUME Types, Roles,
           \/ Receive \/ SendMessage \/ AppEnds
           \/ Read \/ StartResponse \/ Output \/ OutputEnds
    PROVE  AppMoves
<1>0. /\ app \in Apps /\ wsgi \in Wsgis /\ appQueue \in Seq(Given)
      /\ app.at = "run" => ~world.wsgi
      /\ <<>> \in Seq(Messages) /\ OfWsgi(<<>>)
  <2>1. <<>> \in Seq(Messages) /\ OfWsgi(<<>>)
    BY EmptySeq DEF OfWsgi
  <2> QED
    BY <2>1 DEF Types, Roles, Applying
<1>1. {"run", "read", "thread", "returned", "failed"} \subseteq Places
  BY DEF Places
<1>2. CASE Receive
  <2>1. /\ AppAlone("run") /\ UNCHANGED <<app, wsgi>>
        /\ appQueue # <<>> /\ appQueue' = Tail(appQueue)
    BY <1>2 DEF Receive, appVars
  <2> QED
    BY <2>1, <1>0 DEF AppAlone, Idle, AppMoves
<1>3. CASE SendMessage
  <2>1. PICK m \in Messages : Say(<<m>>)
    BY <1>3 DEF SendMessage
  <2>2. PICK c : c = <<m>>
    OBVIOUS
  <2>3. c \in Seq(Messages)
    BY <2>2
  <2>4. /\ AppAlone("run") /\ UNCHANGED <<appQueue, wsgi>> /\ app.sent < MaxMessages
        /\ app' = [app EXCEPT !.calls = c, !.sent = @ + 1]
    BY <1>3, <2>1, <2>2 DEF SendMessage, Say
  <2>5. app' \in Apps /\ app'.at = app.at
    BY <2>3, <2>4, <1>0, <1>1, AppTurns
  <2> QED
    BY <2>4, <2>5, <1>0 DEF AppAlone, Idle, AppMoves
<1>4. CASE AppEnds
  <2>1. PICK place \in {"run", "thread"}, p \in {"returned", "failed"} :
          AppAlone(place) /\ app' = [app EXCEPT !.at = p]
    BY <1>4 DEF AppEnds
  <2>2. UNCHANGED <<appQueue, wsgi>>
    BY <1>4 DEF AppEnds
  <2>3. p \in Places
    BY <1>1
  <2>4. app' \in Apps /\ app'.at = p /\ app'.calls = app.calls
    BY <1>0, <2>1, <2>3, AppTurns
  <2> QED
    BY <2>1, <2>2, <2>4, <1>0 DEF AppAlone, Idle, AppMoves
<1>5. CASE Read
  <2>1. PICK size : size = wsgi.size + (IF Head(appQueue) = "Body" THEN 1 ELSE 0)
    OBVIOUS
  <2>2. PICK whole : whole = (Head(appQueue) = "EndBody")
    OBVIOUS
  <2>3. /\ AppAlone("read") /\ appQueue # <<>> /\ appQueue' = Tail(appQueue)
        /\ wsgi' = [wsgi EXCEPT !.size = size, !.whole = whole]
    BY <1>5, <2>1, <2>2 DEF Read
  <2>4. wsgi' \in Wsgis
    <3>1. size \in Nat /\ whole \in BOOLEAN
      BY <1>0, <2>1, <2>2 DEF Wsgis
    <3> QED
      BY <1>0, <2>3, <3>1 DEF Wsgis
  <2>5. PICK c : c = <<Start(FALSE), LastBody>>
    OBVIOUS
  <2>6. c \in Seq(Messages) /\ OfWsgi(c)
    BY <2>5, WsgiMessages
  <2>7. \/ app' = [app EXCEPT !.at = "returned", !.calls = c]
        \/ UNCHANGED app
        \/ app' = [app EXCEPT !.at = "thread"]
    BY <1>5, <2>5 DEF Read
  <2>8. /\ app' \in Apps
        /\ \/ app'.at = "returned" /\ app'.calls = c
           \/ UNCHANGED app
           \/ app'.at = "thread" /\ app'.calls = app.calls
    BY <1>0, <1>1, <2>6, <2>7, AppTurns
  <2> QED
    BY <1>5, <1>0, <2>3, <2>4, <2>6, <2>8 DEF AppAlone, Idle, AppMoves
<1>6. CASE StartResponse
  <2>1. AppAlone("thread") /\ UNCHANGED appQueue
    BY <1>6 DEF StartResponse
  <2>2. \/ app' = [app EXCEPT !.at = "failed"] /\ UNCHANGED wsgi
        \/ wsgi' = [wsgi EXCEPT !.started = TRUE] /\ UNCHANGED app
    BY <1>6 DEF StartResponse, Fails
  <2>3. CASE app' = [app EXCEPT !.at = "failed"] /\ UNCHANGED wsgi
    <3>1. app' \in Apps /\ app'.at = "failed" /\ app'.calls = app.calls
      BY <1>0, <1>1, <2>3, AppTurns
    <3> QED
      BY <2>1, <2>3, <3>1, <1>0 DEF AppAlone, Idle, AppMoves
  <2>4. CASE wsgi' = [wsgi EXCEPT !.started = TRUE] /\ UNCHANGED app
    <3>1. wsgi' \in Wsgis /\ wsgi'.size = wsgi.size /\ wsgi'.whole = wsgi.whole
      BY <1>0, <2>4 DEF Wsgis
    <3> QED
      BY <2>1, <2>4, <3>1, <1>0 DEF AppAlone, Idle, AppMoves
  <2> QED
    BY <2>2, <2>3, <2>4
<1>7. CASE Output
  <2>1. PICK data \in BOOLEAN :
          LET begins == data /\ ~wsgi.headers IN
          IF begins /\ ~wsgi.started THEN Fails /\ UNCHANGED wsgi
          ELSE /\ Say(When(begins, <<Start(FALSE)>>) \o <<BodyOf(data, TRUE)>>)
               /\ wsgi' = [wsgi EXCEPT !.headers = @ \/ begins]
    BY <1>7 DEF Output
  <2>2. PICK begins : begins = (data /\ ~wsgi.headers)
    OBVIOUS
  <2>3. PICK c : c = When(begins, <<Start(FALSE)>>) \o <<BodyOf(data, TRUE)>>
    OBVIOUS
  <2>4. PICK h : h = (wsgi.headers \/ begins)
    OBVIOUS
  <2>5. begins \in BOOLEAN /\ h \in BOOLEAN
    BY <1>0, <2>2, <2>4 DEF Wsgis
  <2>6. c \in Seq(Messages) /\ OfWsgi(c)
    BY <2>3, <2>5, WsgiMessages
  <2>7. AppAlone("thread") /\ UNCHANGED appQueue /\ app.sent < MaxMessages
    BY <1>7 DEF Output
  <2>8. \/ app' = [app EXCEPT !.at = "failed"] /\ UNCHANGED wsgi
        \/ /\ app' = [app EXCEPT !.calls = c, !.sent = @ + 1]
           /\ wsgi' = [wsgi EXCEPT !.headers = h]
    BY <2>1, <2>2, <2>3, <2>4 DEF Fails, Say
  <2>9. CASE app' = [app EXCEPT !.at = "failed"] /\ UNCHANGED wsgi
    <3>1. app' \in Apps /\ app'.at = "failed" /\ app'.calls = app.calls
      BY <1>0, <1>1, <2>9, AppTurns
    <3> QED
      BY <2>7, <2>9, <3>1, <1>0 DEF AppAlone, Idle, AppMoves
  <2>10. CASE /\ app' = [app EXCEPT !.calls = c, !.sent = @ + 1]
              /\ wsgi' = [wsgi EXCEPT !.headers = h]
    <3>1. wsgi' \in Wsgis /\ wsgi'.size = wsgi.size /\ wsgi'.whole = wsgi.whole
      BY <1>0, <2>5, <2>10 DEF Wsgis
    <3>2. app' \in Apps /\ app'.at = app.at /\ app'.calls = c
      BY <1>0, <1>1, <2>6, <2>7, <2>10, AppTurns
    <3> QED
      BY <2>6, <2>7, <3>1, <3>2 DEF AppAlone, Idle, AppMoves
  <2> QED
    BY <2>8, <2>9, <2>10
<1>8. CASE OutputEnds
  <2>1. PICK b : b = ~wsgi.headers
    OBVIOUS
  <2>2. PICK c : c = When(b, <<Start(FALSE)>>) \o <<LastBody>>
    OBVIOUS
  <2>3. b \in BOOLEAN
    BY <1>0, <2>1 DEF Wsgis
  <2>4. c \in Seq(Messages) /\ OfWsgi(c)
    BY <2>2, <2>3, WsgiMessages
  <2>5. /\ AppAlone("thread") /\ UNCHANGED <<appQueue, wsgi>>
        /\ \/ app' = [app EXCEPT !.at = "failed"]
           \/ app' = [app EXCEPT !.at = "returned", !.calls = c]
    BY <1>8, <2>1, <2>2 DEF OutputEnds, Fails
  <2>6. /\ app' \in Apps
        /\ \/ app'.at = "failed" /\ app'.calls = app.calls
           \/ app'.at = "returned" /\ app'.calls = c
    BY <1>0, <1>1, <2>4, <2>5, AppTurns
  <2> QED
    BY <2>4, <2>5, <2>6, <1>0 DEF AppAlone, Idle, AppMoves
<1> QED
  BY <1>2, <1>3, <1>4, <1>5, <1>6, <1>7, <1>8

-----------------------------------------------------------------------------
(* Types.                                                                  *)

\* What the reader of the connection adds to the stream's queue.
Arrives(e) ==
    /\ e \in {"Body", "EndBody"} /\ queue' = Append(queue, e)
    /\ known /\ ~broken /\ ~client.done /\ client' \in Clients
    /\ \/ e = "Body" /\ client'.chunks = client.chunks + 1 /\ ~client'.done
       \/ e = "EndBody" /\ client'.chunks = client.chunks /\ client'.done
    /\ UNCHANGED <<world, known, broken, streamVars, consumer, appQueue, appVars, ops,
                   wire>>

(* The reader of the connection adds a chunk, or the end of the body.       *)
LEMMA ReaderDoes ==
    ASSUME Types, SendChunk \/ EndRequest
    PROVE  \E e : Arrives(e)
<1>0. client \in Clients
  BY DEF Types
<1>1. CASE SendChunk
  <2>1. client' \in Clients /\ client'.chunks = client.chunks + 1 /\ client'.done = client.done
    <3>1. client.chunks < MaxChunks /\ client' = [client EXCEPT !.chunks = @ + 1]
      BY <1>1 DEF SendChunk
    <3> QED
      BY <1>0, <3>1, HttpStreamAssumption DEF Clients
  <2> QED
    BY <1>1, <2>1 DEF SendChunk, Sends, Arrives
<1>2. CASE EndRequest
  <2>1. client' \in Clients /\ client'.chunks = client.chunks /\ client'.done
    BY <1>0, <1>2 DEF EndRequest, Clients
  <2> QED
    BY <1>2, <2>1 DEF EndRequest, Sends, Arrives
<1> QED
  BY <1>1, <1>2

\* What the end of the connection, or a reset, does.
Breaks ==
    /\ ~broken /\ broken' = TRUE
    /\ \E item : Tells(item) /\ (world.version = 2 <=> item = "StreamClosed")
    /\ UNCHANGED <<world, client, streamVars, consumer, appQueue, appVars, ops, wire>>

(* A break tells the stream under HTTP/2 only.                              *)
LEMMA BreakDoes ==
    ASSUME Break
    PROVE  Breaks
<1>1. CASE world.version = 2
  <2>1. Tells("StreamClosed")
    BY <1>1 DEF Break, Tells
  <2> QED
    BY <1>1, <2>1 DEF Break, Breaks
<1>2. CASE world.version # 2
  <2>1. Tells("nothing")
    BY <1>2 DEF Break, Tells
  <2> QED
    BY <1>2, <2>1 DEF Break, Breaks
<1> QED
  BY <1>1, <1>2

\* How a host that is not served is refused, or fails to be.
Refuses ==
    /\ Take("Request") /\ queue' = Tail(queue) /\ ~world.served
    /\ consumer' \in Consumers /\ consumer'.puts = consumer.puts
    /\ \/ consumer'.at = "refuse" /\ ops'["consumer"] = <<ErrorOp, EndOp>>
       \/ /\ consumer'.at = "over" /\ ops'["consumer"] = <<>>
          /\ world.version = 3 /\ broken
    /\ ops'["app"] = ops["app"] /\ DOMAIN ops' = {"consumer", "app"}
    /\ wire' = IF broken THEN wire ELSE WithItem(wire, "Response")
    /\ UNCHANGED <<world, client, known, broken, streamVars, appQueue, appVars>>

\* How a request is handed to its application.
Serves ==
    /\ Take("Request") /\ queue' = Tail(queue) /\ world.served
    /\ app' \in Apps /\ app'.calls = app.calls
    /\ app'.at = IF world.wsgi THEN "read" ELSE "run"
    /\ UNCHANGED <<world, client, known, broken, streamVars, consumer, appQueue, wsgi,
                   ops, wire>>

(* A request is served or refused.                                          *)
LEMMA RequestDoes ==
    ASSUME Types, HandleRequest
    PROVE  Refuses \/ Serves
<1>1. CASE world.served
  <2>1. PICK p : p = IF world.wsgi THEN "read" ELSE "run"
    OBVIOUS
  <2>2. /\ Take("Request") /\ queue' = Tail(queue)
        /\ app' = [app EXCEPT !.at = p]
        /\ UNCHANGED <<world, client, known, broken, streamVars, consumer, appQueue, wsgi,
                       ops, wire>>
    BY <1>1, <2>1 DEF HandleRequest
  <2>3. app' \in Apps /\ app'.calls = app.calls /\ app'.at = p
    <3>1. p \in Places /\ app \in Apps
      BY <2>1 DEF Places, Types
    <3>2. <<>> \in Seq(Messages)
      BY EmptySeq
    <3> QED
      BY <2>2, <3>1, <3>2, AppChanges
  <2> QED
    BY <1>1, <2>1, <2>2, <2>3 DEF Serves
<1>2. CASE ~world.served
  <2>1. /\ Take("Request") /\ queue' = Tail(queue)
        /\ consumer' = [consumer EXCEPT !.at = IF Raises(ErrorOps) THEN "over"
                                               ELSE "refuse"]
        /\ ops' = [ops EXCEPT !["consumer"] = When(~Raises(ErrorOps), ErrorOps)]
        /\ wire' = IF broken THEN wire ELSE Append(wire, "Response")
        /\ UNCHANGED <<world, client, known, broken, streamVars, appQueue, appVars>>
    BY <1>2 DEF HandleRequest, appVars
  <2>2. ErrorOps = <<ErrorOp, EndOp>>
    BY DEF ErrorOps, ErrorOp, EndOp
  <2>3. WithItem(wire, "Response") = Append(wire, "Response")
    BY DEF WithItem, Silent
  <2>4. PICK r \in BOOLEAN : r = Raises(ErrorOps)
    BY DEF Raises
  <2>5. /\ consumer' \in Consumers /\ consumer'.puts = consumer.puts
        /\ consumer'.at = IF r THEN "over" ELSE "refuse"
    BY <2>1, <2>4 DEF Types, Consumers
  <2>6. r => world.version = 3 /\ broken
    BY <2>4 DEF Raises
  <2>7. PICK l : l = When(~Raises(ErrorOps), ErrorOps)
    OBVIOUS
  <2>8. /\ ops'["consumer"] = l /\ ops'["app"] = ops["app"]
        /\ DOMAIN ops' = {"consumer", "app"}
    BY <2>1, <2>7 DEF Types
  <2>9. l = IF r THEN <<>> ELSE <<ErrorOp, EndOp>>
    BY <2>2, <2>4, <2>7 DEF When
  <2> QED
    BY <1>2, <2>1, <2>3, <2>5, <2>6, <2>8, <2>9 DEF Refuses
<1> QED
  BY <1>1, <1>2

\* How the consumer hands an event to the application, or drops it.
Hands(e, m) ==
    /\ Take(e) /\ queue' = Tail(queue) /\ consumer' \in Consumers
    /\ \/ ~stream.closed /\ app.at # "none" /\ consumer'.at = "put" /\ consumer'.puts = m
       \/ /\ stream.closed \/ app.at = "none"
          /\ consumer'.puts = consumer.puts
          /\ consumer'.at = IF e = "StreamClosed" THEN "over" ELSE "wait"
    /\ UNCHANGED <<world, client, known, broken, appQueue, appVars, ops, wire>>

\* What the end of the stream does besides.
Closes ==
    /\ stream' \in Streams /\ stream'.closed /\ stream'.state = stream.state
    /\ logged' = IF ~stream.closed /\ stream.state # "CLOSED" THEN logged + 1 ELSE logged
    /\ UNCHANGED missed

(* The consumer hands over what it takes from the queue, or drops it.       *)
LEMMA HandleDoes ==
    ASSUME Types, HandleInput \/ HandleClosed
    PROVE  \/ \E e \in {"Body", "EndBody"} : Hands(e, e) /\ UNCHANGED streamVars
           \/ Hands("StreamClosed", "disconnect") /\ Closes
<1>0. consumer \in Consumers /\ stream \in Streams
  BY DEF Types
<1>1. CASE HandleInput
  <2>1. PICK e \in {"Body", "EndBody"} :
          /\ Take(e)
          /\ IF stream.closed \/ app.at = "none" THEN UNCHANGED consumer ELSE Puts(e)
    BY <1>1 DEF HandleInput
  <2>2. /\ queue' = Tail(queue) /\ UNCHANGED streamVars
        /\ UNCHANGED <<world, client, known, broken, appQueue, appVars, ops, wire>>
    BY <1>1 DEF HandleInput
  <2>3. CASE stream.closed \/ app.at = "none"
    BY <1>0, <2>1, <2>2, <2>3 DEF Hands, Take
  <2>4. CASE ~(stream.closed \/ app.at = "none")
    <3>1. consumer' = [at |-> "put", puts |-> e]
      BY <2>1, <2>4 DEF Puts
    <3>2. consumer' \in Consumers /\ consumer'.at = "put" /\ consumer'.puts = e
      BY <3>1 DEF Consumers, Given
    <3> QED
      BY <2>1, <2>2, <2>4, <3>2 DEF Hands
  <2> QED
    BY <2>3, <2>4
<1>2. CASE HandleClosed
  <2>1. /\ Take("StreamClosed") /\ queue' = Tail(queue)
        /\ stream' = [stream EXCEPT !.closed = TRUE]
        /\ logged' = IF ~stream.closed /\ stream.state # "CLOSED" THEN logged + 1
                                                                  ELSE logged
        /\ UNCHANGED missed
        /\ UNCHANGED <<world, client, known, broken, appQueue, appVars, ops, wire>>
    BY <1>2 DEF HandleClosed
  <2>2. Closes
    BY <1>0, <2>1 DEF Closes, Streams
  <2>3. CASE stream.closed \/ app.at = "none"
    <3>1. consumer' = [consumer EXCEPT !.at = "over"]
      BY <1>2, <2>3 DEF HandleClosed
    <3>2. consumer' \in Consumers /\ consumer'.at = "over" /\ consumer'.puts = consumer.puts
      BY <1>0, <3>1 DEF Consumers
    <3> QED
      BY <2>1, <2>2, <2>3, <3>2 DEF Hands
  <2>4. CASE ~(stream.closed \/ app.at = "none")
    <3>1. consumer' = [at |-> "put", puts |-> "disconnect"]
      BY <1>2, <2>4 DEF HandleClosed, Puts
    <3>2. /\ consumer' \in Consumers /\ consumer'.at = "put"
          /\ consumer'.puts = "disconnect"
      BY <3>1 DEF Consumers, Given
    <3> QED
      BY <2>1, <2>2, <2>4, <3>2 DEF Hands
  <2> QED
    BY <2>3, <2>4
<1> QED
  BY <1>1, <1>2

\* How the consumer goes on once the application's queue has the message.
PutsIt ==
    /\ consumer.at = "put" /\ Len(appQueue) < AppQueueSize
    /\ appQueue' = Append(appQueue, consumer.puts)
    /\ consumer' \in Consumers /\ consumer'.puts = "none"
    /\ consumer'.at = IF consumer.puts = "disconnect" THEN "over" ELSE "wait"
    /\ UNCHANGED <<world, client, queueVars, broken, streamVars, appVars, ops, wire>>

\* Or once the request is refused.
RefusedIt ==
    /\ consumer.at = "refuse" /\ ops["consumer"] = <<>>
    /\ consumer' \in Consumers /\ consumer'.at = "wait" /\ consumer'.puts = consumer.puts
    /\ stream' \in Streams /\ stream'.closed /\ stream'.state = stream.state
    /\ UNCHANGED <<world, client, queueVars, broken, logged, missed, appQueue, appVars, ops,
                   wire>>

(* The application's queue gets the message, or the request is refused.     *)
LEMMA ConsumerDoes ==
    ASSUME Types, Put \/ Refused
    PROVE  PutsIt \/ RefusedIt
<1>0. consumer \in Consumers /\ stream \in Streams
  BY DEF Types
<1>1. CASE Put
  <2>1. PICK p : p = IF consumer.puts = "disconnect" THEN "over" ELSE "wait"
    OBVIOUS
  <2>2. consumer' = [at |-> p, puts |-> "none"]
    BY <1>1, <2>1 DEF Put
  <2>3. consumer' \in Consumers /\ consumer'.at = p /\ consumer'.puts = "none"
    BY <2>1, <2>2 DEF Consumers
  <2> QED
    BY <1>1, <2>1, <2>3 DEF Put, PutsIt
<1>2. CASE Refused
  <2>1. /\ consumer' \in Consumers /\ consumer'.at = "wait"
        /\ consumer'.puts = consumer.puts
    BY <1>0, <1>2 DEF Refused, Consumers
  <2>2. stream' \in Streams /\ stream'.closed /\ stream'.state = stream.state
    BY <1>0, <1>2 DEF Refused, Streams
  <2> QED
    BY <1>2, <2>1, <2>2 DEF Refused, RefusedIt
<1> QED
  BY <1>1, <1>2

\* How the application's task ends.
Over ==
    /\ Idle("ending") /\ app' \in Apps /\ app'.at = "over" /\ app'.calls = <<>>
    /\ UNCHANGED <<world, client, queueVars, broken, streamVars, consumer, appQueue, wsgi,
                   ops, wire>>

\* All that a step may do.
Steps ==
    \/ \E e : Arrives(e)
    \/ Breaks
    \/ Refuses \/ Serves \/ PutsIt \/ RefusedIt
    \/ \E e \in {"Body", "EndBody"} : Hands(e, e) /\ UNCHANGED streamVars
    \/ Hands("StreamClosed", "disconnect") /\ Closes
    \/ \E list : Messaged(list)
    \/ \E list : \E next \in {"ending", "failed again"} :
         Ended(list, next) /\ app.at \in {"returned", "failed", "failed again"}
    \/ Over
    \/ \E t \in {"consumer", "app"} : \E l, list : Returned(t, l, list)
    \/ AppMoves
    \/ UNCHANGED vars

(* These are the steps.                                                    *)
LEMMA NextSteps ==
    ASSUME Types, Roles, [Next]_vars
    PROVE  Steps
<1>1. CASE SendChunk \/ EndRequest
  BY <1>1, ReaderDoes DEF Steps
<1>2. CASE Break
  BY <1>2, BreakDoes DEF Steps
<1>3. CASE HandleRequest
  BY <1>3, RequestDoes DEF Steps
<1>4. CASE Refused \/ Put
  BY <1>4, ConsumerDoes DEF Steps
<1>5. CASE HandleInput \/ HandleClosed
  BY <1>5, HandleDoes DEF Steps
<1>6. CASE Call
  BY <1>6, CallDoes DEF Steps
<1>7. CASE Finish
  <2>1. CASE \E place \in {"returned", "failed", "failed again"} :
               Idle(place) /\ \E next \in {"ending", "failed again"} : SendNone(next)
    <3>1. PICK place \in {"returned", "failed", "failed again"} :
            Idle(place) /\ \E next \in {"ending", "failed again"} : SendNone(next)
      BY <2>1
    <3>2. PICK next \in {"ending", "failed again"} : SendNone(next)
      BY <3>1
    <3>3. PICK list : Ended(list, next)
      BY <3>1, <3>2, NoneDoes
    <3>4. app.at = place
      BY <3>1 DEF Idle
    <3> QED
      BY <3>3, <3>4 DEF Steps
  <2>2. CASE /\ Idle("ending") /\ app' = [app EXCEPT !.at = "over"]
             /\ UNCHANGED <<world, client, queueVars, broken, streamVars, consumer,
                            appQueue, wsgi, ops, wire>>
    <3>1. "over" \in Places /\ app \in Apps
      BY DEF Places, Types
    <3>2. <<>> \in Seq(Messages)
      BY EmptySeq
    <3>3. app' \in Apps /\ app'.at = "over" /\ app'.calls = app.calls
      BY <2>2, <3>1, <3>2, AppChanges
    <3>4. Over
      BY <2>2, <3>3 DEF Over, Idle
    <3> QED
      BY <3>4 DEF Steps
  <2> QED
    BY <1>7, <2>1, <2>2 DEF Finish
<1>8. CASE \E t \in DOMAIN ops : Return(t)
  <2>1. PICK t \in {"consumer", "app"} : Return(t)
    BY <1>8 DEF Types
  <2> QED
    BY <2>1, ReturnDoes DEF Steps
<1>9. CASE Receive \/ SendMessage \/ AppEnds \/ Read \/ StartResponse \/ Output \/ OutputEnds
  BY <1>9, AppDoes DEF Steps
<1>10. CASE UNCHANGED vars
  BY <1>10 DEF Steps
<1> QED
  BY <1>1, <1>2, <1>3, <1>4, <1>5, <1>6, <1>7, <1>8, <1>9, <1>10 DEF Next, Consume

(* A list that begins leaves the queue and the wire their types.           *)
LEMMA BeginTypes ==
    ASSUME Types, NEW list, Begin(list), Item(list) \in Items \cup Silent
    PROVE  queue' \in Seq(Inputs) /\ known' \in BOOLEAN /\ wire' \in Seq(Items)
<1>1. Tells(Item(list)) /\ wire' = IF broken THEN wire ELSE WithItem(wire, Item(list))
  BY BeginDoes
<1>2. queue \in Seq(Inputs) /\ known \in BOOLEAN /\ wire \in Seq(Items)
  BY DEF Types
<1>3. queue' \in Seq(Inputs) /\ known' \in BOOLEAN
  BY <1>1, <1>2, ToldOnce
<1>4. wire' \in Seq(Items)
  BY <1>1, <1>2, WireTypes
<1> QED
  BY <1>3, <1>4

(* What may begin, or continue, is an item.                                *)
LEMMA ItemTypes ==
    ASSUME NEW list
    PROVE  /\ (list # <<>> => MayBegin(stream.state, Head(list).send))
                => Item(list) \in Items \cup Silent
           /\ \A l : Continues(stream.state, l) /\ (list = Tail(l) \/ list = <<>>)
                => Item(list) \in Items \cup Silent
<1>1. "nothing" \in Items \cup Silent
  BY DEF Silent
<1>2. {"EndBody", "StreamClosed", "nothing"} \subseteq Items \cup Silent
  BY DEF Items, Silent
<1>3. (list # <<>> => MayBegin(stream.state, Head(list).send))
                => Item(list) \in Items \cup Silent
  BY <1>1 DEF Item, MayBegin
<1>4. ASSUME NEW l, Continues(stream.state, l), list = Tail(l) \/ list = <<>>
      PROVE  Item(list) \in Items \cup Silent
  BY <1>1, <1>2, <1>4 DEF Item, Continues
<1> QED
  BY <1>3, <1>4

(* Every step keeps the types.                                             *)
LEMMA StepTypes ==
    ASSUME Types, Roles, Steps
    PROVE  Types'
<1>0. queue \in Seq(Inputs) /\ AppQueueSize \in Nat
  BY HttpStreamAssumption DEF Types
<1>1. ASSUME NEW e, Arrives(e) PROVE Types'
  <2>1. e \in Inputs \ {"Request"}
    BY <1>1 DEF Arrives, Inputs
  <2>2. queue' \in Seq(Inputs)
    BY <1>0, <1>1, <2>1, QueueGrows DEF Arrives
  <2> QED
    BY <1>1, <2>2 DEF Types, Arrives, streamVars, appVars
<1>2. CASE Breaks
  <2>1. PICK item : Tells(item)
    BY <1>2 DEF Breaks
  <2>2. queue' \in Seq(Inputs) /\ known' \in BOOLEAN
    BY <1>0, <2>1, ToldOnce DEF Types
  <2> QED
    BY <1>2, <2>2 DEF Types, Breaks, streamVars, appVars
<1>3. CASE Refuses
  <2>1. queue' \in Seq(Inputs)
    BY <1>0, <1>3, QueueShrinks DEF Refuses, Take
  <2>2. wire' \in Seq(Items)
    <3>1. "Response" \in Items
      BY DEF Items
    <3> QED
      BY <1>3, <3>1, WireTypes DEF Refuses, Types
  <2> QED
    BY <1>3, <2>1, <2>2 DEF Types, Refuses, streamVars, appVars
<1>4. CASE Serves
  <2>1. queue' \in Seq(Inputs)
    BY <1>0, <1>4, QueueShrinks DEF Serves, Take
  <2> QED
    BY <1>4, <2>1 DEF Types, Serves, streamVars
<1>5. CASE PutsIt
  <2>1. appQueue' \in Seq(Given) /\ Len(appQueue') <= AppQueueSize
    <3>1. consumer.puts \in Given
      BY <1>5 DEF PutsIt, Types, Roles, Consuming, Consumers
    <3>2. Len(appQueue') = Len(appQueue) + 1 /\ Len(appQueue) \in Nat
          /\ appQueue' \in Seq(Given)
      BY <1>5, <3>1 DEF PutsIt, Types
    <3> QED
      BY <1>0, <1>5, <3>2 DEF PutsIt
  <2> QED
    BY <1>5, <2>1 DEF Types, PutsIt, streamVars, appVars, queueVars
<1>6. CASE RefusedIt
  BY <1>6 DEF Types, RefusedIt, appVars, queueVars
<1>7. ASSUME NEW e, NEW m, Hands(e, m), UNCHANGED streamVars \/ Closes PROVE Types'
  <2>1. queue' \in Seq(Inputs)
    BY <1>0, <1>7, QueueShrinks DEF Hands, Take
  <2>2. stream' \in Streams /\ logged' \in Nat /\ missed' \in BOOLEAN
    BY <1>7 DEF Types, Closes, streamVars
  <2> QED
    BY <1>7, <2>1, <2>2 DEF Types, Hands, appVars
<1>8. ASSUME NEW list, Called(list) PROVE Types'
  <2>1. Item(list) \in Items \cup Silent
    BY <1>8, ItemTypes DEF Called
  <2>2. queue' \in Seq(Inputs) /\ known' \in BOOLEAN /\ wire' \in Seq(Items)
    BY <1>8, <2>1, BeginTypes DEF Called
  <2> QED
    BY <1>8, <2>2 DEF Types, Called
<1>9. CASE Over
  BY <1>9 DEF Types, Over, streamVars, queueVars
<1>10. ASSUME NEW t, NEW l, NEW list, Returned(t, l, list) PROVE Types'
  <2>1. Item(list) \in Items \cup Silent
    BY <1>10, ItemTypes DEF Returned
  <2>2. queue' \in Seq(Inputs) /\ known' \in BOOLEAN /\ wire' \in Seq(Items)
    BY <1>10, <2>1, BeginTypes DEF Returned
  <2>3. logged' \in Nat
    BY <1>10 DEF Types, Returned
  <2> QED
    BY <1>10, <2>2, <2>3 DEF Types, Returned
<1>11. CASE AppMoves
  <2>1. appQueue' \in Seq(Given) /\ Len(appQueue') <= AppQueueSize
    <3>1. CASE UNCHANGED appQueue
      BY <3>1 DEF Types
    <3>2. CASE appQueue # <<>> /\ appQueue' = Tail(appQueue)
      <4>1. /\ appQueue' \in Seq(Given) /\ Len(appQueue') = Len(appQueue) - 1
            /\ Len(appQueue) \in Nat
        BY <3>2, HeadTailProperties DEF Types
      <4> QED
        BY <1>0, <4>1 DEF Types
    <3> QED
      BY <1>11, <3>1, <3>2 DEF AppMoves
  <2> QED
    BY <1>11, <2>1 DEF Types, AppMoves, streamVars, queueVars
<1>12. CASE UNCHANGED vars
  BY <1>12 DEF Types, vars, streamVars, queueVars, appVars
<1> QED
  BY <1>1, <1>2, <1>3, <1>4, <1>5, <1>6, <1>7, <1>8, <1>9, <1>10, <1>11, <1>12
     DEF Steps, Messaged, Ended

-----------------------------------------------------------------------------
(* Who does what.                                                          *)

(* A queue that is as fresh as before, and an application that is as there as before. *)
LEMMA OpeningKept ==
    ASSUME Opening, Fresh' <=> Fresh,
           \A i \in 2..Len(queue') : queue'[i] # "Request",
           UNCHANGED world, app'.at = "none" <=> app.at = "none",
           \/ ~Fresh
           \/ UNCHANGED <<consumer, wire, appQueue, wsgi, app>>
                /\ stream'.state = stream.state /\ stream'.closed = stream.closed
                /\ ops'["consumer"] = ops["consumer"]
    PROVE  Opening'
BY DEF Opening

(* When a first send begins, the queue is as fresh as before.              *)
LEMMA BeginFresh ==
    ASSUME Types, Opening, NEW list, Begin(list)
    PROVE  (Fresh' <=> Fresh) /\ \A i \in 2..Len(queue') : queue'[i] # "Request"
<1>1. Tells(Item(list)) /\ queue \in Seq(Inputs)
  BY BeginDoes DEF Types
<1> QED
  BY <1>1, ToldOnce DEF Opening

(* An application's first send keeps the roles.                            *)
LEMMA CalledRoles ==
    ASSUME Types, Roles, NEW list, Called(list), ~Fresh, app.at # "none", app'.at # "none",
           app'.at # "read", app'.at = "run" => app.at = "run",
           app'.at \in {"failed", "over"} => list = <<>> /\ app'.calls = <<>>,
           app'.at \in {"failed again", "ending"} => list \in NoneLists /\ app'.calls = <<>>,
           world.wsgi => OfWsgi(app'.calls)
    PROVE  Roles'
<1>1. Opening'
  BY BeginFresh, OpeningKept DEF Roles, Called
<1>2. Consuming'
  BY DEF Roles, Consuming, Called
<1>3. Applying'
  BY DEF Roles, Applying, Called
<1> QED
  BY <1>1, <1>2, <1>3 DEF Roles

(* The rest of a WSGI application's messages is of the same kind.          *)
LEMMA OfWsgiTail ==
    ASSUME NEW calls \in Seq(Messages), calls # <<>>, OfWsgi(calls)
    PROVE  OfWsgi(Tail(calls))
<1>1. /\ Len(Tail(calls)) = Len(calls) - 1 /\ Len(calls) \in Nat
      /\ \A i \in 1..Len(Tail(calls)) : Tail(calls)[i] = calls[i + 1]
  BY HeadTailProperties, LenProperties
<1> QED
  BY <1>1 DEF OfWsgi

(* To say nothing is too.                                                  *)
LEMMA NothingSaid == OfWsgi(<<>>)
<1>1. Len(<<>>) = 0
  OBVIOUS
<1> QED
  BY <1>1 DEF OfWsgi

(* Every step keeps the roles.                                             *)
LEMMA StepRoles ==
    ASSUME Types, Roles, Steps
    PROVE  Roles'
<1>0. /\ queue \in Seq(Inputs) /\ consumer \in Consumers /\ stream \in Streams
      /\ Opening /\ Consuming /\ Applying
      /\ \A i \in 2..Len(queue) : queue[i] # "Request"
  BY DEF Types, Roles, Opening
<1>1. ASSUME NEW e, Arrives(e) PROVE Roles'
  <2>1. e \in Inputs \ {"Request"}
    BY <1>1 DEF Arrives, Inputs
  <2>2. (Fresh' <=> Fresh) /\ \A i \in 2..Len(queue') : queue'[i] # "Request"
    BY <1>0, <1>1, <2>1, QueueGrows DEF Arrives
  <2>3. Opening'
    BY <1>0, <1>1, <2>2, OpeningKept DEF Arrives, streamVars, appVars
  <2> QED
    BY <1>0, <1>1, <2>3 DEF Roles, Consuming, Applying, Arrives, streamVars, appVars
<1>2. CASE Breaks
  <2>1. PICK item : Tells(item)
    BY <1>2 DEF Breaks
  <2>2. (Fresh' <=> Fresh) /\ \A i \in 2..Len(queue') : queue'[i] # "Request"
    BY <1>0, <2>1, ToldOnce
  <2>3. Opening'
    BY <1>0, <1>2, <2>2, OpeningKept DEF Breaks, streamVars, appVars
  <2> QED
    BY <1>0, <1>2, <2>3 DEF Roles, Consuming, Applying, Breaks, streamVars, appVars
<1>3. CASE Refuses
  <2>1. Fresh /\ queue # <<>>
    BY <1>3 DEF Refuses, Take, Fresh
  <2>2. ~Fresh' /\ \A i \in 2..Len(queue') : queue'[i] # "Request"
    BY <1>0, <1>3, <2>1, QueueShrinks DEF Refuses
  <2>3. app.at = "none" /\ consumer.at = "wait" /\ stream.state = "REQUEST" /\ ~stream.closed
    BY <1>0, <2>1 DEF Opening
  <2>4. Opening'
    BY <1>3, <2>2, <2>3 DEF Opening, Refuses, streamVars, appVars
  <2>5. Consuming'
    <3>1. <<ErrorOp, EndOp>> \in Refusals /\ <<>> \in Refusals /\ <<ErrorOp, EndOp>> # <<>>
      BY ShortLists DEF Refusals
    <3> QED
      BY <1>0, <1>3, <2>3, <3>1 DEF Consuming, Refuses, streamVars, appVars
  <2>6. Applying'
    BY <1>0, <1>3 DEF Applying, Refuses, streamVars, appVars
  <2> QED
    BY <2>4, <2>5, <2>6 DEF Roles
<1>4. CASE Serves
  <2>1. Fresh /\ queue # <<>>
    BY <1>4 DEF Serves, Take, Fresh
  <2>2. ~Fresh' /\ \A i \in 2..Len(queue') : queue'[i] # "Request"
    BY <1>0, <1>4, <2>1, QueueShrinks DEF Serves
  <2>3. /\ app.at = "none" /\ consumer.at = "wait" /\ stream.state = "REQUEST"
        /\ ~stream.closed /\ ops["consumer"] = <<>>
    BY <1>0, <2>1 DEF Opening
  <2>4. Opening'
    BY <1>4, <2>2, <2>3 DEF Opening, Serves, streamVars
  <2>5. Consuming'
    BY <1>0, <1>4, <2>3 DEF Consuming, Serves, streamVars
  <2>6. ops["app"] = <<>> /\ app.calls = <<>>
    BY <1>0, <2>3 DEF Applying
  <2>7. Applying'
    BY <1>0, <1>4, <2>3, <2>6 DEF Applying, Serves, streamVars
  <2> QED
    BY <2>4, <2>5, <2>7 DEF Roles
<1>5. CASE PutsIt
  <2>1. ~Fresh
    BY <1>0, <1>5 DEF PutsIt, Opening
  <2>2. (Fresh' <=> Fresh) /\ \A i \in 2..Len(queue') : queue'[i] # "Request"
    BY <1>0, <1>5 DEF PutsIt, queueVars, Fresh
  <2>3. Opening'
    BY <1>0, <1>5, <2>1, <2>2, OpeningKept DEF PutsIt, appVars
  <2> QED
    BY <1>0, <1>5, <2>3 DEF Roles, Consuming, Applying, PutsIt, streamVars, appVars
<1>6. CASE RefusedIt
  <2>1. ~Fresh
    BY <1>0, <1>6 DEF RefusedIt, Opening
  <2>2. (Fresh' <=> Fresh) /\ \A i \in 2..Len(queue') : queue'[i] # "Request"
    BY <1>0, <1>6 DEF RefusedIt, queueVars, Fresh
  <2>3. Opening'
    BY <1>0, <1>6, <2>1, <2>2, OpeningKept DEF RefusedIt, appVars
  <2> QED
    BY <1>0, <1>6, <2>3 DEF Roles, Consuming, Applying, RefusedIt, streamVars, appVars
<1>7. ASSUME NEW e, NEW m, Hands(e, m), UNCHANGED streamVars \/ Closes,
             e # "Request", m # "none"
      PROVE  Roles'
  <2>1. ~Fresh /\ queue # <<>> /\ consumer.at = "wait"
    BY <1>7 DEF Hands, Take, Fresh
  <2>2. ~Fresh' /\ \A i \in 2..Len(queue') : queue'[i] # "Request"
    BY <1>0, <1>7, <2>1, QueueShrinks DEF Hands
  <2>3. Opening'
    BY <1>0, <1>7, <2>1, <2>2 DEF Opening, Hands, appVars
  <2>4. stream'.state = stream.state
    BY <1>7 DEF Closes, streamVars
  <2>5. consumer.puts = "none" /\ ops["consumer"] = <<>>
    BY <1>0, <2>1 DEF Consuming
  <2>6. Consuming'
    BY <1>0, <1>7, <2>1, <2>5 DEF Consuming, Hands, appVars
  <2>7. Applying'
    BY <1>0, <1>7, <2>4 DEF Applying, Hands, appVars
  <2> QED
    BY <2>3, <2>6, <2>7 DEF Roles
<1>8. ASSUME NEW list, Messaged(list) PROVE Roles'
  <2>1. Called(list) /\ app.calls # <<>> /\ app.calls \in Seq(Messages)
    BY <1>8 DEF Messaged, Types, Apps
  <2>2. app.at \in {"run", "thread", "returned"}
    BY <1>0, <2>1 DEF Applying, Types, Apps, Places
  <2>3. ~Fresh
    BY <1>0, <2>2 DEF Opening
  <2>4. world.wsgi => OfWsgi(app'.calls)
    <3>1. world.wsgi => OfWsgi(Tail(app.calls))
      BY <1>0, <2>1, OfWsgiTail DEF Applying
    <3>2. OfWsgi(<<>>)
      BY NothingSaid
    <3> QED
      BY <1>8, <3>1, <3>2 DEF Messaged
  <2> QED
    BY <1>8, <2>1, <2>2, <2>3, <2>4, CalledRoles DEF Messaged
<1>9. ASSUME NEW list, NEW next \in {"ending", "failed again"}, Ended(list, next),
             app.at \in {"returned", "failed", "failed again"}
      PROVE  Roles'
  <2>1. ~Fresh
    BY <1>0, <1>9 DEF Opening
  <2>2. OfWsgi(<<>>)
    BY NothingSaid
  <2> QED
    BY <1>9, <2>1, <2>2, CalledRoles DEF Ended
<1>10. CASE Over
  <2>1. app.at = "ending" /\ ~Fresh /\ ops["app"] = <<>>
    BY <1>0, <1>10 DEF Over, Idle, Opening
  <2>2. (Fresh' <=> Fresh) /\ \A i \in 2..Len(queue') : queue'[i] # "Request"
    BY <1>0, <1>10 DEF Over, queueVars, Fresh
  <2>3. Opening'
    BY <1>0, <1>10, <2>1, <2>2, OpeningKept DEF Over
  <2>4. OfWsgi(<<>>)
    BY NothingSaid
  <2> QED
    BY <1>0, <1>10, <2>1, <2>3, <2>4 DEF Roles, Consuming, Applying, Over, streamVars
<1>11. ASSUME NEW l, NEW list, Returned("consumer", l, list) PROVE Roles'
  <2>1. /\ l = ops["consumer"] /\ l # <<>> /\ l \in Refusals /\ ops'["consumer"] = list
        /\ ops'["app"] = ops["app"] /\ Begin(list) /\ UNCHANGED app
        /\ UNCHANGED <<world, client, broken, appQueue, wsgi>>
        /\ stream'.closed = stream.closed /\ stream'.state = After(stream.state, l)
    BY <1>0, <1>11 DEF Returned, Consuming
  <2>2. stream.state = "REQUEST" /\ consumer.at = "refuse" /\ app.at = "none" /\ ~Fresh
    BY <1>0, <2>1 DEF Consuming, Opening
  <2>3. ops["app"] = <<>> /\ app.calls = <<>>
    BY <1>0, <2>2 DEF Applying
  <2>4. Opening'
    BY <1>0, <2>1, <2>2, BeginFresh, OpeningKept
  <2>5. Consuming'
    <3>1. /\ Tail(l) \in Refusals
          /\ Tail(l) # <<>> => stream'.state = "REQUEST"
          /\ Tail(l) = <<>> => stream'.state = "CLOSED"
      BY <2>1, <2>2, ConsumerContinues
    <3>2. <<>> \in Refusals
      BY DEF Refusals
    <3>3. \/ UNCHANGED consumer /\ list = Tail(l)
          \/ list = <<>> /\ consumer'.at = "over" /\ consumer'.puts = consumer.puts
      BY <1>11 DEF Returned
    <3> QED
      BY <1>0, <2>1, <2>2, <3>1, <3>2, <3>3 DEF Consuming
  <2>6. Applying'
    BY <1>0, <2>1, <2>2, <2>3 DEF Applying, Lists
  <2> QED
    BY <2>4, <2>5, <2>6 DEF Roles
<1>12. ASSUME NEW l, NEW list, Returned("app", l, list) PROVE Roles'
  <2>1. /\ l = ops["app"] /\ l # <<>> /\ l \in Lists(stream.state) /\ ops'["app"] = list
        /\ ops'["consumer"] = ops["consumer"] /\ Begin(list) /\ UNCHANGED consumer
        /\ UNCHANGED <<world, client, broken, appQueue, wsgi>>
        /\ stream'.closed = stream.closed /\ stream'.state = After(stream.state, l)
        /\ stream.state \in States
    BY <1>0, <1>12 DEF Returned, Applying, Streams
  <2>2. app.at \in {"run", "thread", "returned", "failed again", "ending"}
    BY <1>0, <2>1 DEF Applying, Types, Apps, Places
  <2>3. consumer.at # "refuse" /\ ops["consumer"] = <<>> /\ ~Fresh
    BY <1>0, <2>2 DEF Consuming, Opening
  <2>4. /\ list = Tail(l) \/ list = <<>>
        /\ \/ UNCHANGED app
           \/ /\ list = <<>> /\ app'.calls = <<>>
              /\ app'.at = IF app.at = "ending" THEN "over" ELSE "failed"
    BY <1>12 DEF Returned
  <2>5. Opening'
    BY <1>0, <2>1, <2>2, <2>3, <2>4, BeginFresh, OpeningKept
  <2>6. Consuming'
    BY <1>0, <2>1, <2>2, <2>3, <2>4 DEF Consuming
  <2>7. Applying'
    <3>1. list \in Lists(stream'.state)
      <4>1. Tail(l) \in Lists(stream'.state)
        BY <2>1, AppContinues
      <4>2. <<>> \in Lists(stream'.state)
        BY DEF Lists
      <4> QED
        BY <2>4, <4>1, <4>2
    <3>2. l \in NoneLists => list \in NoneLists
      <4>1. <<>> \in NoneLists
        BY DEF NoneLists
      <4> QED
        BY <2>1, <2>4, <4>1, NoneContinues
    <3>3. OfWsgi(<<>>)
      BY NothingSaid
    <3> QED
      BY <1>0, <2>1, <2>2, <2>4, <3>1, <3>2, <3>3 DEF Applying
  <2> QED
    BY <2>5, <2>6, <2>7 DEF Roles
<1>13. CASE AppMoves
  <2>1. ~Fresh
    BY <1>0, <1>13 DEF AppMoves, Opening
  <2>2. (Fresh' <=> Fresh) /\ \A i \in 2..Len(queue') : queue'[i] # "Request"
    BY <1>0, <1>13 DEF AppMoves, queueVars, Fresh
  <2>3. Opening'
    BY <1>0, <1>13, <2>1, <2>2, OpeningKept DEF AppMoves
  <2>4. Consuming'
    BY <1>0, <1>13 DEF Consuming, AppMoves, streamVars
  <2>5. Applying'
    BY <1>0, <1>13 DEF Applying, AppMoves, streamVars
  <2> QED
    BY <2>3, <2>4, <2>5 DEF Roles
<1>14. CASE UNCHANGED vars
  <2>1. Opening' /\ Consuming' /\ Applying'
    BY <1>0, <1>14 DEF Opening, Consuming, Applying, Fresh, vars, queueVars, streamVars, appVars
  <2> QED
    BY <2>1 DEF Roles
<1>15. ASSUME NEW e \in {"Body", "EndBody"}, Hands(e, e) /\ UNCHANGED streamVars
       PROVE  Roles'
  BY <1>7, <1>15
<1> QED
  BY <1>1, <1>2, <1>3, <1>4, <1>5, <1>6, <1>7, <1>8, <1>9, <1>10, <1>11, <1>12,
     <1>13, <1>14, <1>15 DEF Steps

-----------------------------------------------------------------------------
(* The order of the response.                                              *)

(* A step that sends nothing keeps what the state tells.                   *)
LEMMA WiredKept ==
    ASSUME Wired, UNCHANGED <<world, wire, ops>>, stream'.state = stream.state,
           broken => broken'
    PROVE  Wired'
BY DEF Wired, InOrder, ItemInOrder, OnBefore, Told, On, Sending

(* So does one when the stream has broken, after which nothing is sent.    *)
LEMMA WiredBroken ==
    ASSUME Wired, UNCHANGED <<world, wire>>, broken'
    PROVE  Wired'
BY DEF Wired, InOrder, ItemInOrder, OnBefore

(* The order does not depend on what changes.                              *)
LEMMA OrderPrimed ==
    ASSUME NEW v, v = wire', InOrder(v), UNCHANGED world, NEW s, s = stream'.state,
           NEW item, item = Sending', Told(v, s, item)
    PROVE  Wired'
BY DEF Wired, InOrder, ItemInOrder, OnBefore, Told, On

(* A first send of the application keeps the order.                        *)
LEMMA CalledWired ==
    ASSUME Types, Roles, Wired, NEW list, Called(list), app.at # "none"
    PROVE  Wired'
<1>1. /\ ops["consumer"] = <<>> /\ ops["app"] = <<>> /\ Sending = "nothing"
      /\ ops'["consumer"] = <<>> /\ ops'["app"] = list /\ stream'.state = stream.state
      /\ UNCHANGED <<world, broken>>
  BY DEF Called, Roles, Consuming, Sending, Item
<1>2. wire' = IF broken THEN wire ELSE WithItem(wire, Item(list))
  BY BeginDoes DEF Called
<1>3. CASE broken
  BY <1>1, <1>2, <1>3, WiredBroken
<1>4. CASE ~broken
  <2>1. PICK v : v = WithItem(wire, Item(list))
    OBVIOUS
  <2>2. MayBegin(stream.state, Item(list))
    <3>1. CASE list = <<>>
      BY <3>1 DEF Item, MayBegin, Silent
    <3>2. CASE list # <<>>
      BY <3>2 DEF Item, Called
    <3> QED
      BY <3>1, <3>2
  <2>3. /\ wire \in Seq(Items) /\ stream.state \in States /\ InOrder(wire)
        /\ Told(wire, stream.state, "nothing")
    BY <1>1, <1>4 DEF Types, Streams, Wired
  <2>4. InOrder(v) /\ Told(v, stream.state, Item(list))
    BY <2>1, <2>2, <2>3, FirstSent
  <2>5. v = wire' /\ Item(list) = Sending' /\ stream.state = stream'.state
    BY <1>1, <1>2, <1>4, <2>1 DEF Sending
  <2> QED
    BY <1>1, <2>4, <2>5, OrderPrimed
<1> QED
  BY <1>3, <1>4

(* A send that returns keeps it, with the next.                            *)
LEMMA ReturnedWired ==
    ASSUME Types, Roles, Wired, NEW t \in {"consumer", "app"}, NEW l, NEW list,
           Returned(t, l, list)
    PROVE  Wired'
<1>1. wire' = IF broken THEN wire ELSE WithItem(wire, Item(list))
  BY BeginDoes DEF Returned
<1>2. CASE broken
  BY <1>1, <1>2, WiredBroken DEF Returned
<1>3. CASE ~broken
  <2>1. list = Tail(l) /\ l # <<>> /\ Continues(stream.state, l) /\ UNCHANGED world
        /\ stream'.state = After(stream.state, l)
    BY <1>3 DEF Returned
  <2>2. Sending = Head(l).send /\ Sending' = Item(list)
    <3>1. CASE t = "consumer"
      <4>1. /\ ops["consumer"] = l /\ ops'["consumer"] = list /\ ops'["app"] = ops["app"]
        BY <3>1 DEF Returned
      <4>2. ops["app"] = <<>>
        BY <2>1, <4>1 DEF Roles, Consuming, Applying
      <4> QED
        BY <2>1, <4>1, <4>2 DEF Sending, Item
    <3>2. CASE t = "app"
      <4>1. /\ ops["app"] = l /\ ops'["app"] = list /\ ops'["consumer"] = ops["consumer"]
        BY <3>2 DEF Returned
      <4>2. ops["consumer"] = <<>>
        BY <2>1, <4>1 DEF Roles, Consuming, Applying
      <4> QED
        BY <2>1, <4>1, <4>2 DEF Sending, Item
    <3> QED
      BY <3>1, <3>2
  <2>3. /\ wire \in Seq(Items) /\ stream.state \in States /\ InOrder(wire)
        /\ Told(wire, stream.state, Head(l).send)
    BY <1>3, <2>2 DEF Types, Streams, Wired
  <2>4. PICK v : v = WithItem(wire, Item(Tail(l)))
    OBVIOUS
  <2>5. InOrder(v) /\ Told(v, After(stream.state, l), Item(Tail(l)))
    BY <2>1, <2>3, <2>4, NextSent
  <2>6. /\ v = wire' /\ Item(Tail(l)) = Sending'
        /\ After(stream.state, l) = stream'.state
    BY <1>1, <1>3, <2>1, <2>2, <2>4
  <2> QED
    BY <2>1, <2>5, <2>6, OrderPrimed
<1> QED
  BY <1>2, <1>3

(* So does the first of what refuses a request.                            *)
LEMMA RefusesWired ==
    ASSUME Types, Roles, Wired, Refuses
    PROVE  Wired'
<1>1. /\ stream.state = "REQUEST" /\ ops["consumer"] = <<>> /\ ops["app"] = <<>>
  BY DEF Roles, Opening, Applying, Refuses, Take, Fresh
<1>2. /\ wire' = (IF broken THEN wire ELSE WithItem(wire, "Response"))
      /\ UNCHANGED <<world, broken>> /\ stream'.state = stream.state
  BY DEF Refuses, streamVars
<1>3. CASE broken
  BY <1>2, <1>3, WiredBroken
<1>4. CASE ~broken
  <2>1. PICK v : v = WithItem(wire, "Response")
    OBVIOUS
  <2>2. Sending = "nothing"
    BY <1>1 DEF Sending, Item
  <2>3. Sending' = "Response"
    <3>1. ops'["consumer"] = <<ErrorOp, EndOp>>
      BY <1>4 DEF Refuses
    <3> QED
      BY <3>1, ShortLists, Operations DEF Sending, Item
  <2>4. /\ wire \in Seq(Items) /\ stream.state \in States /\ InOrder(wire)
        /\ Told(wire, stream.state, "nothing") /\ MayBegin(stream.state, "Response")
    BY <1>1, <1>4, <2>2 DEF Types, Streams, Wired, MayBegin, Items
  <2>5. InOrder(v) /\ Told(v, stream.state, "Response")
    BY <2>1, <2>4, FirstSent
  <2>6. v = wire' /\ "Response" = Sending' /\ stream.state = stream'.state
    BY <1>2, <1>4, <2>1, <2>3
  <2> QED
    BY <1>2, <2>5, <2>6, OrderPrimed
<1> QED
  BY <1>3, <1>4

(* Every step keeps the order of the response.                             *)
LEMMA StepWired ==
    ASSUME Types, Roles, Wired, Steps
    PROVE  Wired'
<1>1. ASSUME NEW e, Arrives(e) PROVE Wired'
  BY <1>1, WiredKept DEF Arrives, streamVars
<1>2. CASE Breaks
  BY <1>2, WiredBroken DEF Breaks
<1>3. CASE Refuses
  BY <1>3, RefusesWired
<1>4. CASE Serves
  BY <1>4, WiredKept DEF Serves, streamVars
<1>5. CASE PutsIt
  BY <1>5, WiredKept DEF PutsIt, streamVars
<1>6. CASE RefusedIt
  BY <1>6, WiredKept DEF RefusedIt
<1>7. ASSUME NEW e, NEW m, Hands(e, m), UNCHANGED streamVars \/ Closes PROVE Wired'
  BY <1>7, WiredKept DEF Hands, Closes, streamVars
<1>8. ASSUME NEW list, Messaged(list) PROVE Wired'
  <2>1. app.at # "none"
    BY <1>8 DEF Messaged, Roles, Applying
  <2> QED
    BY <1>8, <2>1, CalledWired DEF Messaged
<1>9. ASSUME NEW list, NEW next, Ended(list, next),
             app.at \in {"returned", "failed", "failed again"}
      PROVE  Wired'
  BY <1>9, CalledWired DEF Ended
<1>10. CASE Over
  BY <1>10, WiredKept DEF Over, streamVars
<1>11. ASSUME NEW t \in {"consumer", "app"}, NEW l, NEW list, Returned(t, l, list)
       PROVE  Wired'
  BY <1>11, ReturnedWired
<1>12. CASE AppMoves
  BY <1>12, WiredKept DEF AppMoves, streamVars
<1>13. CASE UNCHANGED vars
  BY <1>13, WiredKept DEF vars, streamVars
<1>14. ASSUME NEW e \in {"Body", "EndBody"}, Hands(e, e) /\ UNCHANGED streamVars
       PROVE  Wired'
  BY <1>7, <1>14
<1> QED
  BY <1>1, <1>2, <1>3, <1>4, <1>5, <1>6, <1>7, <1>8, <1>9, <1>10, <1>11, <1>12,
     <1>13, <1>14 DEF Steps

-----------------------------------------------------------------------------
(* Closing and logging.                                                    *)

Closings == Logging /\ Telling /\ Leaving

(* A send that returns logs the response at its end.                       *)
LEMMA ReturnedLogging ==
    ASSUME Types, Roles, Closings, NEW t \in {"consumer", "app"}, NEW l, NEW list,
           Returned(t, l, list)
    PROVE  Logging'
<1>1. /\ l # <<>> /\ Continues(stream.state, l) /\ logged \in Nat
      /\ stream'.state = After(stream.state, l) /\ stream'.closed = stream.closed
      /\ logged' = IF Head(l).then = "CLOSED" THEN logged + 1 ELSE logged
      /\ missed' = (missed \/ Head(l).then = "UNLOGGED") /\ missed \in BOOLEAN
      /\ UNCHANGED <<world, broken>>
      /\ stream.closed \in BOOLEAN
  BY DEF Returned, Types, Streams
<1>0. Unlogged(l) \/ Unlogged(ops'["app"]) => ~world.te /\ ~world.wsgi
  <2>1. CASE t = "consumer"
    <3>1. ~Unlogged(l) /\ ops'["app"] = ops["app"]
      BY <1>1, <2>1, ConsumerContinues DEF Returned, Roles, Consuming
    <3> QED
      BY <3>1 DEF Closings, Logging
  <2>2. CASE t = "app"
    <3>1. ops["app"] = l /\ ~Unlogged(ops'["app"])
      BY <1>1, <2>2 DEF Returned, Continues, Unlogged
    <3> QED
      BY <3>1 DEF Closings, Logging
  <2> QED
    BY <2>1, <2>2
<1>2. CASE Head(l).send = "EndBody"
  <2>1. /\ stream.state # "CLOSED" /\ stream'.state = "CLOSED" /\ ~missed
        /\ logged <= 1 /\ (~stream.closed => logged = 0)
        /\ \/ logged' = logged + 1 /\ ~missed'
           \/ logged' = logged /\ missed' /\ Unlogged(l)
    BY <1>1, <1>2 DEF Continues, After, Unlogged, Closings, Logging
  <2>2. stream.closed => world.version = 2 /\ broken
    <3>1. CASE t = "consumer"
      <4>1. consumer.at = "refuse"
        BY <1>1, <3>1 DEF Returned, Roles, Consuming
      <4> QED
        BY <4>1 DEF Roles, Consuming
    <3>2. CASE t = "app"
      <4>1. app.at # "none" /\ ops["app"] = l
        BY <1>1, <3>2 DEF Returned, Roles, Applying
      <4>2. stream.closed => world.version = 2 /\ ~known
        BY <4>1 DEF Closings, Telling
      <4>3. l # <<ClosedOp>>
        BY <1>2, ShortLists, Operations
      <4> QED
        BY <1>1, <2>1, <4>1, <4>2, <4>3 DEF Closings, Leaving
    <3> QED
      BY <3>1, <3>2
  <2> QED
    BY <1>0, <1>1, <2>1, <2>2 DEF Closings, Logging
<1>3. CASE Head(l).send # "EndBody"
  <2>1. /\ logged' = logged /\ missed' = missed
        /\ stream'.state = "CLOSED" <=> stream.state = "CLOSED"
    BY <1>1, <1>3 DEF Continues
  <2> QED
    BY <1>0, <1>1, <2>1 DEF Closings, Logging
<1> QED
  BY <1>2, <1>3

(* An end that is handled logs a response that is not complete.            *)
LEMMA ClosesLogging ==
    ASSUME Types, Closings, Closes, UNCHANGED <<world, broken, ops>>
    PROVE  Logging'
BY DEF Closes, Closings, Logging, Types, Streams

\* The queue of the stream as a first send leaves it.
LEMMA BeginTells ==
    ASSUME Types, Telling, NEW item, Tells(item)
    PROVE  /\ \A i \in 1..Len(queue') : queue'[i] = "StreamClosed" =>
                world.version = 2 /\ ~known' /\ i = Len(queue')
           /\ ~known => ~known' /\ UNCHANGED queue
           /\ item # "StreamClosed" => UNCHANGED queueVars
           /\ item = "StreamClosed" => ~known'
<1>1. /\ queue \in Seq(Inputs) /\ known \in BOOLEAN
      /\ \A i \in 1..Len(queue) : queue[i] = "StreamClosed" =>
           world.version = 2 /\ ~known /\ i = Len(queue)
  BY DEF Types, Telling
<1>2. /\ \/ UNCHANGED queue
         \/ known /\ world.version = 2 /\ queue' = Append(queue, "StreamClosed")
      /\ known' = known \/ known' = FALSE
      /\ item # "StreamClosed" => UNCHANGED queueVars
      /\ item = "StreamClosed" => ~known'
      /\ ~known /\ known \in BOOLEAN => ~known' /\ UNCHANGED queue
  BY <1>1, ToldOnce
<1>3. CASE UNCHANGED queue
  BY <1>1, <1>2, <1>3
<1>4. CASE known /\ world.version = 2 /\ queue' = Append(queue, "StreamClosed")
  <2>1. "StreamClosed" \in Inputs \ {"Request"}
    BY DEF Inputs
  <2>2. /\ Len(queue') = Len(queue) + 1 /\ Len(queue) \in Nat
        /\ \A i \in 1..Len(queue) : queue'[i] = queue[i]
    BY <1>1, <1>4, <2>1, QueueGrows
  <2>3. item = "StreamClosed"
    <3>1. queue' # queue
      BY <2>2
    <3> QED
      BY <1>2, <3>1 DEF queueVars
  <2> QED
    BY <1>1, <1>2, <1>4, <2>2, <2>3
<1> QED
  BY <1>2, <1>3, <1>4

(* A first send leaves the end of the stream on its way.                   *)
LEMMA BeginTelling ==
    ASSUME Types, Telling, NEW list, Begin(list),
           UNCHANGED <<world, appQueue>>, stream'.closed = stream.closed,
           consumer'.puts = consumer.puts,
           world.version = 2 => UNCHANGED consumer,
           app'.at # "none" => app.at # "none"
    PROVE  Telling'
<1>1. Tells(Item(list))
  BY BeginDoes
<1>2. /\ \A i \in 1..Len(queue') : queue'[i] = "StreamClosed" =>
           world.version = 2 /\ ~known' /\ i = Len(queue')
      /\ ~known => ~known' /\ UNCHANGED queue
  BY <1>1, BeginTells
<1>3. stream'.closed /\ app'.at # "none" => world.version = 2 /\ ~known' /\ queue' = <<>>
  BY <1>2 DEF Telling
<1> QED
  BY <1>2, <1>3 DEF Telling

(* What is handled leaves the rest of it on its way.                       *)
LEMMA HandsTelling ==
    ASSUME Types, Roles, Telling, NEW e, NEW m, Hands(e, m),
           \/ e \in {"Body", "EndBody"} /\ m = e /\ UNCHANGED streamVars
           \/ e = "StreamClosed" /\ m = "disconnect" /\ Closes
    PROVE  Telling'
<1>1. /\ queue \in Seq(Inputs) /\ queue # <<>> /\ queue' = Tail(queue)
      /\ Head(queue) = e /\ consumer.at = "wait"
      /\ UNCHANGED <<world, known, broken, appQueue, app>>
  BY DEF Types, Hands, Take, appVars
<1>2. /\ queue' \in Seq(Inputs) /\ Len(queue') = Len(queue) - 1 /\ Len(queue) \in Nat
      /\ Len(queue) >= 1 /\ e = queue[1]
      /\ \A i \in 1..Len(queue') : queue'[i] = queue[i + 1]
  BY <1>1, QueueShrinks
<1>3. ASSUME NEW i \in 1..Len(queue'), queue'[i] = "StreamClosed"
      PROVE  world.version = 2 /\ ~known' /\ i = Len(queue')
  <2>1. i + 1 \in 1..Len(queue) /\ queue[i + 1] = "StreamClosed"
    BY <1>2, <1>3
  <2>2. world.version = 2 /\ ~known /\ i + 1 = Len(queue)
    BY <2>1 DEF Telling
  <2>3. i = Len(queue')
    BY <1>2, <1>3, <2>2
  <2> QED
    BY <1>1, <2>2, <2>3
<1>4. consumer.puts = "none"
  BY <1>1 DEF Roles, Consuming
<1>5. CASE e \in {"Body", "EndBody"} /\ m = e /\ UNCHANGED streamVars
  <2>1. stream' = stream
    BY <1>5 DEF streamVars
  <2>2. stream'.closed /\ app'.at # "none" => world.version = 2 /\ ~known' /\ queue' = <<>>
    BY <1>1, <2>1 DEF Telling
  <2>3. consumer'.at # "over" /\ consumer'.puts # "disconnect"
    BY <1>4, <1>5 DEF Hands
  <2> QED
    BY <1>1, <1>3, <2>1, <2>2, <2>3 DEF Telling
<1>6. CASE e = "StreamClosed" /\ m = "disconnect" /\ Closes
  <2>1. world.version = 2 /\ ~known /\ Len(queue) = 1
    <3>1. queue[1] = "StreamClosed" /\ 1 \in 1..Len(queue)
      BY <1>2, <1>6
    <3> QED
      BY <3>1 DEF Telling
  <2>2. queue' = <<>>
    BY <1>2, <2>1
  <2>3. stream'.closed
    BY <1>6 DEF Closes
  <2> QED
    BY <1>1, <1>3, <2>1, <2>2, <2>3 DEF Telling
<1> QED
  BY <1>5, <1>6

(* What is put reaches the application's queue.                            *)
LEMMA PutsTelling ==
    ASSUME Types, Roles, Telling, PutsIt
    PROVE  Telling'
<1>1. /\ appQueue \in Seq(Given) /\ appQueue' = Append(appQueue, consumer.puts)
      /\ consumer'.puts = "none" /\ stream' = stream /\ UNCHANGED <<queue, known, world, app>>
      /\ consumer'.at = IF consumer.puts = "disconnect" THEN "over" ELSE "wait"
  BY DEF Types, PutsIt, queueVars, streamVars, appVars
<1>2. consumer.puts \in Given
  BY DEF PutsIt, Types, Roles, Consuming, Consumers
<1>3. /\ Len(appQueue') = Len(appQueue) + 1 /\ Len(appQueue) \in Nat
      /\ appQueue'[Len(appQueue) + 1] = consumer.puts
      /\ \A i \in 1..Len(appQueue) : appQueue'[i] = appQueue[i]
  BY <1>1, <1>2
<1>4. ASSUME NEW i \in 1..Len(appQueue'), appQueue'[i] = "disconnect"
      PROVE  stream.closed
  <2>1. CASE i \in 1..Len(appQueue)
    BY <1>3, <1>4, <2>1 DEF Telling
  <2>2. CASE i = Len(appQueue) + 1
    BY <1>3, <1>4, <2>2 DEF Telling
  <2> QED
    BY <1>3, <2>1, <2>2
<1> QED
  BY <1>1, <1>4 DEF Telling

(* A step elsewhere leaves the stream where it is.                         *)
LEMMA LeavingKept ==
    ASSUME Leaving, UNCHANGED known, broken => broken', stream'.state = stream.state,
           ops'["app"] = ops["app"], app'.at \in Ending <=> app.at \in Ending
    PROVE  Leaving'
BY DEF Leaving

(* The application's end makes the stream leave.                           *)
LEMMA EndedLeaving ==
    ASSUME Types, Roles, Closings, NEW list, NEW next \in {"ending", "failed again"},
           Ended(list, next), app.at \in {"returned", "failed", "failed again"}
    PROVE  Leaving'
<1>1. /\ ops["app"] = <<>> /\ ops'["app"] = list /\ Begin(list)
      /\ stream'.state = stream.state /\ UNCHANGED broken
      /\ known \in BOOLEAN /\ stream.closed \in BOOLEAN
  BY DEF Ended, Called, Types, Streams
<1>2. /\ Item(list) # "StreamClosed" => UNCHANGED known
      /\ Item(list) = "StreamClosed" => ~known'
      /\ ~known => ~known'
  BY <1>1, BeginDoes, BeginTells DEF Closings, queueVars
<1>3. /\ list # <<>> /\ stream.state # "REQUEST" => list = <<ClosedOp>>
      /\ list # <<>> /\ stream.state = "REQUEST" => Head(list) = ErrorOp
      /\ list = <<>> /\ ~broken => stream.closed
  BY DEF Ended
<1>4. app'.at \in Ending
  BY DEF Ended, Ending
<1>5. ASSUME ~broken, ~known
      PROVE  \/ stream.state = "CLOSED"
             \/ stream.state # "REQUEST" /\ list \in {<<>>, <<ClosedOp>>}
  <2>1. CASE stream.state = "CLOSED"
    BY <2>1
  <2>2. CASE stream.state # "CLOSED"
    <3>1. app.at \in Ending
      BY <1>5, <2>2 DEF Closings, Leaving
    <3>2. stream.state # "REQUEST"
      BY <1>1, <1>5, <3>1 DEF Closings, Leaving
    <3> QED
      BY <1>3, <3>2
  <2> QED
    BY <2>1, <2>2
<1>6. ASSUME ~broken, list = <<>>
      PROVE  ~known' /\ stream.state # "REQUEST"
  <2>1. ~known
    BY <1>1, <1>3, <1>6 DEF Closings, Telling
  <2> QED
    BY <1>2, <1>5, <1>6, <2>1
<1>7. ASSUME ~broken, ~known', known
      PROVE  list = <<ClosedOp>>
  <2>1. Item(list) = "StreamClosed"
    BY <1>2, <1>7
  <2>2. list # <<>>
    BY <2>1 DEF Item
  <2>3. stream.state # "REQUEST"
    BY <1>3, <2>1, <2>2, Operations DEF Item
  <2> QED
    BY <1>3, <2>2, <2>3
<1> QED
  BY <1>1, <1>2, <1>4, <1>5, <1>6, <1>7 DEF Leaving

(* A message does not.                                                     *)
LEMMA MessagedLeaving ==
    ASSUME Types, Roles, Closings, NEW list, Messaged(list)
    PROVE  Leaving'
<1>1. /\ ops'["app"] = list /\ Begin(list) /\ app.calls # <<>>
      /\ stream'.state = stream.state /\ UNCHANGED broken
      /\ list # <<>> => Head(list).send # "StreamClosed"
  BY DEF Messaged, Called
<1>2. Item(list) # "StreamClosed"
  BY <1>1 DEF Item
<1>3. UNCHANGED known
  BY <1>1, <1>2, BeginDoes, BeginTells DEF Closings, queueVars
<1>4. app.at \notin Ending /\ app'.at \notin Ending
  BY <1>1 DEF Messaged, Roles, Applying, Ending
<1> QED
  BY <1>1, <1>2, <1>3, <1>4 DEF Closings, Leaving

(* A send that returns may.                                                *)
LEMMA ReturnedLeaving ==
    ASSUME Types, Roles, Closings, NEW t \in {"consumer", "app"}, NEW l, NEW list,
           Returned(t, l, list)
    PROVE  Leaving'
<1>1. /\ l = ops[t] /\ l # <<>> /\ Continues(stream.state, l) /\ Begin(list)
      /\ stream'.state = After(stream.state, l) /\ UNCHANGED broken
      /\ ops'[t] = list /\ (~broken => list = Tail(l))
      /\ list = Tail(l) \/ list = <<>>
      /\ known \in BOOLEAN
  BY DEF Returned, Types
<1>2. /\ Item(list) # "StreamClosed" => UNCHANGED known
      /\ Item(list) = "StreamClosed" => ~known'
      /\ ~known => ~known'
  BY <1>1, BeginDoes, BeginTells DEF Closings, queueVars
<1>3. stream.state = "CLOSED" => stream'.state = "CLOSED"
  BY <1>1 DEF Continues
<1>4. ~broken /\ Item(list) = "StreamClosed" => stream'.state = "CLOSED"
  BY <1>1 DEF Continues, Item
<1>5. CASE t = "consumer"
  <2>1. app.at = "none" /\ UNCHANGED app /\ ops'["app"] = ops["app"] /\ ops["app"] = <<>>
    BY <1>1, <1>5 DEF Returned, Roles, Consuming, Applying
  <2>2. app.at \notin Ending /\ Item(ops["app"]) = "nothing"
    BY <2>1 DEF Ending, Item
  <2> QED
    BY <1>1, <1>2, <1>3, <1>4, <2>1, <2>2 DEF Closings, Leaving
<1>6. CASE t = "app"
  <2>1. ASSUME ~broken
        PROVE  /\ list = Tail(l)
               /\ UNCHANGED app \/ (app.at \notin Ending /\ app'.at \notin Ending)
    <3>1. CASE Unlogged(l)
      <4>1. l \notin NoneLists
        BY <1>1, <3>1, NoneContinues
      <4>2. app.at \notin Ending
        BY <1>1, <1>6, <4>1 DEF Roles, Applying, Ending
      <4>3. UNCHANGED app \/ app'.at = "failed"
        BY <4>2, <1>6 DEF Returned, Ending
      <4> QED
        BY <1>1, <2>1, <4>2, <4>3 DEF Ending
    <3>2. CASE ~Unlogged(l)
      BY <1>1, <1>6, <2>1, <3>2 DEF Returned
    <3> QED
      BY <3>1, <3>2
  <2>2. ASSUME ~broken, ~known, stream.state # "CLOSED"
        PROVE  app.at \in Ending /\ list = <<>>
    <3>1. app.at \in Ending /\ l = <<ClosedOp>>
      BY <1>1, <1>6, <2>2 DEF Closings, Leaving
    <3>2. Tail(l) = <<>>
      BY <3>1, ShortLists
    <3> QED
      BY <1>1, <3>1, <3>2
  <2>3. ASSUME ~broken, app.at \in Ending, list = <<>>
        PROVE  ~known /\ stream'.state # "REQUEST"
    <3>1. l \in NoneLists
      BY <1>1, <1>6, <2>3 DEF Roles, Applying, Ending
    <3>2. Head(l) = ClosedOp
      BY <1>1, <2>3, <3>1, NoneContinues
    <3>3. Head(l).send = "StreamClosed"
      BY <3>2, Operations
    <3>4. Item(ops["app"]) = "StreamClosed"
      BY <1>1, <1>6, <3>3 DEF Item
    <3> QED
      BY <1>1, <3>3, <3>4 DEF Closings, Leaving, Continues
  <2> QED
    BY <1>1, <1>2, <1>3, <1>4, <1>6, <2>1, <2>2, <2>3 DEF Leaving
<1> QED
  BY <1>5, <1>6

(* Every step keeps how a stream is closed.                                *)
LEMMA StepClosings ==
    ASSUME Types, Roles, Closings, Steps
    PROVE  Closings'
<1>0. Logging /\ Telling /\ Leaving
  BY DEF Closings
<1>1. ASSUME NEW e, Arrives(e) PROVE Closings'
  <2>1. Logging'
    BY <1>0, <1>1 DEF Logging, Arrives, streamVars
  <2>2. Telling'
    <3>1. e \in Inputs \ {"Request"} /\ e # "StreamClosed" /\ queue \in Seq(Inputs)
      BY <1>1 DEF Arrives, Inputs, Types
    <3>2. /\ Len(queue') = Len(queue) + 1 /\ Len(queue) \in Nat
          /\ queue'[Len(queue) + 1] = e
          /\ \A i \in 1..Len(queue) : queue'[i] = queue[i]
      BY <1>1, <3>1, QueueGrows DEF Arrives
    <3>3. \A i \in 1..Len(queue) : queue[i] # "StreamClosed"
      BY <1>0, <1>1 DEF Telling, Arrives
    <3>4. \A i \in 1..Len(queue') : queue'[i] # "StreamClosed"
      BY <3>1, <3>2, <3>3
    <3> QED
      BY <1>0, <1>1, <3>4 DEF Telling, Arrives, streamVars, appVars
  <2>3. Leaving'
    BY <1>0, <1>1, LeavingKept DEF Arrives, streamVars, appVars
  <2> QED
    BY <2>1, <2>2, <2>3 DEF Closings
<1>2. CASE Breaks
  <2>1. PICK item : Tells(item)
    BY <1>2 DEF Breaks
  <2>2. /\ \A i \in 1..Len(queue') : queue'[i] = "StreamClosed" =>
             world.version = 2 /\ ~known' /\ i = Len(queue')
        /\ ~known => ~known' /\ UNCHANGED queue
    BY <1>0, <2>1, BeginTells
  <2>3. Logging'
    BY <1>0, <1>2 DEF Logging, Breaks, streamVars
  <2>4. stream'.closed /\ app'.at # "none" => world.version = 2 /\ ~known' /\ queue' = <<>>
    BY <1>0, <1>2, <2>2 DEF Telling, Breaks, streamVars, appVars
  <2>5. Telling'
    BY <1>0, <1>2, <2>2, <2>4 DEF Telling, Breaks, streamVars, appVars
  <2>6. Leaving'
    BY <1>0, <1>2, <2>2 DEF Leaving, Breaks, streamVars, appVars
  <2> QED
    BY <2>3, <2>5, <2>6 DEF Closings
<1>3. CASE Refuses \/ Serves
  <2>1. /\ queue \in Seq(Inputs) /\ queue # <<>> /\ queue' = Tail(queue)
        /\ UNCHANGED <<world, known, broken, streamVars, appQueue>>
        /\ Fresh
    BY <1>3 DEF Types, Refuses, Serves, Take, Fresh
  <2>2. ~stream.closed /\ app.at = "none" /\ ops["app"] = <<>>
    BY <2>1 DEF Roles, Opening, Applying
  <2>3. Logging'
    <3>1. ops'["app"] = ops["app"]
      BY <1>3 DEF Refuses, Serves
    <3> QED
      BY <1>0, <2>1, <3>1 DEF Logging, streamVars
  <2>4. /\ Len(queue') = Len(queue) - 1 /\ Len(queue) \in Nat
        /\ \A i \in 1..Len(queue') : queue'[i] = queue[i + 1]
    BY <2>1, QueueShrinks
  <2>5. ASSUME NEW i \in 1..Len(queue'), queue'[i] = "StreamClosed"
        PROVE  world.version = 2 /\ ~known /\ i = Len(queue')
    <3>1. i + 1 \in 1..Len(queue) /\ queue[i + 1] = "StreamClosed"
      BY <2>4, <2>5
    <3>2. world.version = 2 /\ ~known /\ i + 1 = Len(queue)
      BY <1>0, <3>1 DEF Telling
    <3>3. i = Len(queue')
      BY <2>4, <2>5, <3>2
    <3> QED
      BY <3>2, <3>3
  <2>6. /\ consumer'.puts = consumer.puts
        /\ consumer'.at = "over" => world.version = 3 \/ consumer.at = "over"
    BY <1>3 DEF Refuses, Serves
  <2>7. ~stream'.closed /\ stream'.state = stream.state
    BY <2>1, <2>2 DEF streamVars
  <2>8. Telling'
    BY <1>0, <2>1, <2>5, <2>6, <2>7, <2>2 DEF Telling
  <2>9. app'.at \notin Ending /\ app.at \notin Ending /\ ops'["app"] = ops["app"]
    BY <1>3, <2>2 DEF Refuses, Serves, Ending, appVars
  <2>10. Leaving'
    BY <1>0, <2>1, <2>7, <2>9, LeavingKept
  <2> QED
    BY <2>3, <2>8, <2>10 DEF Closings
<1>4. CASE PutsIt
  <2>1. Logging'
    BY <1>0, <1>4 DEF Logging, PutsIt, streamVars
  <2>2. Telling'
    BY <1>0, <1>4, PutsTelling
  <2>3. Leaving'
    BY <1>0, <1>4, LeavingKept DEF PutsIt, streamVars, appVars, queueVars
  <2> QED
    BY <2>1, <2>2, <2>3 DEF Closings
<1>5. CASE RefusedIt
  <2>1. stream.state = "CLOSED" /\ app.at = "none" /\ ~stream.closed
    BY <1>5 DEF RefusedIt, Roles, Consuming
  <2>2. Logging'
    BY <1>0, <1>5, <2>1 DEF Logging, RefusedIt, Types
  <2>3. Telling'
    BY <1>0, <1>5, <2>1 DEF Telling, RefusedIt, queueVars, appVars
  <2>4. Leaving'
    BY <1>0, <1>5, LeavingKept DEF RefusedIt, appVars, queueVars
  <2> QED
    BY <2>2, <2>3, <2>4 DEF Closings
<1>6. ASSUME NEW e, NEW m, Hands(e, m),
             \/ e \in {"Body", "EndBody"} /\ m = e /\ UNCHANGED streamVars
             \/ e = "StreamClosed" /\ m = "disconnect" /\ Closes
      PROVE  Closings'
  <2>1. Logging'
    <3>1. CASE UNCHANGED streamVars
      BY <1>0, <1>6, <3>1 DEF Logging, Hands, streamVars
    <3>2. CASE Closes
      BY <1>6, <3>2, ClosesLogging DEF Hands
    <3> QED
      BY <1>6, <3>1, <3>2
  <2>2. Telling'
    BY <1>0, <1>6, HandsTelling
  <2>3. stream'.state = stream.state
    BY <1>6 DEF Closes, streamVars
  <2>4. Leaving'
    BY <1>0, <1>6, <2>3, LeavingKept DEF Hands, appVars
  <2> QED
    BY <2>1, <2>2, <2>4 DEF Closings
<1>7. ASSUME NEW list, Called(list), Leaving', app.at # "none" PROVE Closings'
  <2>1. Logging'
    BY <1>0, <1>7 DEF Logging, Called, Unlogged
  <2>2. Telling'
    BY <1>0, <1>7, BeginTelling DEF Called
  <2> QED
    BY <1>7, <2>1, <2>2 DEF Closings
<1>8. ASSUME NEW list, Messaged(list) PROVE Closings'
  <2>1. app.at # "none"
    BY <1>8 DEF Messaged, Roles, Applying
  <2> QED
    BY <1>7, <1>8, <2>1, MessagedLeaving DEF Messaged
<1>9. ASSUME NEW list, NEW next \in {"ending", "failed again"}, Ended(list, next),
             app.at \in {"returned", "failed", "failed again"}
      PROVE  Closings'
  <2>1. Leaving'
    BY <1>9, EndedLeaving
  <2> QED
    BY <1>7, <1>9, <2>1 DEF Ended
<1>10. CASE Over
  <2>1. Logging'
    BY <1>0, <1>10 DEF Logging, Over, streamVars
  <2>2. app.at = "ending" /\ app'.at = "over"
    BY <1>10 DEF Over, Idle
  <2>3. Telling'
    BY <1>0, <1>10, <2>2 DEF Telling, Over, streamVars, queueVars
  <2>4. app'.at \in Ending /\ app.at \in Ending
    BY <2>2 DEF Ending
  <2>5. Leaving'
    BY <1>0, <1>10, <2>4, LeavingKept DEF Over, streamVars, queueVars
  <2> QED
    BY <2>1, <2>3, <2>5 DEF Closings
<1>11. ASSUME NEW t \in {"consumer", "app"}, NEW l, NEW list, Returned(t, l, list)
       PROVE  Closings'
  <2>1. Logging'
    BY <1>11, ReturnedLogging
  <2>2. Leaving'
    BY <1>11, ReturnedLeaving
  <2>3. /\ Begin(list) /\ UNCHANGED <<world, appQueue>> /\ stream'.closed = stream.closed
        /\ consumer'.puts = consumer.puts
        /\ world.version = 2 => UNCHANGED consumer
    BY <1>11 DEF Returned
  <2>4. app'.at # "none" => app.at # "none"
    <3>1. t = "app" => app.at # "none"
      BY <1>11 DEF Returned, Roles, Applying
    <3> QED
      BY <1>11, <3>1 DEF Returned
  <2>5. Telling'
    BY <1>0, <2>3, <2>4, BeginTelling
  <2> QED
    BY <2>1, <2>2, <2>5 DEF Closings
<1>12. CASE AppMoves
  <2>1. Logging'
    BY <1>0, <1>12 DEF Logging, AppMoves, streamVars
  <2>2. \A i \in 1..Len(appQueue') : appQueue'[i] = "disconnect" => stream.closed
    <3>1. CASE UNCHANGED appQueue
      BY <1>0, <3>1 DEF Telling
    <3>2. CASE appQueue # <<>> /\ appQueue' = Tail(appQueue)
      <4>1. /\ Len(appQueue') = Len(appQueue) - 1 /\ Len(appQueue) \in Nat
            /\ \A i \in 1..Len(appQueue') : appQueue'[i] = appQueue[i + 1]
        BY <3>2, HeadTailProperties DEF Types
      <4>2. ASSUME NEW i \in 1..Len(appQueue'), appQueue'[i] = "disconnect"
            PROVE  stream.closed
        <5>1. i + 1 \in 1..Len(appQueue) /\ appQueue[i + 1] = "disconnect"
          BY <4>1, <4>2
        <5> QED
          BY <1>0, <5>1 DEF Telling
      <4> QED
        BY <4>2
    <3> QED
      BY <1>12, <3>1, <3>2 DEF AppMoves
  <2>3. Telling'
    BY <1>0, <1>12, <2>2 DEF Telling, AppMoves, streamVars, queueVars
  <2>4. app'.at \notin Ending /\ app.at \notin Ending
    BY <1>12 DEF AppMoves, Ending
  <2>5. Leaving'
    BY <1>0, <1>12, <2>4, LeavingKept DEF AppMoves, streamVars, queueVars
  <2> QED
    BY <2>1, <2>3, <2>5 DEF Closings
<1>13. CASE UNCHANGED vars
  <2>1. Logging' /\ Telling' /\ Leaving'
    BY <1>0, <1>13 DEF Logging, Telling, Leaving, vars, streamVars, queueVars, appVars
  <2> QED
    BY <2>1 DEF Closings
<1>14. ASSUME NEW e \in {"Body", "EndBody"}, Hands(e, e) /\ UNCHANGED streamVars
       PROVE  Closings'
  BY <1>6, <1>14
<1>15. CASE Hands("StreamClosed", "disconnect") /\ Closes
  BY <1>6, <1>15
<1> QED
  BY <1>1, <1>2, <1>3, <1>4, <1>5, <1>8, <1>9, <1>10, <1>11, <1>12, <1>13, <1>14, <1>15
     DEF Steps

-----------------------------------------------------------------------------
(* The body on its way to a WSGI application.                              *)

Moving == Inputs \cup Given

\* What the application has still to take, wherever it is.
PutOf(c) == IF c.at = "put" THEN <<c.puts>> ELSE <<>>
LeftOf(q) == IF q # <<>> /\ Head(q) = "Request" THEN Tail(q) ELSE q
Coming == appQueue \o (PutOf(consumer) \o LeftOf(queue))

\* It is the chunks that are left, the end of the body if it is there, and the end of
\* the stream.
Shape(g, n, done) ==
    /\ Len(g) >= n + (IF done THEN 1 ELSE 0)
    /\ \A i \in 1..Len(g) :
         /\ i <= n => g[i] = "Body"
         /\ i = n + 1 /\ done => g[i] = "EndBody"
         /\ i > n + (IF done THEN 1 ELSE 0) => g[i] \in {"StreamClosed", "disconnect"}

\* That the application waits for its request or its body.
Awaiting == Fresh \/ app.at = "read"

Conserved ==
    Awaiting =>
        /\ wsgi.size <= client.chunks
        /\ Shape(Coming, client.chunks - wsgi.size, client.done)

(* More of the body, when the stream has not ended.                        *)
LEMMA ShapeGrows ==
    ASSUME NEW g \in Seq(Moving), NEW n \in Nat, Shape(g, n, FALSE),
           \A i \in 1..Len(g) : g[i] \notin {"StreamClosed", "disconnect"},
           NEW e \in Moving, NEW h, h = Append(g, e)
    PROVE  /\ e = "Body" => Shape(h, n + 1, FALSE)
           /\ e = "EndBody" => Shape(h, n, TRUE)
<1>1. /\ Len(h) = Len(g) + 1 /\ Len(g) \in Nat /\ h[Len(g) + 1] = e
      /\ \A i \in 1..Len(g) : h[i] = g[i]
  OBVIOUS
<1>2. Len(g) = n
  <2>1. Len(g) >= n
    BY DEF Shape
  <2>2. Len(g) > n => Len(g) \in 1..Len(g)
    BY <1>1
  <2>3. Len(g) > n => g[Len(g)] \in {"StreamClosed", "disconnect"}
    BY <2>2 DEF Shape
  <2> QED
    BY <1>1, <2>1, <2>2, <2>3
<1>3. \A i \in 1..Len(g) : h[i] = "Body"
  BY <1>1, <1>2 DEF Shape
<1> QED
  BY <1>1, <1>2, <1>3 DEF Shape

(* The end of the stream comes last.                                       *)
LEMMA ShapeEnds ==
    ASSUME NEW g \in Seq(Moving), NEW n \in Nat, NEW done \in BOOLEAN, Shape(g, n, done),
           NEW h, h = Append(g, "StreamClosed")
    PROVE  Shape(h, n, done)
<1>1. "StreamClosed" \in Moving
  BY DEF Moving, Inputs
<1>2. /\ Len(h) = Len(g) + 1 /\ Len(g) \in Nat /\ h[Len(g) + 1] = "StreamClosed"
      /\ \A i \in 1..Len(g) : h[i] = g[i]
  BY <1>1
<1>3. Len(h) >= n + (IF done THEN 1 ELSE 0)
  BY <1>2 DEF Shape
<1>4. ASSUME NEW i \in 1..Len(g)
      PROVE  /\ i <= n => h[i] = "Body"
             /\ i = n + 1 /\ done => h[i] = "EndBody"
             /\ i > n + (IF done THEN 1 ELSE 0) => h[i] \in {"StreamClosed", "disconnect"}
  BY <1>2 DEF Shape
<1>5. Len(g) >= n + (IF done THEN 1 ELSE 0)
  BY DEF Shape
<1>6. ASSUME NEW i, i = Len(g) + 1
      PROVE  ~(i <= n) /\ ~(i = n + 1 /\ done)
  BY <1>2, <1>5, <1>6
<1> QED
  BY <1>2, <1>3, <1>4, <1>6 DEF Shape

(* A chunk at its head is one of those that are left.                      *)
LEMMA ShapeTail ==
    ASSUME NEW g \in Seq(Moving), NEW n \in Nat, NEW done \in BOOLEAN, Shape(g, n, done),
           g # <<>>, Head(g) = "Body", NEW h, h = Tail(g)
    PROVE  n >= 1 /\ Shape(h, n - 1, done)
<1>1. /\ Len(h) = Len(g) - 1 /\ Len(g) \in Nat /\ Len(g) >= 1 /\ g[1] = "Body"
      /\ \A i \in 1..Len(h) : h[i] = g[i + 1]
  BY HeadTailProperties
<1>2. n >= 1
  <2>1. 1 \in 1..Len(g)
    BY <1>1
  <2> QED
    BY <1>1, <2>1 DEF Shape
<1>3. Len(h) >= (n - 1) + (IF done THEN 1 ELSE 0)
  BY <1>1, <1>2 DEF Shape
<1>4. ASSUME NEW i \in 1..Len(h)
      PROVE  /\ i <= n - 1 => h[i] = "Body"
             /\ i = (n - 1) + 1 /\ done => h[i] = "EndBody"
             /\ i > (n - 1) + (IF done THEN 1 ELSE 0) => h[i] \in {"StreamClosed", "disconnect"}
  <2>1. i + 1 \in 1..Len(g) /\ h[i] = g[i + 1]
    BY <1>1
  <2>2. PICK j : j = i + 1
    OBVIOUS
  <2>3. /\ j <= n => g[j] = "Body"
        /\ j = n + 1 /\ done => g[j] = "EndBody"
        /\ j > n + (IF done THEN 1 ELSE 0) => g[j] \in {"StreamClosed", "disconnect"}
    BY <2>1, <2>2 DEF Shape
  <2> QED
    BY <1>1, <1>2, <2>1, <2>2, <2>3
<1> QED
  BY <1>2, <1>3, <1>4 DEF Shape

(* What is at the head, and not a chunk, says whether the body is whole.   *)
LEMMA ShapeHead ==
    ASSUME NEW g \in Seq(Moving), NEW n \in Nat, NEW done \in BOOLEAN, Shape(g, n, done),
           g # <<>>, Head(g) # "Body"
    PROVE  /\ n = 0 /\ (Head(g) = "EndBody" => done)
<1>1. Len(g) \in Nat /\ Len(g) >= 1 /\ g[1] = Head(g) /\ 1 \in 1..Len(g)
  OBVIOUS
<1> QED
  BY <1>1 DEF Shape

(* The end of the stream becomes a disconnect.                             *)
LEMMA ShapeTells ==
    ASSUME NEW g \in Seq(Moving), NEW n \in Nat, NEW done \in BOOLEAN, Shape(g, n, done),
           NEW h \in Seq(Moving), Len(h) = Len(g),
           \A i \in 1..Len(g) : \/ h[i] = g[i]
                                \/ g[i] = "StreamClosed" /\ h[i] = "disconnect"
    PROVE  Shape(h, n, done)
<1>1. Len(g) \in Nat
  OBVIOUS
<1> QED
  BY <1>1 DEF Shape

(* How what is coming changes with its parts.                              *)
LEMMA PartsMove ==
    ASSUME NEW a \in Seq(Moving), NEW q \in Seq(Moving), NEW p \in Seq(Moving),
           NEW x \in Moving, NEW none, none = <<>>, NEW one, one = <<x>>
    PROVE  /\ a \o (p \o Append(q, x)) = Append(a \o (p \o q), x)
           /\ Append(a, x) \o (none \o q) = a \o (one \o q)
           /\ q # <<>> /\ x = Head(q) => a \o (one \o Tail(q)) = a \o (none \o q)
           /\ a # <<>> => Tail(a) \o (p \o q) = Tail(a \o (p \o q))
           /\ a # <<>> => a \o (p \o q) # <<>> /\ Head(a \o (p \o q)) = Head(a)
<1>0. /\ none \in Seq(Moving) /\ Len(none) = 0
      /\ one \in Seq(Moving) /\ Len(one) = 1 /\ one[1] = x
  OBVIOUS
<1>1. a \o (p \o Append(q, x)) = Append(a \o (p \o q), x)
  <2>1. PICK r : r = p \o q
    OBVIOUS
  <2>2. PICK g : g = a \o r
    OBVIOUS
  <2>3. r \in Seq(Moving) /\ g \in Seq(Moving)
    BY <2>1, <2>2, ConcatProperties
  <2>4. Append(q, x) = q \o one
    BY <1>0, AppendIsConcat
  <2>5. p \o (q \o one) = r \o one
    BY <1>0, <2>1, ConcatAssociative
  <2>6. a \o (r \o one) = g \o one
    BY <1>0, <2>2, <2>3, ConcatAssociative
  <2>7. g \o one = Append(g, x)
    BY <1>0, <2>3, AppendIsConcat
  <2> QED
    BY <2>1, <2>2, <2>4, <2>5, <2>6, <2>7
<1>2. Append(a, x) \o (none \o q) = a \o (one \o q)
  <2>1. Append(a, x) = a \o one
    BY <1>0, AppendIsConcat
  <2>2. none \o q = q
    BY ConcatEmptySeq
  <2>3. (a \o one) \o q = a \o (one \o q)
    BY <1>0, ConcatAssociative
  <2> QED
    BY <2>1, <2>2, <2>3
<1>3. ASSUME q # <<>>, x = Head(q)
      PROVE  a \o (one \o Tail(q)) = a \o (none \o q)
  <2>1. /\ Tail(q) \in Seq(Moving) /\ Len(Tail(q)) = Len(q) - 1 /\ Len(q) \in Nat
        /\ Len(q) >= 1 /\ q[1] = x /\ \A i \in 1..Len(Tail(q)) : Tail(q)[i] = q[i + 1]
    BY <1>3, HeadTailProperties
  <2>2. PICK t : t = Tail(q)
    OBVIOUS
  <2>3. PICK g : g = one \o t
    OBVIOUS
  <2>4. /\ g \in Seq(Moving) /\ Len(g) = Len(one) + Len(t)
        /\ \A i \in 1..(Len(one) + Len(t)) : g[i] =
             IF i <= Len(one) THEN one[i] ELSE t[i - Len(one)]
    BY <1>0, <2>1, <2>2, <2>3, ConcatProperties
  <2>5. ASSUME NEW i \in 1..Len(g) PROVE g[i] = q[i]
    <3>1. CASE i = 1
      BY <1>0, <2>1, <2>2, <2>4, <3>1
    <3>2. CASE i > 1
      <4>1. i - 1 \in 1..Len(t) /\ ~(i <= Len(one)) /\ (i - 1) + 1 = i
        BY <1>0, <2>1, <2>2, <2>4, <3>2
      <4>2. g[i] = t[i - 1]
        BY <1>0, <2>4, <4>1
      <4> QED
        BY <2>1, <2>2, <4>1, <4>2
    <3> QED
      BY <3>1, <3>2
  <2>6. g = q
    <3>1. Len(g) = Len(q)
      BY <1>0, <2>1, <2>2, <2>4
    <3> QED
      BY <2>4, <2>5, <3>1, SeqEqual
  <2>7. none \o q = q
    BY ConcatEmptySeq
  <2> QED
    BY <2>2, <2>3, <2>6, <2>7
<1>4. ASSUME a # <<>>
      PROVE  /\ Tail(a) \o (p \o q) = Tail(a \o (p \o q))
             /\ a \o (p \o q) # <<>> /\ Head(a \o (p \o q)) = Head(a)
  <2>1. PICK r : r = p \o q
    OBVIOUS
  <2>2. PICK g : g = a \o r
    OBVIOUS
  <2>3. PICK t : t = Tail(a)
    OBVIOUS
  <2>4. PICK h : h = t \o r
    OBVIOUS
  <2>5. r \in Seq(Moving) /\ Len(r) \in Nat
    BY <2>1, ConcatProperties
  <2>6. /\ t \in Seq(Moving) /\ Len(t) = Len(a) - 1 /\ Len(a) \in Nat /\ Len(a) >= 1
        /\ Head(a) = a[1] /\ \A i \in 1..Len(t) : t[i] = a[i + 1]
    BY <1>4, <2>3, HeadTailProperties
  <2>7. /\ g \in Seq(Moving) /\ Len(g) = Len(a) + Len(r)
        /\ \A i \in 1..(Len(a) + Len(r)) : g[i] = IF i <= Len(a) THEN a[i] ELSE r[i - Len(a)]
    BY <2>2, <2>5, ConcatProperties
  <2>8. /\ h \in Seq(Moving) /\ Len(h) = Len(t) + Len(r)
        /\ \A i \in 1..(Len(t) + Len(r)) : h[i] = IF i <= Len(t) THEN t[i] ELSE r[i - Len(t)]
    BY <2>4, <2>5, <2>6, ConcatProperties
  <2>9. g # <<>> /\ Head(g) = Head(a)
    <3>1. Len(g) >= 1 /\ g[1] = a[1]
      BY <2>5, <2>6, <2>7
    <3> QED
      BY <2>6, <2>7, <3>1
  <2>10. PICK u : u = Tail(g)
    OBVIOUS
  <2>11. /\ u \in Seq(Moving) /\ Len(u) = Len(g) - 1
         /\ \A i \in 1..Len(u) : u[i] = g[i + 1]
    BY <2>7, <2>9, <2>10, HeadTailProperties
  <2>12. ASSUME NEW i \in 1..Len(h) PROVE h[i] = u[i]
    <3>1. /\ i \in 1..Len(u) /\ i + 1 \in 1..(Len(a) + Len(r)) /\ i \in 1..(Len(t) + Len(r))
          /\ (i <= Len(t) <=> i + 1 <= Len(a)) /\ i - Len(t) = (i + 1) - Len(a)
          /\ (i <= Len(t) => i \in 1..Len(t))
      BY <2>5, <2>6, <2>7, <2>8, <2>11
    <3>2. u[i] = IF i + 1 <= Len(a) THEN a[i + 1] ELSE r[(i + 1) - Len(a)]
      BY <2>7, <2>11, <3>1
    <3>3. h[i] = IF i <= Len(t) THEN t[i] ELSE r[i - Len(t)]
      BY <2>8, <3>1
    <3> QED
      BY <2>6, <3>1, <3>2, <3>3
  <2>13. h = u
    <3>1. Len(h) = Len(u)
      BY <2>5, <2>6, <2>7, <2>8, <2>11
    <3> QED
      BY <2>8, <2>11, <2>12, <3>1, SeqEqual
  <2> QED
    BY <2>1, <2>2, <2>3, <2>4, <2>9, <2>10, <2>13
<1> QED
  BY <1>1, <1>2, <1>3, <1>4

(* What is left in the queue, when it grows and when its head is taken.    *)
LEMMA LeftMoves ==
    ASSUME NEW q \in Seq(Inputs), \A i \in 2..Len(q) : q[i] # "Request",
           NEW e \in Inputs \ {"Request"}
    PROVE  /\ LeftOf(q) \in Seq(Moving) /\ e \in Moving
           /\ \A i \in 1..Len(LeftOf(q)) : LeftOf(q)[i] = "StreamClosed"
                                             => \E j \in 1..Len(q) : q[j] = "StreamClosed"
           /\ LeftOf(Append(q, e)) = Append(LeftOf(q), e)
           /\ q # <<>> /\ Head(q) = "Request" => LeftOf(Tail(q)) = LeftOf(q)
           /\ q # <<>> /\ Head(q) # "Request" =>
                /\ LeftOf(q) = q /\ LeftOf(Tail(q)) = Tail(q)
                /\ Tail(q) \in Seq(Moving) /\ Head(q) \in Moving
<1>1. /\ Len(q) \in Nat /\ e \in Moving /\ e # "Request"
      /\ q # <<>> => Len(q) >= 1 /\ Head(q) = q[1] /\ Tail(q) \in Seq(Inputs)
                     /\ Len(Tail(q)) = Len(q) - 1
                     /\ \A i \in 1..Len(Tail(q)) : Tail(q)[i] = q[i + 1]
  BY HeadTailProperties DEF Moving, Inputs
<1>2. ASSUME NEW s \in Seq(Inputs), \A i \in 1..Len(s) : s[i] # "Request"
      PROVE  s \in Seq(Moving)
  BY SeqMonotonic DEF Moving
<1>3. CASE q # <<>> /\ Head(q) = "Request"
  <2>1. PICK r : r = Tail(q)
    OBVIOUS
  <2>2. \A i \in 1..Len(r) : r[i] # "Request" /\ i + 1 \in 1..Len(q) /\ r[i] = q[i + 1]
    BY <1>1, <1>3, <2>1
  <2>3. r \in Seq(Moving)
    BY <1>1, <1>2, <1>3, <2>1, <2>2
  <2>4. LeftOf(r) = r
    <3>1. r # <<>> => Head(r) = r[1] /\ 1 \in 1..Len(r)
      BY <2>3
    <3> QED
      BY <2>2, <3>1 DEF LeftOf
  <2>5. LeftOf(q) = r
    BY <1>3, <2>1 DEF LeftOf
  <2>6. LeftOf(Append(q, e)) = Append(r, e)
    <3>1. /\ Head(Append(q, e)) = Head(q) /\ Tail(Append(q, e)) = Append(Tail(q), e)
          /\ Append(q, e) # <<>>
      BY <1>3, HeadTailAppend, AppendProperties
    <3> QED
      BY <1>3, <2>1, <3>1 DEF LeftOf
  <2> QED
    BY <1>1, <1>3, <2>1, <2>2, <2>3, <2>4, <2>5, <2>6
<1>4. CASE ~(q # <<>> /\ Head(q) = "Request")
  <2>1. LeftOf(q) = q
    BY <1>4 DEF LeftOf
  <2>2. \A i \in 1..Len(q) : q[i] # "Request"
    BY <1>1, <1>4
  <2>3. q \in Seq(Moving)
    BY <1>2, <2>2
  <2>4. LeftOf(Append(q, e)) = Append(q, e)
    <3>1. Head(Append(q, e)) = IF q = <<>> THEN e ELSE Head(q)
      BY HeadTailAppend
    <3> QED
      BY <1>1, <1>4, <3>1 DEF LeftOf
  <2>5. ASSUME q # <<>>
        PROVE  LeftOf(Tail(q)) = Tail(q) /\ Tail(q) \in Seq(Moving) /\ Head(q) \in Moving
    <3>1. PICK r : r = Tail(q)
      OBVIOUS
    <3>2. /\ r \in Seq(Moving) /\ Head(q) \in Moving
          /\ \A i \in 1..Len(r) : r[i] = q[i + 1] /\ i + 1 \in 1..Len(q)
      BY <1>1, <2>3, <2>5, <3>1, HeadTailProperties
    <3>3. r # <<>> => Head(r) = r[1] /\ 1 \in 1..Len(r)
      BY <3>2
    <3>4. LeftOf(r) = r
      BY <2>2, <3>2, <3>3 DEF LeftOf
    <3> QED
      BY <3>1, <3>2, <3>4
  <2> QED
    BY <1>1, <1>4, <2>1, <2>3, <2>4, <2>5
<1> QED
  BY <1>3, <1>4

(* What is coming is a sequence of messages.                               *)
LEMMA ComingTypes ==
    ASSUME Types, Roles
    PROVE  /\ appQueue \in Seq(Moving) /\ PutOf(consumer) \in Seq(Moving)
           /\ LeftOf(queue) \in Seq(Moving) /\ Coming \in Seq(Moving)
<1>1. appQueue \in Seq(Moving)
  <2>1. appQueue \in Seq(Given) /\ Given \subseteq Moving
    BY DEF Types, Moving
  <2> QED
    BY <2>1, SeqMonotonic
<1>2. PutOf(consumer) \in Seq(Moving)
  <2>1. consumer.at = "put" => consumer.puts \in Moving
    BY DEF Types, Consumers, Roles, Consuming, Moving
  <2>2. <<>> \in Seq(Moving)
    BY EmptySeq
  <2>3. consumer.at = "put" => <<consumer.puts>> \in Seq(Moving)
    BY <2>1
  <2> QED
    BY <2>2, <2>3 DEF PutOf
<1>3. LeftOf(queue) \in Seq(Moving)
  <2>1. queue \in Seq(Inputs) /\ \A i \in 2..Len(queue) : queue[i] # "Request"
    BY DEF Types, Roles, Opening
  <2>2. "Body" \in Inputs \ {"Request"}
    BY DEF Inputs
  <2> QED
    BY <2>1, <2>2, LeftMoves
<1>4. PICK r : r = PutOf(consumer) \o LeftOf(queue)
  OBVIOUS
<1>5. r \in Seq(Moving)
  BY <1>2, <1>3, <1>4, ConcatProperties
<1>6. appQueue \o r \in Seq(Moving)
  BY <1>1, <1>5, ConcatProperties
<1> QED
  BY <1>1, <1>2, <1>3, <1>4, <1>6 DEF Coming

(* What is coming grows with the queue.                                    *)
LEMMA ComingGrows ==
    ASSUME Types, Roles, NEW e \in Inputs \ {"Request"}, queue' = Append(queue, e),
           UNCHANGED <<consumer, appQueue>>
    PROVE  Coming' = Append(Coming, e) /\ e \in Moving
<1>1. PICK a : a = appQueue
  OBVIOUS
<1>2. PICK p : p = PutOf(consumer)
  OBVIOUS
<1>3. PICK q : q = LeftOf(queue)
  OBVIOUS
<1>4. a \in Seq(Moving) /\ p \in Seq(Moving) /\ q \in Seq(Moving)
  BY <1>1, <1>2, <1>3, ComingTypes
<1>5. LeftOf(queue') = Append(q, e) /\ e \in Moving
  <2>1. queue \in Seq(Inputs) /\ \A i \in 2..Len(queue) : queue[i] # "Request"
    BY DEF Types, Roles, Opening
  <2> QED
    BY <1>3, <2>1, LeftMoves
<1>6. a \o (p \o Append(q, e)) = Append(a \o (p \o q), e)
  BY <1>4, <1>5, PartsMove
<1>7. Coming' = appQueue' \o (PutOf(consumer') \o LeftOf(queue'))
  BY DEF Coming
<1> QED
  BY <1>1, <1>2, <1>3, <1>5, <1>6, <1>7 DEF Coming

(* Before the stream is told of its end, none is coming.                   *)
LEMMA NoneComing ==
    ASSUME Types, Roles, Closings, known, Fresh \/ app.at = "read"
    PROVE  \A i \in 1..Len(Coming) : Coming[i] \notin {"StreamClosed", "disconnect"}
<1>1. PICK S : S = Moving \ {"StreamClosed", "disconnect"}
  OBVIOUS
<1>2. ~stream.closed
  BY DEF Roles, Opening, Closings, Telling, Fresh
<1>3. appQueue \in Seq(S)
  <2>1. PICK a : a = appQueue
    OBVIOUS
  <2>2. a \in Seq(Given) /\ \A i \in 1..Len(a) : a[i] # "disconnect"
    BY <1>2, <2>1 DEF Types, Closings, Telling
  <2>3. \A i \in 1..Len(a) : a[i] \in S
    BY <1>1, <2>2, ElementOfSeq DEF Given, Moving, Inputs
  <2> QED
    BY <2>1, <2>2, <2>3
<1>4. PutOf(consumer) \in Seq(S)
  <2>1. consumer.at = "put" => consumer.puts \in S
    BY <1>1, <1>2
       DEF Types, Consumers, Roles, Consuming, Given, Moving, Inputs, Closings, Telling
  <2>2. <<>> \in Seq(S)
    BY EmptySeq
  <2>3. consumer.at = "put" => <<consumer.puts>> \in Seq(S)
    BY <2>1
  <2> QED
    BY <2>2, <2>3 DEF PutOf
<1>5. LeftOf(queue) \in Seq(S)
  <2>1. /\ queue \in Seq(Inputs) /\ \A i \in 2..Len(queue) : queue[i] # "Request"
        /\ \A i \in 1..Len(queue) : queue[i] # "StreamClosed"
    BY DEF Types, Roles, Opening, Closings, Telling
  <2>2. "Body" \in Inputs \ {"Request"}
    BY DEF Inputs
  <2>3. PICK q : q = LeftOf(queue)
    OBVIOUS
  <2>4. q \in Seq(Moving) /\ \A i \in 1..Len(q) : q[i] # "StreamClosed"
    BY <2>1, <2>2, <2>3, LeftMoves
  <2>5. q \in Seq(Inputs)
    <3>1. Len(queue) \in Nat /\ (queue # <<>> => Tail(queue) \in Seq(Inputs))
      BY <2>1, HeadTailProperties
    <3> QED
      BY <2>1, <2>3, <3>1 DEF LeftOf
  <2>6. \A i \in 1..Len(q) : q[i] \in S
    BY <1>1, <2>4, <2>5, ElementOfSeq DEF Moving, Inputs
  <2> QED
    BY <2>3, <2>5, <2>6
<1>6. PICK r : r = PutOf(consumer) \o LeftOf(queue)
  OBVIOUS
<1>7. r \in Seq(S)
  BY <1>4, <1>5, <1>6, ConcatProperties
<1>8. appQueue \o r \in Seq(S)
  BY <1>3, <1>7, ConcatProperties
<1>9. Coming \in Seq(S)
  BY <1>6, <1>8 DEF Coming
<1> QED
  BY <1>1, <1>9, ElementOfSeq

(* What the consumer hands over stays on its way.                          *)
LEMMA ComingHanded ==
    ASSUME Types, Roles, NEW e \in {"Body", "EndBody", "StreamClosed"}, NEW m \in Given,
           Take(e), queue' = Tail(queue), UNCHANGED appQueue,
           consumer'.at = "put", consumer'.puts = m, e = "StreamClosed" => Len(queue) = 1,
           e # "StreamClosed" => m = e
    PROVE  /\ e # "StreamClosed" => Coming' = Coming
           /\ e = "StreamClosed" => \E a \in Seq(Moving) :
                Coming = Append(a, e) /\ Coming' = Append(a, m)
<1>1. PICK a : a = appQueue
  OBVIOUS
<1>2. PICK q : q = queue
  OBVIOUS
<1>3. PICK t : t = Tail(q)
  OBVIOUS
<1>4. PICK none : none = <<>>
  OBVIOUS
<1>5. /\ a \in Seq(Moving) /\ none \in Seq(Moving) /\ e \in Moving /\ m \in Moving
  BY <1>1, <1>4, ComingTypes, EmptySeq DEF Moving, Inputs, Given
<1>6. /\ q # <<>> /\ Head(q) = e /\ LeftOf(q) = q /\ LeftOf(t) = t /\ t \in Seq(Moving)
      /\ q \in Seq(Moving)
  <2>1. queue \in Seq(Inputs) /\ \A i \in 2..Len(queue) : queue[i] # "Request"
    BY DEF Types, Roles, Opening
  <2>2. "Body" \in Inputs \ {"Request"} /\ e # "Request"
    BY DEF Inputs
  <2>3. q # <<>> /\ Head(q) = e
    BY <1>2 DEF Take
  <2> QED
    BY <1>2, <1>3, <2>1, <2>2, <2>3, LeftMoves
<1>7. PutOf(consumer) = none /\ PutOf(consumer') = <<m>>
  BY <1>4 DEF Take, PutOf
<1>8. Coming = a \o (none \o q)
  BY <1>1, <1>2, <1>6, <1>7 DEF Coming
<1>9. Coming' = a \o (<<m>> \o t)
  <2>1. Coming' = appQueue' \o (PutOf(consumer') \o LeftOf(queue'))
    BY DEF Coming
  <2> QED
    BY <1>1, <1>2, <1>3, <1>6, <1>7, <2>1
<1>10. PICK one : one = <<e>>
  OBVIOUS
<1>11. a \o (one \o t) = a \o (none \o q)
  BY <1>3, <1>4, <1>5, <1>6, <1>10, PartsMove
<1>12. e # "StreamClosed" => Coming' = Coming
  BY <1>8, <1>9, <1>10, <1>11
<1>13. ASSUME e = "StreamClosed"
       PROVE  Coming = Append(a, e) /\ Coming' = Append(a, m)
  <2>1. t = none
    <3>1. Len(t) = 0
      <4>1. q \in Seq(Inputs) /\ Len(q) = 1
        BY <1>2, <1>13 DEF Types
      <4> QED
        BY <1>3, <1>6, <4>1, HeadTailProperties
    <3> QED
      BY <1>4, <1>6, <3>1, EmptySeq
  <2>2. PICK two : two = <<m>>
    OBVIOUS
  <2>3. Append(a, e) \o (none \o none) = a \o (one \o none)
    BY <1>4, <1>5, <1>10, PartsMove
  <2>4. Append(a, m) \o (none \o none) = a \o (two \o none)
    BY <1>4, <1>5, <2>2, PartsMove
  <2>5. none \o none = none
    BY <1>4, <1>5, ConcatEmptySeq
  <2>6. Append(a, e) \o none = Append(a, e) /\ Append(a, m) \o none = Append(a, m)
    <3>1. Append(a, e) \in Seq(Moving) /\ Append(a, m) \in Seq(Moving)
      BY <1>5, AppendProperties
    <3> QED
      BY <1>4, <3>1, ConcatEmptySeq
  <2> QED
    BY <1>8, <1>9, <1>11, <2>1, <2>2, <2>3, <2>4, <2>5, <2>6
<1> QED
  BY <1>5, <1>12, <1>13

(* Nobody awaits what a task of the consumer's or the application's does.  *)
LEMMA AwaitsReader ==
    ASSUME Types, Roles
    PROVE  /\ \A list : ~(Messaged(list) /\ Awaiting')
           /\ \A list : \A next \in {"ending", "failed again"} :
                ~(Ended(list, next) /\ app.at \in {"returned", "failed", "failed again"}
                   /\ Awaiting')
           /\ ~(Over /\ Awaiting')
           /\ \A t \in {"consumer", "app"} : \A l, list : ~(Returned(t, l, list) /\ Awaiting')
           /\ ~(RefusedIt /\ Awaiting')
           /\ ~(Refuses /\ Awaiting')
<1>0. /\ Opening /\ Consuming /\ Applying
      /\ queue \in Seq(Inputs) /\ \A i \in 2..Len(queue) : queue[i] # "Request"
  BY DEF Types, Roles, Opening
<1>1. ASSUME NEW list, Messaged(list), Awaiting' PROVE FALSE
  <2>1. app.at \notin {"none", "read"}
    BY <1>0, <1>1 DEF Messaged, Applying
  <2>2. ~Fresh
    BY <1>0, <2>1 DEF Opening
  <2>3. ~Fresh'
    BY <1>0, <1>1, <2>2, BeginFresh DEF Messaged, Called
  <2> QED
    BY <1>1, <2>1, <2>3 DEF Messaged, Awaiting
<1>2. ASSUME NEW list, NEW next \in {"ending", "failed again"}, Ended(list, next),
             app.at \in {"returned", "failed", "failed again"}, Awaiting'
      PROVE  FALSE
  <2>1. ~Fresh
    BY <1>0, <1>2 DEF Opening
  <2>2. ~Fresh'
    BY <1>0, <1>2, <2>1, BeginFresh DEF Ended, Called
  <2> QED
    BY <1>2, <2>2 DEF Ended, Awaiting
<1>3. ASSUME Over, Awaiting' PROVE FALSE
  <2>1. ~Fresh
    BY <1>0, <1>3 DEF Opening, Over, Idle
  <2> QED
    BY <1>3, <2>1 DEF Over, Awaiting, queueVars, Fresh
<1>4. ASSUME NEW t \in {"consumer", "app"}, NEW l, NEW list, Returned(t, l, list), Awaiting'
      PROVE  FALSE
  <2>1. ops[t] # <<>> /\ Begin(list)
    BY <1>4 DEF Returned
  <2>2. ~Fresh
    BY <1>0, <2>1 DEF Opening, Applying
  <2>3. ~Fresh'
    BY <1>0, <2>1, <2>2, BeginFresh
  <2>4. app'.at = "read"
    BY <1>4, <2>3 DEF Awaiting
  <2>5. app.at = "read"
    BY <1>4, <2>4 DEF Returned
  <2> QED
    BY <1>0, <2>1, <2>5 DEF Consuming, Applying
<1>5. ASSUME RefusedIt, Awaiting' PROVE FALSE
  <2>1. app.at = "none" /\ ~Fresh
    BY <1>0, <1>5 DEF RefusedIt, Opening, Consuming
  <2> QED
    BY <1>5, <2>1 DEF RefusedIt, Awaiting, queueVars, appVars, Fresh
<1>6. ASSUME Refuses, Awaiting' PROVE FALSE
  <2>1. Fresh /\ queue # <<>>
    BY <1>6 DEF Refuses, Take, Fresh
  <2>2. app.at = "none" /\ ~Fresh'
    BY <1>0, <1>6, <2>1, QueueShrinks DEF Opening, Refuses
  <2> QED
    BY <1>6, <2>2 DEF Refuses, Awaiting, appVars
<1> QED
  BY <1>1, <1>2, <1>3, <1>4, <1>5, <1>6

(* What a message that is read leaves coming.                              *)
LEMMA ComingRead ==
    ASSUME Types, Roles, appQueue # <<>>, appQueue' = Tail(appQueue),
           UNCHANGED <<consumer, queue>>
    PROVE  Coming # <<>> /\ Head(Coming) = Head(appQueue) /\ Coming' = Tail(Coming)
<1>1. PICK a : a = appQueue
  OBVIOUS
<1>2. PICK p : p = PutOf(consumer)
  OBVIOUS
<1>3. PICK q : q = LeftOf(queue)
  OBVIOUS
<1>4. a \in Seq(Moving) /\ p \in Seq(Moving) /\ q \in Seq(Moving) /\ "Body" \in Moving
  BY <1>1, <1>2, <1>3, ComingTypes DEF Moving, Inputs
<1>5. /\ Tail(a) \o (p \o q) = Tail(a \o (p \o q))
      /\ a \o (p \o q) # <<>> /\ Head(a \o (p \o q)) = Head(a)
  BY <1>1, <1>4, PartsMove
<1>6. Coming' = appQueue' \o (PutOf(consumer') \o LeftOf(queue'))
  BY DEF Coming
<1> QED
  BY <1>1, <1>2, <1>3, <1>5, <1>6 DEF Coming

\* What Read does.
Reads ==
    LET message == Head(appQueue)
        size == wsgi.size + (IF message = "Body" THEN 1 ELSE 0)
    IN
    /\ app.at = "read" /\ appQueue # <<>> /\ appQueue' = Tail(appQueue)
    /\ wsgi'.size = size /\ (wsgi'.whole <=> message = "EndBody")
    /\ app'.at = "read" => message = "Body"
    /\ app'.at = "thread" => message # "Body" /\ size <= MaxBodySize

(* It reads one message, and goes on unless that is a chunk.               *)
LEMMA ReadDoes ==
    ASSUME Types, Read
    PROVE  Reads
<1>0. app \in Apps /\ wsgi \in Wsgis /\ app.at = "read"
  BY DEF Types, Read, AppAlone, Idle
<1>1. PICK message : message = Head(appQueue)
  OBVIOUS
<1>2. PICK size : size = wsgi.size + (IF message = "Body" THEN 1 ELSE 0)
  OBVIOUS
<1>3. /\ appQueue # <<>> /\ appQueue' = Tail(appQueue)
      /\ wsgi' = [wsgi EXCEPT !.size = size, !.whole = message = "EndBody"]
      /\ \/ app' = [app EXCEPT !.at = "returned", !.calls = <<Start(FALSE), LastBody>>]
         \/ size <= MaxBodySize /\ message = "Body" /\ UNCHANGED app
         \/ size <= MaxBodySize /\ message # "Body" /\ app' = [app EXCEPT !.at = "thread"]
  BY <1>1, <1>2 DEF Read
<1>4. wsgi'.size = size /\ (wsgi'.whole <=> message = "EndBody")
  BY <1>0, <1>3 DEF Wsgis
<1>5. PICK c : c = <<Start(FALSE), LastBody>>
  OBVIOUS
<1>6. \/ app'.at = "returned"
      \/ size <= MaxBodySize /\ message = "Body" /\ app'.at = "read"
      \/ size <= MaxBodySize /\ message # "Body" /\ app'.at = "thread"
  <2>1. PICK S : S = Seq(Messages)
    OBVIOUS
  <2>2. app \in [at : Places, calls : S, sent : 0..MaxMessages]
    BY <1>0, <2>1 DEF Apps
  <2> QED
    BY <1>0, <1>3, <1>5, <2>2
<1> QED
  BY <1>0, <1>1, <1>2, <1>3, <1>4, <1>6 DEF Reads

(* Every step keeps what is coming.                                        *)
LEMMA StepConserved ==
    ASSUME Types, Roles, Closings, Conserved, Steps
    PROVE  Conserved'
<1>0. /\ Opening /\ Consuming /\ Applying
      /\ queue \in Seq(Inputs) /\ \A i \in 2..Len(queue) : queue[i] # "Request"
      /\ Coming \in Seq(Moving) /\ client.chunks \in Nat /\ client.done \in BOOLEAN
      /\ wsgi.size \in Nat
  BY ComingTypes, HttpStreamAssumption DEF Types, Roles, Opening, Clients, Wsgis
<1>1. PICK g : g = Coming
  OBVIOUS
<1>2. PICK n : n = client.chunks - wsgi.size
  OBVIOUS
<1>3. PICK done : done = client.done
  OBVIOUS
<1>4. Awaiting => n \in Nat /\ wsgi.size <= client.chunks /\ Shape(g, n, done)
  BY <1>0, <1>1, <1>2, <1>3 DEF Conserved
<1>5. g \in Seq(Moving) /\ done \in BOOLEAN
  BY <1>0, <1>1, <1>3
<1>6. ASSUME NEW h, h = Coming', Awaiting' => Awaiting, Awaiting => Shape(h, n, done),
             UNCHANGED <<client, wsgi>>
      PROVE  Conserved'
  BY <1>0, <1>2, <1>3, <1>4, <1>6 DEF Conserved
<1>7. ASSUME NEW e, Arrives(e) PROVE Conserved'
  <2>1. e \in Inputs \ {"Request"} /\ e \in Moving
    BY <1>7 DEF Arrives, Inputs, Moving
  <2>2. Coming' = Append(g, e)
    BY <1>1, <1>7, <2>1, ComingGrows DEF Arrives
  <2>3. PICK h : h = Append(g, e)
    OBVIOUS
  <2>4. Awaiting' => Awaiting
    <3>1. Fresh' <=> Fresh
      BY <1>0, <1>7, <2>1, QueueGrows DEF Arrives
    <3> QED
      BY <1>7, <3>1 DEF Arrives, appVars, Awaiting
  <2>5. Awaiting => \A i \in 1..Len(g) : g[i] \notin {"StreamClosed", "disconnect"}
    BY <1>1, <1>7, NoneComing DEF Arrives, Awaiting
  <2>6. ~done
    BY <1>3, <1>7 DEF Arrives
  <2>7. Awaiting => /\ e = "Body" => Shape(h, n + 1, FALSE)
                    /\ e = "EndBody" => Shape(h, n, TRUE)
    <3>1. ASSUME Awaiting PROVE n \in Nat /\ Shape(g, n, FALSE)
      BY <1>4, <1>5, <2>6, <3>1
    <3> QED
      BY <1>5, <2>1, <2>3, <2>5, <3>1, ShapeGrows
  <2>8. CASE e = "Body"
    <3>1. client'.chunks = client.chunks + 1 /\ client'.done = FALSE /\ UNCHANGED wsgi
      BY <1>7, <2>8 DEF Arrives, appVars, Clients
    <3>2. client'.chunks - wsgi'.size = n + 1
      BY <1>0, <1>2, <3>1
    <3>3. Awaiting' => wsgi'.size <= client'.chunks
      BY <1>0, <1>4, <2>4, <3>1
    <3>4. Awaiting' => Shape(Coming', n + 1, client'.done)
      BY <2>2, <2>3, <2>4, <2>7, <2>8, <3>1, Zenon
    <3> QED
      BY <3>2, <3>3, <3>4 DEF Conserved
  <2>9. CASE e = "EndBody"
    <3>1. client'.chunks = client.chunks /\ client'.done = TRUE /\ UNCHANGED wsgi
      BY <1>7, <2>9 DEF Arrives, appVars, Clients
    <3>2. client'.chunks - wsgi'.size = n
      BY <1>2, <3>1
    <3>3. Awaiting' => wsgi'.size <= client'.chunks /\ Shape(Coming', n, client'.done)
      BY <1>0, <1>4, <2>2, <2>3, <2>4, <2>7, <2>9, <3>1
    <3> QED
      BY <3>2, <3>3 DEF Conserved
  <2> QED
    BY <1>7, <2>8, <2>9 DEF Arrives
<1>8. CASE Breaks
  <2>1. PICK item : Tells(item)
    BY <1>8 DEF Breaks
  <2>2. (Fresh' <=> Fresh) /\ (UNCHANGED queue \/ queue' = Append(queue, "StreamClosed"))
    BY <1>0, <2>1, ToldOnce
  <2>3. /\ Awaiting' => Awaiting
        /\ UNCHANGED <<client, wsgi, consumer, appQueue>>
    BY <1>8, <2>2 DEF Breaks, appVars, Awaiting
  <2>4. CASE UNCHANGED queue
    <3>1. Coming' = g
      BY <1>1, <2>3, <2>4 DEF Coming
    <3> QED
      BY <1>4, <1>6, <2>3, <3>1
  <2>5. CASE queue' = Append(queue, "StreamClosed")
    <3>1. PICK h : h = Append(g, "StreamClosed")
      OBVIOUS
    <3>2. "StreamClosed" \in Inputs \ {"Request"}
      BY DEF Inputs
    <3>3. Coming' = h
      BY <1>1, <2>3, <2>5, <3>1, <3>2, ComingGrows
    <3>4. Awaiting => Shape(h, n, done)
      BY <1>4, <1>5, <3>1, ShapeEnds
    <3> QED
      BY <1>6, <2>3, <3>3, <3>4
  <2> QED
    BY <2>2, <2>4, <2>5
<1>9. CASE Serves
  <2>1. Fresh /\ queue # <<>> /\ Head(queue) = "Request"
    BY <1>9 DEF Serves, Take, Fresh
  <2>2. LeftOf(queue') = LeftOf(queue)
    <3>1. "Body" \in Inputs \ {"Request"}
      BY DEF Inputs
    <3> QED
      BY <1>0, <1>9, <2>1, <3>1, LeftMoves DEF Serves
  <2>3. Coming' = g
    BY <1>1, <1>9, <2>2 DEF Coming, Serves
  <2> QED
    BY <1>4, <1>6, <1>9, <2>1, <2>3 DEF Serves, Awaiting
<1>10. CASE PutsIt
  <2>1. PICK a : a = appQueue
    OBVIOUS
  <2>2. PICK q : q = LeftOf(queue)
    OBVIOUS
  <2>3. PICK x : x = consumer.puts
    OBVIOUS
  <2>4. PICK one : one = <<x>>
    OBVIOUS
  <2>5. PICK none : none = <<>>
    OBVIOUS
  <2>6. a \in Seq(Moving) /\ q \in Seq(Moving) /\ none \in Seq(Moving) /\ x \in Moving
    <3>1. x \in Given
      BY <1>0, <1>10, <2>3 DEF PutsIt, Consuming, Types, Consumers
    <3> QED
      BY <2>1, <2>2, <2>5, <3>1, ComingTypes, EmptySeq DEF Moving
  <2>7. g = a \o (one \o q)
    BY <1>1, <1>10, <2>1, <2>2, <2>3, <2>4 DEF Coming, PutOf, PutsIt
  <2>8. Coming' = Append(a, x) \o (none \o q)
    <3>1. appQueue' = Append(a, x) /\ UNCHANGED queue /\ consumer'.at # "put"
      BY <1>10, <2>1, <2>3 DEF PutsIt, queueVars
    <3>2. PutOf(consumer') = none /\ LeftOf(queue') = q
      BY <2>2, <2>5, <3>1 DEF PutOf
    <3>3. Coming' = appQueue' \o (PutOf(consumer') \o LeftOf(queue'))
      BY DEF Coming
    <3> QED
      BY <3>1, <3>2, <3>3
  <2>9. Coming' = g
    BY <2>4, <2>5, <2>6, <2>7, <2>8, PartsMove
  <2>10. (Awaiting' => Awaiting) /\ UNCHANGED <<client, wsgi>>
    BY <1>10 DEF PutsIt, queueVars, appVars, Awaiting, Fresh
  <2> QED
    BY <1>4, <1>6, <2>9, <2>10
<1>11. ASSUME NEW e \in {"Body", "EndBody", "StreamClosed"}, NEW m \in Given, Hands(e, m),
              e # "StreamClosed" => m = e, e = "StreamClosed" => m = "disconnect"
       PROVE  Conserved'
  <2>1. /\ queue # <<>> /\ Head(queue) = e /\ ~Fresh /\ Len(queue) \in Nat
        /\ Len(queue) >= 1 /\ queue[1] = e /\ ~Fresh'
    BY <1>0, <1>11, QueueShrinks DEF Hands, Take, Fresh
  <2>2. Awaiting' => app.at = "read"
    BY <1>11, <2>1 DEF Hands, appVars, Awaiting
  <2>3. e = "StreamClosed" => Len(queue) = 1
    <3>1. 1 \in 1..Len(queue)
      BY <2>1
    <3> QED
      BY <2>1, <3>1 DEF Closings, Telling
  <2>4. ASSUME app.at = "read"
        PROVE  Conserved'
    <3>1. ~stream.closed
      BY <2>1, <2>4 DEF Closings, Telling
    <3>2. consumer'.at = "put" /\ consumer'.puts = m /\ Take(e) /\ queue' = Tail(queue)
          /\ UNCHANGED <<client, wsgi, appQueue>>
      BY <1>11, <2>4, <3>1 DEF Hands, appVars
    <3>3. CASE e # "StreamClosed"
      <4>1. Coming' = g
        BY <1>1, <1>11, <2>3, <3>2, <3>3, ComingHanded
      <4> QED
        BY <1>4, <1>6, <2>4, <3>2, <4>1 DEF Awaiting
    <3>4. CASE e = "StreamClosed"
      <4>1. PICK a \in Seq(Moving) : g = Append(a, "StreamClosed")
                                     /\ Coming' = Append(a, "disconnect")
        BY <1>1, <1>11, <2>3, <3>2, <3>4, ComingHanded
      <4>2. PICK h : h = Append(a, "disconnect")
        OBVIOUS
      <4>3. /\ h \in Seq(Moving) /\ Len(h) = Len(g)
            /\ \A i \in 1..Len(g) : \/ h[i] = g[i]
                                    \/ g[i] = "StreamClosed" /\ h[i] = "disconnect"
        <5>1. "StreamClosed" \in Moving /\ "disconnect" \in Moving
          BY DEF Moving, Inputs, Given
        <5> QED
          BY <4>1, <4>2, <5>1
      <4>4. Awaiting => Shape(h, n, done)
        BY <1>4, <1>5, <4>3, ShapeTells
      <4> QED
        BY <1>6, <2>4, <3>2, <4>1, <4>2, <4>4 DEF Awaiting
    <3> QED
      BY <3>3, <3>4
  <2> QED
    BY <2>2, <2>4 DEF Conserved
<1>12. CASE AppMoves
  <2>1. ~Fresh /\ ~Fresh' /\ UNCHANGED <<client, queue, consumer>> /\ Opening
    BY <1>0, <1>12 DEF AppMoves, Opening, queueVars, Fresh
  <2>2. ASSUME app'.at = "read"
        PROVE  Conserved'
    <3>1. Read
      BY <1>12, <2>2 DEF AppMoves
    <3>2. /\ app.at = "read" /\ appQueue # <<>> /\ appQueue' = Tail(appQueue)
          /\ wsgi'.size = wsgi.size + 1 /\ Head(appQueue) = "Body"
      BY <2>2, <3>1, ReadDoes DEF Reads
    <3>3. PICK h : h = Tail(g)
      OBVIOUS
    <3>4. g # <<>> /\ Head(g) = "Body" /\ Coming' = h
      BY <1>1, <2>1, <3>2, <3>3, ComingRead
    <3>5. n \in Nat /\ wsgi.size <= client.chunks /\ Shape(g, n, done)
      BY <1>4, <3>2 DEF Awaiting
    <3>6. n >= 1 /\ Shape(h, n - 1, done)
      BY <1>5, <3>3, <3>4, <3>5, ShapeTail
    <3>7. client'.chunks - wsgi'.size = n - 1 /\ wsgi'.size <= client'.chunks
          /\ client'.done = done
      BY <1>0, <1>2, <1>3, <2>1, <3>2, <3>6
    <3> QED
      BY <3>4, <3>6, <3>7 DEF Conserved
  <2> QED
    BY <2>1, <2>2 DEF Conserved, Awaiting
<1>13. CASE UNCHANGED vars
  <2>1. Coming' = g
    BY <1>1, <1>13 DEF vars, queueVars, appVars, streamVars, Coming
  <2> QED
    BY <1>4, <1>6, <1>13, <2>1 DEF vars, queueVars, appVars, streamVars, Awaiting, Fresh
<1>14. ASSUME ~Awaiting' PROVE Conserved'
  BY <1>14 DEF Conserved
<1>15. "StreamClosed" \in {"Body", "EndBody", "StreamClosed"} /\ "disconnect" \in Given
       /\ {"Body", "EndBody"} \subseteq Given
  BY DEF Given
<1> QED
  BY <1>7, <1>8, <1>9, <1>10, <1>11, <1>12, <1>13, <1>14, <1>15, AwaitsReader DEF Steps

(* Every step keeps what a WSGI application runs with.                     *)
LEMMA StepWhole ==
    ASSUME Types, Roles, Closings, Conserved, WholeBody, Steps
    PROVE  WholeBody'
<1>0. /\ Opening /\ Consuming /\ Applying /\ Telling /\ Leaving
      /\ wsgi \in Wsgis /\ client \in Clients /\ app \in Apps
  BY DEF Types, Roles, Closings
<1>1. ASSUME app'.at = "thread" => app.at = "thread", UNCHANGED <<world, client>>,
             broken => broken', wsgi'.size = wsgi.size, wsgi'.whole = wsgi.whole
      PROVE  WholeBody'
  BY <1>1 DEF WholeBody
<1>2. ASSUME app'.at # "thread" PROVE WholeBody'
  BY <1>2 DEF WholeBody
<1>3. ASSUME NEW e, Arrives(e) PROVE WholeBody'
  <2>1. app'.at # "thread"
    BY <1>3 DEF Arrives, appVars, WholeBody
  <2> QED
    BY <1>2, <2>1
<1>4. CASE Breaks \/ Refuses \/ Serves \/ PutsIt \/ RefusedIt
  BY <1>1, <1>2, <1>4 DEF Breaks, Refuses, Serves, PutsIt, RefusedIt, appVars
<1>5. ASSUME NEW e, NEW m, Hands(e, m) PROVE WholeBody'
  BY <1>1, <1>5 DEF Hands, appVars
<1>6. ASSUME NEW list, Messaged(list) PROVE WholeBody'
  BY <1>1, <1>6 DEF Messaged, Called
<1>7. ASSUME NEW list, NEW next \in {"ending", "failed again"}, Ended(list, next)
      PROVE  WholeBody'
  BY <1>2, <1>7 DEF Ended
<1>8. CASE Over
  BY <1>2, <1>8 DEF Over
<1>9. ASSUME NEW t, NEW l, NEW list, Returned(t, l, list) PROVE WholeBody'
  <2>1. app'.at = "thread" => app.at = "thread"
    BY <1>9 DEF Returned
  <2> QED
    BY <1>1, <1>9, <2>1 DEF Returned
<1>10. CASE AppMoves
  <2>1. UNCHANGED <<world, client, broken>>
    BY <1>10 DEF AppMoves
  <2>2. CASE ~Read
    BY <1>1, <1>10, <2>1, <2>2 DEF AppMoves
  <2>3. CASE Read /\ app'.at = "thread"
    <3>1. PICK message : message = Head(appQueue)
      OBVIOUS
    <3>2. /\ app.at = "read" /\ appQueue # <<>> /\ message # "Body"
          /\ wsgi'.size = wsgi.size /\ wsgi'.size <= MaxBodySize
          /\ wsgi'.whole <=> message = "EndBody"
      BY <1>0, <2>3, <3>1, ReadDoes DEF Reads, Wsgis
    <3>3. /\ Coming \in Seq(Moving) /\ Coming # <<>> /\ Head(Coming) = message
          /\ client.done \in BOOLEAN /\ client.chunks \in Nat /\ wsgi.size \in Nat
      <4>1. Coming \in Seq(Moving)
        BY ComingTypes
      <4>2. Coming # <<>> /\ Head(Coming) = message
        <5>1. PICK a : a = appQueue
          OBVIOUS
        <5>2. PICK p : p = PutOf(consumer)
          OBVIOUS
        <5>3. PICK q : q = LeftOf(queue)
          OBVIOUS
        <5>4. a \in Seq(Moving) /\ p \in Seq(Moving) /\ q \in Seq(Moving) /\ "Body" \in Moving
          BY <5>1, <5>2, <5>3, ComingTypes DEF Moving, Inputs
        <5>5. a \o (p \o q) # <<>> /\ Head(a \o (p \o q)) = Head(a)
          BY <3>2, <5>1, <5>4, PartsMove
        <5> QED
          BY <3>1, <5>1, <5>2, <5>3, <5>5 DEF Coming
      <4> QED
        BY <1>0, <4>1, <4>2, HttpStreamAssumption DEF Clients, Wsgis
    <3>4. PICK n : n = client.chunks - wsgi.size
      OBVIOUS
    <3>5. n \in Nat /\ Shape(Coming, n, client.done)
      BY <3>2, <3>3, <3>4 DEF Conserved, Awaiting
    <3>6. n = 0 /\ (message = "EndBody" => client.done)
      BY <3>2, <3>3, <3>5, ShapeHead
    <3>7. CASE message = "EndBody"
      <4>1. client'.done /\ wsgi'.size = client'.chunks
        BY <2>1, <3>2, <3>3, <3>4, <3>6, <3>7
      <4> QED
        BY <3>2, <3>7, <4>1 DEF WholeBody
    <3>8. CASE message = "disconnect"
      <4>1. stream.closed
        <5>1. appQueue[1] = message /\ 1 \in 1..Len(appQueue)
          <6>1. appQueue \in Seq(Given)
            BY DEF Types
          <6> QED
            BY <3>1, <3>2, <6>1
        <5> QED
          BY <1>0, <3>8, <5>1 DEF Telling
      <4>2. world.version = 2 /\ ~known
        BY <1>0, <3>2, <4>1 DEF Telling
      <4>3. broken
        BY <1>0, <3>2, <4>2 DEF Leaving, Applying, Ending
      <4> QED
        BY <2>1, <3>2, <3>8, <4>2, <4>3 DEF WholeBody
    <3>9. message \in Given
      <4>1. appQueue \in Seq(Given)
        BY DEF Types
      <4> QED
        BY <3>1, <3>2, <4>1, HeadTailProperties
    <3> QED
      BY <3>2, <3>7, <3>8, <3>9 DEF Given
  <2> QED
    BY <1>2, <2>2, <2>3
<1>11. CASE UNCHANGED vars
  BY <1>1, <1>11 DEF vars, appVars, queueVars, streamVars
<1> QED
  BY <1>3, <1>4, <1>5, <1>6, <1>7, <1>8, <1>9, <1>10, <1>11 DEF Steps

-----------------------------------------------------------------------------
(* The theorems.                                                           *)

IInv == Types /\ Roles /\ Closings /\ Wired /\ Conserved /\ WholeBody

(* A request that has just arrived is as the invariant says.               *)
LEMMA InitHolds ==
    ASSUME Init
    PROVE  IInv
<1>1. \A S : <<>> \in Seq(S)
  BY EmptySeq
<1>2. /\ world \in WorldRecords /\ MaxMessages \in Nat /\ MaxChunks \in Nat
      /\ AppQueueSize \in Nat
  BY HttpStreamAssumption DEF Init
<1>3. /\ queue = <<"Request">> /\ queue \in Seq(Inputs) /\ queue # <<>> /\ Len(queue) = 1
      /\ Head(queue) = "Request" /\ queue[1] = "Request" /\ Tail(queue) = <<>>
  BY DEF Init, Inputs
<1>4. Fresh
  BY <1>3 DEF Fresh
<1>5. /\ ops["consumer"] = <<>> /\ ops["app"] = <<>> /\ DOMAIN ops = {"consumer", "app"}
      /\ Len(<<>>) = 0
  BY DEF Init
<1>6. Types
  <2>1. app \in Apps
    <3>1. PICK S : S = Seq(Messages)
      OBVIOUS
    <3>2. PICK none : none = <<>>
      OBVIOUS
    <3>3. none \in S
      BY <1>1, <3>1, <3>2
    <3>4. app = [at |-> "none", calls |-> none, sent |-> 0]
      BY <3>2 DEF Init
    <3> QED
      BY <1>2, <3>1, <3>3, <3>4 DEF Apps, Places
  <2>2. client \in Clients /\ wsgi \in Wsgis /\ logged \in Nat
    BY <1>2 DEF Init, Clients, Wsgis
  <2>4. stream \in Streams
    BY DEF Init, Streams, States
  <2>5. consumer \in Consumers
    BY DEF Init, Consumers
  <2>6. known \in BOOLEAN /\ broken \in BOOLEAN /\ missed \in BOOLEAN
    BY DEF Init
  <2>3. appQueue \in Seq(Given) /\ Len(appQueue) <= AppQueueSize /\ wire \in Seq(Items)
    BY <1>1, <1>2, <1>5 DEF Init
  <2> QED
    BY <1>2, <1>3, <1>5, <2>1, <2>2, <2>3, <2>4, <2>5, <2>6 DEF Types
<1>7. Roles
  <2>1. Opening
    BY <1>3, <1>4, <1>5 DEF Init, Opening
  <2>2. Consuming
    BY <1>5 DEF Init, Consuming, Refusals
  <2>3. Applying
    <3>1. app.calls = <<>> /\ app.at = "none" /\ <<>> \in Lists(stream.state)
      BY DEF Init, Lists
    <3> QED
      BY <1>5, <3>1, NothingSaid DEF Applying
  <2> QED
    BY <2>1, <2>2, <2>3 DEF Roles
<1>8. Closings
  <2>1. Logging
    BY <1>5 DEF Init, Logging, Unlogged
  <2>2. Telling
    BY <1>3, <1>5 DEF Init, Telling
  <2>3. Leaving
    BY <1>5 DEF Init, Leaving, Ending, Item
  <2> QED
    BY <2>1, <2>2, <2>3 DEF Closings
<1>9. Wired
  <2>1. Sending = "nothing" /\ wire = <<>> /\ stream.state = "REQUEST"
    BY <1>5 DEF Init, Sending, Item
  <2> QED
    BY <1>5, <2>1 DEF Wired, InOrder, Told, On
<1>10. Conserved
  <2>1. PICK none : none = <<>>
    OBVIOUS
  <2>2. PutOf(consumer) = none /\ LeftOf(queue) = none /\ appQueue = none
    BY <1>3, <2>1 DEF Init, PutOf, LeftOf
  <2>3. none \o none = none
    BY <1>1, <2>1, ConcatEmptySeq
  <2>4. Coming = none
    BY <2>2, <2>3 DEF Coming
  <2>5. Shape(none, 0, FALSE)
    BY <1>5, <2>1 DEF Shape
  <2>6. client.chunks = 0 /\ wsgi.size = 0 /\ client.done = FALSE
    BY DEF Init
  <2>7. client.chunks - wsgi.size = 0 /\ wsgi.size <= client.chunks
    BY <2>6
  <2>8. Shape(Coming, client.chunks - wsgi.size, client.done)
    BY <2>4, <2>5, <2>6, <2>7, Zenon
  <2> QED
    BY <2>7, <2>8 DEF Conserved
<1>11. WholeBody
  BY DEF Init, WholeBody
<1> QED
  BY <1>6, <1>7, <1>8, <1>9, <1>10, <1>11 DEF IInv

(* The inductive invariant of an HTTPStream behind HTTP/2 or HTTP/3: the    *)
(* types, which task is where with which operations left, what the log, the *)
(* queue and the protocol know of the end of the stream, what the wire has, *)
(* and where the chunks of the body are.                                   *)
THEOREM Invariant == Spec => []IInv
<1>1. Init => IInv
  BY InitHolds
<1>2. IInv /\ [Next]_vars => IInv'
  <2> SUFFICES ASSUME IInv, [Next]_vars PROVE IInv'
    OBVIOUS
  <2>1. Types /\ Roles /\ Closings /\ Wired /\ Conserved /\ WholeBody
    BY DEF IInv
  <2>2. Steps
    BY <2>1, NextSteps
  <2>3. Types'
    BY <2>1, <2>2, StepTypes
  <2>4. Roles'
    BY <2>1, <2>2, StepRoles
  <2>5. Closings'
    BY <2>1, <2>2, StepClosings
  <2>6. Wired'
    BY <2>1, <2>2, StepWired
  <2>7. Conserved'
    BY <2>1, <2>2, StepConserved
  <2>8. WholeBody'
    BY <2>1, <2>2, StepWhole
  <2> QED
    BY <2>3, <2>4, <2>5, <2>6, <2>7, <2>8 DEF IInv
<1> QED
  BY <1>1, <1>2, PTL DEF Spec

(* No task has more than three operations left.                            *)
LEMMA FewLeft ==
    ASSUME Types, Roles, NEW t \in DOMAIN ops
    PROVE  Len(ops[t]) <= 4
<1>1. PICK l : l = ops[t]
  OBVIOUS
<1>2. \/ l = <<>>
      \/ \E a : l = <<a>>
      \/ \E a, b : l = <<a, b>>
      \/ \E a, b, c : l = <<a, b, c>>
  <2>1. CASE t = "consumer"
    <3>1. l \in Refusals
      BY <1>1, <2>1 DEF Roles, Consuming
    <3> QED
      BY <3>1, Zenon DEF Refusals
  <2>2. CASE t = "app"
    <3>1. l \in Lists(stream.state)
      BY <1>1, <2>2 DEF Roles, Applying
    <3>2. \/ l = <<>> \/ \E a \in LastOps(stream.state) : l = <<a>>
          \/ \E a \in EndedOps(stream.state) : l = <<a, EndOp, ClosedOp>>
          \/ l = <<EndOp, ClosedOp>> \/ l = <<BodyOp, TurnOp>>
      BY <3>1 DEF Lists
    <3> QED
      BY <3>2, Zenon
  <2> QED
    BY <2>1, <2>2 DEF Types
<1>3. ASSUME NEW a, NEW b, NEW c
      PROVE  /\ Len(<<>>) = 0 /\ Len(<<a>>) = 1 /\ Len(<<a, b>>) = 2
             /\ Len(<<a, b, c>>) = 3
  OBVIOUS
<1>4. CASE l = <<>>
  BY <1>1, <1>3, <1>4
<1>5. CASE \E a : l = <<a>>
  BY <1>1, <1>3, <1>5
<1>6. CASE \E a, b : l = <<a, b>>
  BY <1>1, <1>3, <1>6
<1>7. CASE \E a, b, c : l = <<a, b, c>>
  BY <1>1, <1>3, <1>7
<1> QED
  BY <1>2, <1>4, <1>5, <1>6, <1>7

(* Whatever messages an application sends, in whatever order, and whenever *)
(* the client is lost: stream_send() has accepted early hints, then one     *)
(* response, its body, at most one set of trailers, and one end.           *)
THEOREM WireIsInOrder == Spec => []WireInOrder
<1>1. ASSUME IInv PROVE WireInOrder
  <2>1. Types /\ Roles /\ Closings /\ Wired
    BY <1>1 DEF IInv
  <2>2. TypeOK
    <3>1. \A t \in DOMAIN ops : Len(ops[t]) <= 4
      BY <2>1, FewLeft
    <3>2. logged \in 0..2
      BY <2>1 DEF Types, Closings, Logging
    <3>3. /\ app.sent \in 0..MaxMessages /\ client.chunks \in 0..MaxChunks
          /\ stream.state \in {"REQUEST", "RESPONSE", "TRAILERS", "CLOSED"}
          /\ consumer.at \in {"wait", "put", "refuse", "over"}
          /\ Len(appQueue) <= AppQueueSize
      BY <2>1 DEF Types, Apps, Clients, Streams, States, Consumers
    <3> QED
      BY <3>1, <3>2, <3>3 DEF TypeOK
  <2>3. \A i, items : Before(i, items) <=> OnBefore(wire, i, items)
    BY DEF Before, OnBefore
  <2>4. \A i \in 1..Len(wire) : ItemInOrder(wire, i)
    BY <2>1 DEF Wired, InOrder
  <2> QED
    BY <2>2, <2>3, <2>4 DEF WireInOrder, ItemInOrder
<1> QED
  BY <1>1, Invariant, PTL

(* A request is in the access log once, twice only under HTTP/2 when its    *)
(* stream breaks, and at least once when its stream and its application    *)
(* have ended, but for a response that trailers ended which were its first  *)
(* message and which the client had not asked for.                         *)
THEOREM IsLogged == Spec => []LoggedOnce
<1>1. ASSUME IInv PROVE LoggedOnce
  <2>1. Logging /\ Telling
    BY <1>1 DEF IInv, Closings
  <2> QED
    BY <2>1 DEF Logging, Telling, LoggedOnce
<1> QED
  BY <1>1, Invariant, PTL

(* A client that stays has an answer when the application's task has ended, *)
(* however that was: a response or its end has been sent, the end exactly   *)
(* when the state says so, and the protocol has let go of the stream.      *)
THEOREM IsAnswered == Spec => []Answered
<1>1. ASSUME IInv PROVE Answered
  <2>1. Types /\ Roles /\ Closings /\ Wired
    BY <1>1 DEF IInv
  <2>2. ASSUME app.at = "over", ~broken
        PROVE  /\ ~known
               /\ \E i \in 1..Len(wire) : wire[i] \in {"Response", "EndBody"}
               /\ stream.state = "CLOSED" <=> \E i \in 1..Len(wire) : wire[i] = "EndBody"
    <3>1. ops["app"] = <<>> /\ ops["consumer"] = <<>>
      BY <2>1, <2>2 DEF Roles, Applying, Consuming
    <3>2. ~known /\ stream.state # "REQUEST"
      BY <2>1, <2>2, <3>1 DEF Closings, Leaving, Ending
    <3>3. Told(wire, stream.state, "nothing")
      BY <2>1, <2>2, <3>1 DEF Wired, Sending, Item
    <3>4. stream.state = "CLOSED" <=> \E i \in 1..Len(wire) : wire[i] = "EndBody"
      BY <3>3 DEF Told, On
    <3>5. stream.state # "CLOSED" => \E i \in 1..Len(wire) : wire[i] = "Response"
      BY <2>1, <3>2, <3>3 DEF Told, On, Types, Streams, States
    <3> QED
      BY <3>2, <3>4, <3>5
  <2> QED
    BY <2>2 DEF Answered
<1> QED
  BY <1>1, Invariant, PTL

(* A WSGI application runs with the whole body of its request, within the   *)
(* limit; with less only under HTTP/2, when the stream has broken.         *)
THEOREM BodyIsWhole == Spec => []WholeBody
<1>1. IInv => WholeBody
  BY DEF IInv
<1> QED
  BY <1>1, Invariant, PTL
=============================================================================
