----------------------------- MODULE DemoFeedProofs -----------------------------
(*****************************************************************************)
(* No cursor skips a message, for any number of sessions, conversations and  *)
(* events.  The invariant carries the property over the two reads of a       *)
(* snapshot and over what an answer brings: the cursor it will set passes    *)
(* nothing that the page has not, with the answer, got.                      *)
(*****************************************************************************)
EXTENDS DemoFeed, WellFoundedInduction, TLAPS

Convs == [session : Nat, name : Names] \cup {None}
Events == [conv : Convs, kind : {"message", "end", "chunk", "connection"}, id : Nat]
Notes == [conv : Convs, id : Nat]
Servers == [live : BOOLEAN, session : Nat, seeded : BOOLEAN, log : Seq(Events),
            stored : Seq(Notes), made : Nat]

\* A message that an event announces is in the engine's memory, of a session that lives.
ServerOK(s) ==
    /\ s \in Servers
    /\ \A i \in 1 .. Len(s.log) : s.log[i].kind = "message" =>
         /\ s.live /\ s.log[i].id # 0
         /\ \E j \in 1 .. Len(s.stored) :
              s.stored[j].conv = s.log[i].conv /\ s.stored[j].id = s.log[i].id

\* The same session, with more events.
Grown(s, t) ==
    /\ t.session = s.session /\ (t.live <=> s.live) /\ Len(s.log) <= Len(t.log)
    /\ \A i \in 1 .. Len(s.log) : t.log[i] = s.log[i]

\* The messages of conv announced by the first n events are in the set got.
Covered(s, conv, n, got) ==
    \A i \in 1 .. Len(s.log) :
        i <= n /\ s.log[i].conv = conv /\ s.log[i].kind = "message" => s.log[i].id \in got

Polls == [stage : {"asked", "snapshot", "answered"}, name : Names, stale : BOOLEAN,
          cursor : Nat \cup {None}, next : Nat, data : SUBSET Nat, missed : SUBSET Nat]

Pages == [boot : Nat, active : Names \cup {None}, cursor : [Names -> Nat \cup {None}],
          connected : BOOLEAN, sse : Names \cup {None}]

PageOK ==
    /\ page \in Pages /\ page.boot <= server.session
    /\ page.boot = 0 => page.active = None /\ poll = NoPoll /\ page.cursor = [n \in Names |-> None]
    /\ \A r \in replies : r.conv \in Convs
    /\ ~server.live => replies = {}
    /\ server.live => server.session # 0

\* The sequence number n of a session that may be over.
Within(n) == server.live => n <= Len(server.log)

\* NothingSkipped, and cursors point into the log.
CursorInv ==
    page.boot = server.session =>
        \A name \in Names : page.cursor[name] # None =>
            /\ Covered(server, Mine(name), page.cursor[name], view \cup excused)
            /\ Within(page.cursor[name])

\* With what an answer brings or loses, the cursor it brings passes nothing either.
PollInv ==
    poll # NoPoll =>
        /\ poll \in Polls /\ page.active # None
        /\ poll.cursor = page.cursor[poll.name]
        /\ poll.stage \in {"snapshot", "answered"} /\ page.boot = server.session => Within(poll.next)
        /\ poll.stage = "answered" /\ page.boot = server.session =>
             Covered(server, Mine(poll.name), poll.next, view \cup excused \cup poll.data \cup poll.missed)

FeedInv == ServerOK(server) /\ PageOK /\ CursorInv /\ PollInv

\* An event that brings no message: the log grows by it.
LEMMA PublishKeeps ==
    ASSUME NEW s, ServerOK(s), NEW conv \in Convs,
           NEW kind \in {"end", "chunk", "connection"}, NEW id \in Nat
    PROVE  LET t == Publish(s, conv, kind, id) IN ServerOK(t) /\ Grown(s, t)
<1> DEFINE e == Event(conv, kind, id)
           t == Publish(s, conv, kind, id)
<1>1. s \in Servers /\ s.log \in Seq(Events) BY DEF ServerOK, Servers
<1>2. e \in Events /\ e.kind # "message" BY DEF Events, Event
<1>3. /\ t = [s EXCEPT !.log = Append(s.log, e)] BY DEF Publish
<1>a. Append(s.log, e) \in Seq(Events) BY <1>1, <1>2
<1>4. t \in Servers
  <2> HIDE DEF e
  <2> QED BY <1>a, <1>1, <1>3 DEF Servers
<1>5. /\ t.log = Append(s.log, e) /\ t.live = s.live /\ t.session = s.session /\ t.stored = s.stored
  BY <1>1, <1>3 DEF Servers
<1>6. /\ Len(t.log) = Len(s.log) + 1 /\ t.log[Len(s.log) + 1] = e
      /\ \A i \in 1 .. Len(s.log) : t.log[i] = s.log[i]
      /\ Len(s.log) \in Nat
  BY <1>1, <1>2, <1>5
<1> HIDE DEF e, t
<1>7. Grown(s, t) BY <1>5, <1>6 DEF Grown
<1>8. ASSUME NEW i \in 1 .. Len(t.log), t.log[i].kind = "message"
      PROVE  /\ t.live /\ t.log[i].id # 0
             /\ \E j \in 1 .. Len(t.stored) :
                  t.stored[j].conv = t.log[i].conv /\ t.stored[j].id = t.log[i].id
  <2>1. i \in 1 .. Len(s.log) BY <1>2, <1>6, <1>8
  <2>2. t.log[i] = s.log[i] BY <2>1, <1>6
  <2> QED BY <2>1, <2>2, <1>5, <1>8 DEF ServerOK
<1> QED BY <1>4, <1>7, <1>8 DEF ServerOK, t

\* A message enters the engine's memory.
LEMMA KeepKeeps ==
    ASSUME NEW s, ServerOK(s), NEW conv \in Convs, NEW id \in Nat
    PROVE  LET t == Keep(s, conv, id)
           IN  /\ ServerOK(t) /\ Grown(s, t) /\ t.log = s.log
               /\ Len(t.stored) \in Nat \ {0}
               /\ t.stored[Len(t.stored)] = [conv |-> conv, id |-> id]
<1> DEFINE m == [conv |-> conv, id |-> id]
           t == Keep(s, conv, id)
<1>1. s \in Servers /\ s.stored \in Seq(Notes) /\ s.log \in Seq(Events) BY DEF ServerOK, Servers
<1>2. m \in Notes BY DEF Notes
<1>3. t = [s EXCEPT !.stored = Append(s.stored, m), !.made = id] BY DEF Keep
<1>a. Append(s.stored, m) \in Seq(Notes) BY <1>1, <1>2
<1>4. t \in Servers
  <2> HIDE DEF m
  <2> QED BY <1>a, <1>1, <1>3 DEF Servers
<1>5. /\ t.log = s.log /\ t.live = s.live /\ t.session = s.session
      /\ t.stored = Append(s.stored, m)
  BY <1>1, <1>3 DEF Servers
<1>6. /\ Len(t.stored) = Len(s.stored) + 1 /\ t.stored[Len(s.stored) + 1] = m
      /\ \A i \in 1 .. Len(s.stored) : t.stored[i] = s.stored[i]
      /\ Len(s.stored) \in Nat /\ Len(s.log) \in Nat
  BY <1>1, <1>2, <1>5
<1> HIDE DEF t
<1>7. Grown(s, t) BY <1>5, <1>6 DEF Grown
<1>8. ASSUME NEW i \in 1 .. Len(t.log), t.log[i].kind = "message"
      PROVE  /\ t.live /\ t.log[i].id # 0
             /\ \E j \in 1 .. Len(t.stored) :
                  t.stored[j].conv = t.log[i].conv /\ t.stored[j].id = t.log[i].id
  <2>1. PICK j \in 1 .. Len(s.stored) :
            s.stored[j].conv = s.log[i].conv /\ s.stored[j].id = s.log[i].id
    BY <1>5, <1>8 DEF ServerOK
  <2>2. s.live /\ s.log[i].id # 0 BY <1>5, <1>8 DEF ServerOK
  <2> QED BY <2>1, <2>2, <1>5, <1>6
<1> QED BY <1>4, <1>5, <1>6, <1>7, <1>8 DEF ServerOK, t

\* Growing twice is growing.
LEMMA GrownOn ==
    ASSUME NEW s, NEW t, NEW u, ServerOK(s), ServerOK(t), Grown(s, t), Grown(t, u)
    PROVE  Grown(s, u)
<1>1. Len(s.log) \in Nat /\ Len(t.log) \in Nat BY DEF ServerOK, Servers
<1> QED BY <1>1 DEF Grown

\* An inbound message is kept and announced.
LEMMA RemoteKeeps ==
    ASSUME NEW s, ServerOK(s), s.live, NEW conv \in Convs
    PROVE  LET t == Remote(s, conv) IN ServerOK(t) /\ Grown(s, t)
<1> DEFINE id == s.made + 1
           e == Event(conv, "message", id)
           k == Keep(s, conv, id)
           t == Remote(s, conv)
<1>1. id \in Nat /\ id # 0 BY DEF ServerOK, Servers
<1>2. /\ ServerOK(k) /\ Grown(s, k) /\ k.log = s.log
      /\ Len(k.stored) \in Nat \ {0} /\ k.stored[Len(k.stored)] = [conv |-> conv, id |-> id]
  BY <1>1, KeepKeeps
<1>3. t = [k EXCEPT !.log = Append(k.log, e)] BY DEF Remote, Publish
<1>4. e \in Events /\ e.id = id /\ e.conv = conv BY <1>1 DEF Events, Event
<1> HIDE DEF k, t, e, id
<1>5. k \in Servers /\ k.log \in Seq(Events) /\ k.live BY <1>2 DEF ServerOK, Servers, Grown
<1>a. Append(k.log, e) \in Seq(Events) BY <1>4, <1>5
<1>6. t \in Servers BY <1>3, <1>a, <1>5 DEF Servers
<1>7. /\ t.log = Append(k.log, e) /\ t.live = k.live /\ t.session = k.session /\ t.stored = k.stored
  BY <1>3, <1>5 DEF Servers
<1>8. /\ Len(t.log) = Len(k.log) + 1 /\ t.log[Len(k.log) + 1] = e
      /\ \A i \in 1 .. Len(k.log) : t.log[i] = k.log[i]
      /\ Len(k.log) \in Nat
  BY <1>4, <1>5, <1>7
<1>9. Grown(k, t) BY <1>7, <1>8 DEF Grown
<1>10. ASSUME NEW i \in 1 .. Len(t.log), t.log[i].kind = "message"
       PROVE  /\ t.live /\ t.log[i].id # 0
              /\ \E j \in 1 .. Len(t.stored) :
                   t.stored[j].conv = t.log[i].conv /\ t.stored[j].id = t.log[i].id
  <2>1. CASE i = Len(k.log) + 1
    <3>1. t.log[i].conv = conv /\ t.log[i].id = id BY <2>1, <1>8, <1>4
    <3>2. Len(t.stored) \in 1 .. Len(t.stored) /\ t.stored[Len(t.stored)] = [conv |-> conv, id |-> id]
      BY <1>2, <1>7
    <3> QED BY SMTT(20), <3>1, <3>2, <1>1, <1>5, <1>7
  <2>2. CASE i \in 1 .. Len(k.log)
    <3>1. t.log[i] = k.log[i] BY <2>2, <1>8
    <3> QED BY <3>1, <2>2, <1>2, <1>7, <1>10 DEF ServerOK
  <2> QED BY <2>1, <2>2, <1>8
<1>11. ServerOK(t) BY <1>6, <1>10 DEF ServerOK
<1> QED BY <1>2, <1>9, <1>11, GrownOn DEF t

\* The end of a stream: its message is kept, its copy is dropped.
LEMMA StreamEndKeeps ==
    ASSUME NEW s, ServerOK(s), NEW conv \in Convs
    PROVE  LET t == StreamEnd(s, conv) IN ServerOK(t) /\ Grown(s, t)
<1> DEFINE id == s.made + 1
           k == Keep(s, conv, id)
<1>1. id \in Nat BY DEF ServerOK, Servers
<1>2. ServerOK(k) /\ Grown(s, k) BY <1>1, KeepKeeps
<1>3. StreamEnd(s, conv) = Publish(k, conv, "end", id) BY DEF StreamEnd
<1> HIDE DEF k, id
<1> QED BY <1>1, <1>2, <1>3, PublishKeeps, GrownOn

\* A request finds its session, or begins the next one.
LEMMA ContextKeeps ==
    ASSUME NEW s, ServerOK(s)
    PROVE  LET t == Context(s)
           IN  /\ ServerOK(t) /\ t.live
               /\ s.live => t = s
               /\ ~s.live => t.session = s.session + 1
<1>1. CASE s.live BY <1>1 DEF Context
<1>2. CASE ~s.live
  <2> DEFINE t == [s EXCEPT !.live = TRUE, !.session = s.session + 1, !.seeded = FALSE, !.stored = <<>>]
  <2>1. Context(s) = t BY <1>2 DEF Context
  <2>2. s \in Servers BY DEF ServerOK
  <2>a. s.session + 1 \in Nat /\ <<>> \in Seq(Notes) BY <2>2 DEF Servers
  <2>3. t \in Servers BY <2>2, <2>a DEF Servers
  <2>4. t.live /\ t.log = s.log /\ t.session = s.session + 1 BY <2>2 DEF Servers
  <2>5. \A i \in 1 .. Len(t.log) : t.log[i].kind # "message" BY <2>4, <1>2 DEF ServerOK
  <2> HIDE DEF t
  <2> QED BY <2>1, <2>3, <2>4, <2>5, <1>2 DEF ServerOK
<1> QED BY <1>1, <1>2

\* The length of a sequence with another behind it.
LEMMA BothLengths ==
    ASSUME NEW S, NEW a \in Seq(S), NEW b \in Seq(S)
    PROVE  Len(a \o b) = Len(a) + Len(b) /\ Len(a) \in Nat
OBVIOUS

\* A new session is given its first messages and events.
LEMMA SeedKeeps ==
    ASSUME NEW s, ServerOK(s), s.live
    PROVE  LET t == Seed(s) IN ServerOK(t) /\ Grown(s, t)
<1>1. CASE s.seeded
  <2>1. Len(s.log) \in Nat BY DEF ServerOK, Servers
  <2> QED BY <1>1, <2>1 DEF Seed, Grown
<1>2. CASE ~s.seeded
  <2> DEFINE n == Len(SeedOrder)
             conv(i) == Conversation(s.session, SeedOrder[i])
             es == [i \in 1 .. n |-> Event(conv(i), "message", s.made + i)]
             ms == [i \in 1 .. n |-> [conv |-> conv(i), id |-> s.made + i]]
             t == [s EXCEPT !.log = s.log \o es, !.stored = s.stored \o ms, !.made = s.made + n, !.seeded = TRUE]
  <2>1. Seed(s) = t BY <1>2 DEF Seed
  <2>2. s \in Servers /\ s.log \in Seq(Events) /\ s.stored \in Seq(Notes) /\ s.made \in Nat /\ s.session \in Nat
    BY DEF ServerOK, Servers
  <2>3. n \in Nat /\ DOMAIN SeedOrder = 1 .. n BY FeedAssumption
  <2>4. \A i \in 1 .. n : conv(i) \in Convs BY <2>2, <2>3 DEF Convs, Conversation, Names
  <2> HIDE DEF conv
  <2>5. \A i \in 1 .. n : es[i] \in Events BY <2>2, <2>4 DEF Events, Event
  <2>6. es \in Seq(Events) /\ Len(es) = n
    <3>1. es \in [1 .. n -> Events] BY <2>5
    <3> QED BY <3>1, <2>3
  <2>7. \A i \in 1 .. n : ms[i] \in Notes BY <2>2, <2>4 DEF Notes
  <2>8. ms \in Seq(Notes) /\ Len(ms) = n
    <3>1. ms \in [1 .. n -> Notes] BY <2>7
    <3> QED BY <3>1, <2>3
  <2>9. \A i \in 1 .. n : es[i].conv = ms[i].conv /\ es[i].id = ms[i].id /\ es[i].id # 0
    BY <2>2 DEF Event
  <2> HIDE DEF es, ms, n
  <2>10. s.log \o es \in Seq(Events) /\ s.stored \o ms \in Seq(Notes) BY <2>2, <2>6, <2>8
  <2>a. s.made + n \in Nat BY <2>2, <2>3
  <2>11. t \in Servers BY <2>2, <2>a, <2>10 DEF Servers
  <2>12. t.log = s.log \o es /\ t.stored = s.stored \o ms /\ t.live = s.live /\ t.session = s.session
    BY <2>2 DEF Servers
  <2> HIDE DEF t
  <2>13. /\ Len(t.log) = Len(s.log) + n /\ Len(t.stored) = Len(s.stored) + n
         /\ Len(s.log) \in Nat /\ Len(s.stored) \in Nat
    <3>1. Len(s.log \o es) = Len(s.log) + Len(es) /\ Len(s.log) \in Nat BY <2>2, <2>6, BothLengths
    <3>2. Len(s.stored \o ms) = Len(s.stored) + Len(ms) /\ Len(s.stored) \in Nat BY <2>2, <2>8, BothLengths
    <3> QED BY <3>1, <3>2, <2>6, <2>8, <2>12
  <2>14. \A i \in 1 .. Len(s.log) : t.log[i] = s.log[i] BY <2>2, <2>6, <2>12
  <2>15. \A i \in 1 .. n : t.log[Len(s.log) + i] = es[i] BY SMTT(20), <2>2, <2>3, <2>6, <2>12
  <2>16. \A i \in 1 .. Len(s.stored) : t.stored[i] = s.stored[i] BY <2>2, <2>8, <2>12
  <2>17. \A i \in 1 .. n : t.stored[Len(s.stored) + i] = ms[i] BY <2>2, <2>3, <2>8, <2>12
  <2>18. Grown(s, t) BY <2>3, <2>12, <2>13, <2>14 DEF Grown
  <2>19. ASSUME NEW i \in 1 .. Len(t.log), t.log[i].kind = "message"
         PROVE  /\ t.live /\ t.log[i].id # 0
                /\ \E j \in 1 .. Len(t.stored) :
                     t.stored[j].conv = t.log[i].conv /\ t.stored[j].id = t.log[i].id
    <3>1. CASE i \in 1 .. Len(s.log)
      <4>1. PICK j \in 1 .. Len(s.stored) :
                s.stored[j].conv = s.log[i].conv /\ s.stored[j].id = s.log[i].id
        BY <3>1, <2>14, <2>19 DEF ServerOK
      <4>2. s.log[i].id # 0 BY <3>1, <2>14, <2>19 DEF ServerOK
      <4>3. j \in 1 .. Len(t.stored) BY <2>3, <2>13
      <4> QED BY <3>1, <4>1, <4>2, <4>3, <2>14, <2>16, <2>12
    <3>2. CASE i \notin 1 .. Len(s.log)
      <4>1. PICK k \in 1 .. n : i = Len(s.log) + k
        <5>1. i - Len(s.log) \in 1 .. n BY <3>2, <2>3, <2>13
        <5> QED BY <5>1, <2>13
      <4>2. t.log[i] = es[k] /\ t.stored[Len(s.stored) + k] = ms[k] BY <4>1, <2>15, <2>17
      <4>3. Len(s.stored) + k \in 1 .. Len(t.stored) BY <2>3, <2>13
      <4> QED BY <4>2, <4>3, <2>9, <2>12
    <3> QED BY <3>1, <3>2
  <2> QED BY <2>1, <2>11, <2>18, <2>19 DEF ServerOK
<1> QED BY <1>1, <1>2

\* Every set of numbers that is not empty has a least element (the library's induction, read
\* the other way round).
LEMMA LeastElement ==
    ASSUME NEW S, S \subseteq Nat, S # {}
    PROVE  \E x \in S : \A y \in S : x <= y
<1>1. PICK x \in S : \A y \in S : ~(<<y, x>> \in OpToRel(<, Nat))
  BY WFMin, NatLessThanWellFounded, Zenon
<1>2. ASSUME NEW y \in S PROVE x <= y
  <2>1. ~(<<y, x>> \in {ss \in Nat \X Nat : ss[1] < ss[2]}) BY <1>1, Zenon DEF OpToRel
  <2>2. <<y, x>> \in Nat \X Nat OBVIOUS
  <2>3. ~(y < x) BY <2>1, <2>2
  <2> QED BY <2>3
<1> QED BY <1>2

\* A bounded one has a greatest.
LEMMA GreatestElement ==
    ASSUME NEW n \in Nat, NEW S, S \subseteq 0 .. n, S # {}
    PROVE  \E x \in S : \A y \in S : y <= x
<1> DEFINE T == {n - y : y \in S}
<1>1. \A y \in S : n - y \in Nat OBVIOUS
<1>2. T \subseteq Nat /\ T # {} BY <1>1
<1>3. PICK t \in T : \A u \in T : t <= u
  <2> HIDE DEF T
  <2> QED BY <1>2, LeastElement
<1>4. PICK x \in S : t = n - x OBVIOUS
<1>5. ASSUME NEW y \in S PROVE y <= x
  <2>1. n - y \in T OBVIOUS
  <2>2. t <= n - y BY <2>1, <1>3
  <2> QED BY <2>2, <1>4
<1> QED BY <1>5

\* What is covered of a log is covered of a longer one.
LEMMA CoveredOn ==
    ASSUME NEW s, NEW t, ServerOK(s), ServerOK(t), Grown(s, t),
           NEW conv, NEW n \in Nat, s.live => n <= Len(s.log),
           NEW got, NEW more, Covered(s, conv, n, got), got \subseteq more
    PROVE  Covered(t, conv, n, more)
<1>1. Len(s.log) \in Nat /\ Len(t.log) \in Nat BY DEF ServerOK, Servers
<1>2. CASE ~s.live BY <1>2 DEF ServerOK, Grown, Covered
<1>3. CASE s.live
  <2> SUFFICES ASSUME NEW i \in 1 .. Len(t.log), i <= n, t.log[i].conv = conv, t.log[i].kind = "message"
               PROVE  t.log[i].id \in more
    BY DEF Covered
  <2>1. i \in 1 .. Len(s.log) /\ t.log[i] = s.log[i] BY <1>1, <1>3 DEF Grown
  <2> QED BY <2>1 DEF Covered
<1> QED BY <1>2, <1>3

\* Having more covers as much.
LEMMA CoveredMore ==
    ASSUME NEW s, NEW conv, NEW n, NEW got, NEW more, Covered(s, conv, n, got), got \subseteq more
    PROVE  Covered(s, conv, n, more)
BY DEF Covered

\* A poll that is out is not NoPoll.
LEMMA NoPollIsNone == ASSUME poll \in Polls PROVE poll # NoPoll
<1>1. poll.stage \in {"asked", "snapshot", "answered"} BY DEF Polls
<1>2. NoPoll.stage = "none" BY DEF NoPoll
<1> QED BY <1>1, <1>2

\* The server's log grows within a session.
LEMMA ServerGrows ==
    ASSUME FeedInv, Grown(server, server'), ServerOK(server'), view \subseteq view',
           UNCHANGED <<page, poll, excused>>,
           \A r \in replies' : r.conv \in Convs, ~server'.live => replies' = {}
    PROVE  FeedInv'
<1>1. /\ server'.session = server.session /\ (server'.live <=> server.live)
      /\ Len(server.log) <= Len(server'.log)
  BY DEF Grown
<1>a. Len(server.log) \in Nat /\ Len(server'.log) \in Nat BY DEF FeedInv, ServerOK, Servers
<1>b. ServerOK(server) /\ PageOK /\ page \in Pages BY DEF FeedInv, PageOK
<1>2. PageOK' BY <1>1, <1>b DEF PageOK
<1>3. ASSUME NEW n \in Nat, Within(n) PROVE Within(n)'
  BY <1>1, <1>3, <1>a DEF Within
<1>4. CursorInv'
  <2> SUFFICES ASSUME page.boot = server.session, NEW name \in Names, page.cursor[name] # None
               PROVE  /\ Covered(server', Mine(name), page.cursor[name], view' \cup excused)
                      /\ Within(page.cursor[name])'
    BY <1>1 DEF CursorInv, Mine
  <2>1. page.cursor[name] \in Nat BY <1>b DEF Pages
  <2>2. Covered(server, Mine(name), page.cursor[name], view \cup excused) /\ Within(page.cursor[name])
    BY DEF FeedInv, CursorInv
  <2>3. view \cup excused \subseteq view' \cup excused OBVIOUS
  <2>4. Covered(server', Mine(name), page.cursor[name], view' \cup excused)
    BY <1>b, <2>1, <2>2, <2>3, CoveredOn DEF Within
  <2>5. (page.cursor[name])' = page.cursor[name] OBVIOUS
  <2> QED BY <2>1, <2>2, <2>4, <2>5, <1>3 DEF Within
<1>5. PollInv'
  <2> SUFFICES ASSUME poll # NoPoll PROVE PollInv' BY DEF PollInv, NoPoll
  <2>1. /\ poll \in Polls /\ page.active # None /\ poll.cursor = page.cursor[poll.name]
    BY DEF FeedInv, PollInv
  <2>2. poll.next \in Nat BY <2>1 DEF Polls
  <2>3. ASSUME poll.stage \in {"snapshot", "answered"}, page.boot = server.session
        PROVE  Within(poll.next) /\ Within(poll.next)'
    BY <2>2, <2>3, <1>1, <1>a DEF FeedInv, PollInv, Within
  <2>4. ASSUME poll.stage = "answered", page.boot = server.session
        PROVE  Covered(server', Mine(poll.name), poll.next,
                       view' \cup excused \cup poll.data \cup poll.missed)
    <3>1. Covered(server, Mine(poll.name), poll.next, view \cup excused \cup poll.data \cup poll.missed)
      BY <2>4 DEF FeedInv, PollInv
    <3>2. Within(poll.next) BY <2>4, <2>3
    <3>3. view \cup excused \cup poll.data \cup poll.missed
            \subseteq view' \cup excused \cup poll.data \cup poll.missed
      OBVIOUS
    <3> QED BY <1>b, <2>2, <3>1, <3>2, <3>3, CoveredOn DEF Within
  <2> QED BY <2>1, <2>3, <2>4, <1>1 DEF PollInv, Mine
<1> QED BY <1>2, <1>4, <1>5 DEF FeedInv

\* The server starts a new session, which the page does not know.
LEMMA ServerRenewed ==
    ASSUME FeedInv, ServerOK(server'), server'.live, server'.session > server.session,
           UNCHANGED page, \A r \in replies' : r.conv \in Convs,
           poll = NoPoll => poll' = NoPoll,
           poll' # NoPoll => poll' \in Polls /\ poll'.cursor = page.cursor[poll'.name]
    PROVE  FeedInv'
<1>1. page \in Pages /\ page.boot <= server.session /\ page.boot \in Nat /\ server.session \in Nat
      /\ server'.session \in Nat
  BY DEF FeedInv, PageOK, Pages, ServerOK, Servers
<1>2. page'.boot <= server'.session /\ page'.boot # server'.session BY <1>1
<1>3. page.boot # 0 \/ (page.active = None /\ poll = NoPoll /\ page.cursor = [n \in Names |-> None])
  BY DEF FeedInv, PageOK
<1>4. PageOK' BY <1>1, <1>2, <1>3 DEF PageOK, NoPoll
<1>5. CursorInv' BY <1>2 DEF CursorInv
<1>6. poll' # NoPoll => page'.active # None BY DEF FeedInv, PollInv
<1>7. PollInv' BY <1>2, <1>6 DEF PollInv, NoPoll
<1> QED BY <1>4, <1>5, <1>7 DEF FeedInv

\* Replies, streams, expiry and restart of the server.
LEMMA ServerSteps == ASSUME FeedInv, ServerNext PROVE FeedInv'
<1>1. /\ ServerOK(server) /\ \A r \in replies : r.conv \in Convs /\ server.live
  BY DEF FeedInv, PageOK
<1>2. CASE ReplyDirect
  <2>1. PICK r \in replies : server' = Remote(server, r.conv) /\ replies' = replies \ {r}
    BY <1>2 DEF ReplyDirect
  <2>2. ServerOK(server') /\ Grown(server, server') BY <2>1, <1>1, RemoteKeeps
  <2>3. UNCHANGED <<page, poll, view, excused>> BY <1>2 DEF ReplyDirect
  <2>4. server'.live BY <2>2, <1>1 DEF Grown
  <2> QED BY <2>1, <2>2, <2>3, <2>4, <1>1, ServerGrows
<1>3. CASE ReplyStreams
  <2>1. PICK r \in replies :
            /\ server' = Publish(server, r.conv, "chunk", 0)
            /\ replies' = (replies \ {r}) \cup {[r EXCEPT !.stage = "streaming"]}
    BY <1>3 DEF ReplyStreams
  <2>2. ServerOK(server') /\ Grown(server, server') BY <2>1, <1>1, PublishKeeps
  <2>3. UNCHANGED <<page, poll, view, excused>> BY <1>3 DEF ReplyStreams
  <2>4. server'.live BY <2>2, <1>1 DEF Grown
  <2>5. \A q \in replies' : q.conv \in Convs
    <3>1. [r EXCEPT !.stage = "streaming"].conv \in Convs BY <1>1
    <3> QED BY <3>1, <2>1, <1>1
  <2> QED BY <2>2, <2>3, <2>4, <2>5, ServerGrows
<1>4. CASE ReplyEnds
  <2>1. PICK r \in replies : server' = StreamEnd(server, r.conv) /\ replies' = replies \ {r}
    BY <1>4 DEF ReplyEnds
  <2>2. ServerOK(server') /\ Grown(server, server') BY <2>1, <1>1, StreamEndKeeps
  <2>3. UNCHANGED <<page, poll, excused>> /\ view \subseteq view' BY <1>4 DEF ReplyEnds
  <2>4. server'.live BY <2>2, <1>1 DEF Grown
  <2> QED BY <2>1, <2>2, <2>3, <2>4, <1>1, ServerGrows
<1>5. CASE ReplyFails
  <2>1. PICK r \in replies :
            /\ server' = Remote(Publish(server, r.conv, "chunk", 0), r.conv)
            /\ replies' = replies \ {r}
    BY <1>5 DEF ReplyFails
  <2> DEFINE t == Publish(server, r.conv, "chunk", 0)
  <2>2. ServerOK(t) /\ Grown(server, t) BY <1>1, PublishKeeps
  <2>3. t.live BY <2>2, <1>1 DEF Grown
  <2> HIDE DEF t
  <2>4. ServerOK(server') /\ Grown(t, server') BY <2>1, <2>2, <2>3, <1>1, RemoteKeeps DEF t
  <2>5. Grown(server, server') BY <2>2, <2>4, <1>1, GrownOn
  <2>6. UNCHANGED <<page, poll, view, excused>> BY <1>5 DEF ReplyFails
  <2>7. server'.live BY <2>5, <1>1 DEF Grown
  <2> QED BY <2>1, <2>4, <2>5, <2>6, <2>7, <1>1, ServerGrows
<1>6. CASE Expire
  <2> DEFINE u == [server EXCEPT !.live = FALSE, !.log = <<>>]
             v == Publish(u, None, "connection", 0)
  <2>1. server \in Servers BY <1>1 DEF ServerOK
  <2>a. <<>> \in Seq(Events) OBVIOUS
  <2>2. u \in Servers BY <2>1, <2>a DEF Servers
  <2>3. u.log = <<>> /\ ~u.live /\ u.session = server.session BY <2>1 DEF Servers
  <2> HIDE DEF u
  <2>4. ServerOK(u) BY <2>2, <2>3 DEF ServerOK
  <2>5. None \in Convs BY DEF Convs
  <2>6. ServerOK(v) /\ Grown(u, v) BY <2>4, <2>5, PublishKeeps
  <2> HIDE DEF v
  <2>7. server' = Publish(v, None, "connection", 0) BY <1>6 DEF Expire, u, v
  <2>8. ServerOK(server') /\ Grown(v, server') BY <2>5, <2>6, <2>7, PublishKeeps
  <2>9. server'.session = server.session /\ ~server'.live BY <2>3, <2>6, <2>8 DEF Grown
  <2>10. \A conv, n, got : Covered(server', conv, n, got) BY <2>8, <2>9 DEF ServerOK, Covered
  <2>11. /\ page' = [page EXCEPT !.sse = None] /\ UNCHANGED <<poll, view, excused, replies>>
         /\ replies = {} /\ poll.stage # "snapshot"
    BY <1>6 DEF Expire
  <2>12. page \in Pages BY DEF FeedInv, PageOK
  <2>13. /\ page'.boot = page.boot /\ page'.active = page.active /\ page'.cursor = page.cursor
         /\ page' \in Pages
    BY <2>11, <2>12 DEF Pages
  <2>14. PageOK' BY <2>9, <2>11, <2>13 DEF FeedInv, PageOK, NoPoll
  <2>15. CursorInv' BY <2>9, <2>10, <2>13 DEF CursorInv, Mine, Within
  <2>16. PollInv' BY <2>9, <2>10, <2>11, <2>13 DEF FeedInv, PollInv, Mine, Within, NoPoll
  <2> QED BY <2>8, <2>14, <2>15, <2>16 DEF FeedInv
<1> QED BY <1>2, <1>3, <1>4, <1>5, <1>6 DEF ServerNext

\* A step that leaves alone what the invariant of the cursors speaks of.
LEMMA PageMoves ==
    ASSUME FeedInv, UNCHANGED <<server, view, excused, replies>>, page' \in Pages,
           page'.boot = page.boot, page'.cursor = page.cursor, page.boot # 0 \/ page'.active = page.active,
           page'.active = None => page.active = None,
           \/ poll' = poll
           \/ poll' = NoPoll
           \/ poll # NoPoll /\ poll' \in Polls /\ [poll EXCEPT !.stale = TRUE] = poll'
    PROVE  FeedInv'
<1>1. ServerOK(server') BY DEF FeedInv
<1>2. PageOK' BY DEF FeedInv, PageOK, NoPoll
<1>3. CursorInv' BY DEF FeedInv, CursorInv, Mine, Within
<1>4. PollInv'
  <2>1. CASE poll' = poll BY <2>1 DEF FeedInv, PollInv, Mine, Within, NoPoll
  <2>2. CASE poll' = NoPoll BY <2>2 DEF PollInv, NoPoll
  <2>3. CASE poll # NoPoll /\ poll' \in Polls /\ [poll EXCEPT !.stale = TRUE] = poll'
    <3>1. poll \in Polls BY <2>3 DEF FeedInv, PollInv
    <3>2. /\ poll'.name = poll.name /\ poll'.cursor = poll.cursor /\ poll'.next = poll.next
          /\ poll'.stage = poll.stage /\ poll'.data = poll.data /\ poll'.missed = poll.missed
      BY <2>3, <3>1 DEF Polls
    <3> QED BY <2>3, <3>2 DEF FeedInv, PollInv, Mine, Within
  <2> QED BY <2>1, <2>2, <2>3
<1> QED BY <1>1, <1>2, <1>3, <1>4 DEF FeedInv
\* The page mounts, switches, goes away and comes back.
LEMMA PageSteps == ASSUME FeedInv, PageNext PROVE FeedInv'
<1>1. /\ ServerOK(server) /\ page \in Pages /\ page.boot <= server.session
      /\ \A r \in replies : r.conv \in Convs /\ server.live
      /\ page.boot = 0 => page.active = None /\ poll = NoPoll /\ page.cursor = [n \in Names |-> None]
  BY DEF FeedInv, PageOK
<1>a. SeedOrder[1] \in Names BY FeedAssumption DEF Names
<1>b. server.session \in Nat /\ page.boot \in Nat BY <1>1 DEF ServerOK, Servers, Pages
<1>c. \A n \in Names : n # None BY FeedAssumption DEF Names
<1>d. PICK c : c = Context(server) OBVIOUS
<1>e. /\ ServerOK(c) /\ c.live /\ (server.live => c = server)
      /\ ~server.live => c.session = server.session + 1
  BY <1>1, <1>d, ContextKeeps
<1>f. ServerOK(Seed(c)) /\ Grown(c, Seed(c)) BY <1>e, SeedKeeps
<1>g. Seed(c).session = c.session /\ Seed(c).live BY <1>e, <1>f DEF Grown
<1>2. CASE Bootstrap
  <2>1. /\ page.boot = 0 /\ server' = Seed(c)
        /\ page' = [page EXCEPT !.boot = server'.session, !.active = SeedOrder[1]]
        /\ UNCHANGED <<replies, poll, view, excused>>
    BY <1>2, <1>d DEF Bootstrap
  <2>2. server'.session \in Nat BY <2>1, <1>f DEF ServerOK, Servers
  <2>3. /\ page' \in Pages /\ page'.boot = server'.session /\ page'.cursor = page.cursor
        /\ page'.active = SeedOrder[1]
    BY <2>1, <2>2, <1>1, <1>a DEF Pages
  <2>4. page'.cursor = [n \in Names |-> None] /\ poll' = NoPoll BY <2>1, <2>3, <1>1 DEF NoPoll
  <2>5. CursorInv' BY <2>4 DEF CursorInv
  <2>6. PollInv' BY <2>4 DEF PollInv, NoPoll
  <2>7. server'.session # 0
    <3>1. server.live => server.session # 0 BY DEF FeedInv, PageOK
    <3> QED BY <2>1, <3>1, <1>b, <1>e, <1>g
  <2>8. PageOK' BY <2>1, <2>2, <2>3, <2>7, <1>1, <1>g DEF PageOK
  <2> QED BY <2>1, <2>5, <2>6, <2>8, <1>f DEF FeedInv
<1>3. CASE \E n \in Names : Switch(n)
  <2>1. PICK n \in Names : Switch(n) BY <1>3
  <2>2. /\ page.boot # 0 /\ page' = [page EXCEPT !.active = n, !.sse = None]
        /\ UNCHANGED <<server, replies, poll, view, excused>>
    BY <2>1 DEF Switch
  <2>3. page' \in Pages /\ page'.boot = page.boot /\ page'.cursor = page.cursor /\ page'.active = n
    BY <2>2, <1>1 DEF Pages
  <2> QED BY <2>2, <2>3, <1>c, PageMoves
<1>4. CASE OpenSse
  <2>1. /\ page.active # None /\ page' = [page EXCEPT !.sse = page.active]
        /\ UNCHANGED <<server, replies, poll, view, excused>>
    BY <1>4 DEF OpenSse
  <2>2. /\ page' \in Pages /\ page'.boot = page.boot /\ page'.cursor = page.cursor
        /\ page'.active = page.active
    BY <2>1, <1>1 DEF Pages
  <2> QED BY <2>1, <2>2, <1>1, PageMoves
<1>5. CASE Send
  <2> DEFINE conv == Mine(page.active)
  <2>1. /\ page.active # None /\ replies = {}
        /\ server' = Keep(Seed(c), conv, Seed(c).made + 1)
        /\ replies' = {[conv |-> conv, stage |-> "start"]}
        /\ view' = view \cup {server'.made} /\ UNCHANGED <<page, poll, excused>>
    BY <1>5, <1>d DEF Send
  <2>2. conv \in Convs BY <2>1, <1>1 DEF Mine, Conversation, Convs, Pages
  <2>3. Seed(c).made + 1 \in Nat BY <1>f DEF ServerOK, Servers
  <2>4. ServerOK(server') /\ Grown(Seed(c), server') BY <2>1, <2>2, <2>3, <1>f, KeepKeeps
  <2>5. Grown(c, server') BY <2>4, <1>e, <1>f, GrownOn
  <2>6. server'.live /\ server'.session = c.session BY <2>5, <1>e DEF Grown
  <2>7. \A r \in replies' : r.conv \in Convs BY <2>1, <2>2
  <2>8. CASE server.live
    <3>1. Grown(server, server') BY <2>5, <2>8, <1>e
    <3> QED BY <2>1, <2>4, <2>6, <2>7, <3>1, ServerGrows
  <2>9. CASE ~server.live
    <3>1. server'.session > server.session BY <2>6, <2>9, <1>e, <1>b
    <3>2. poll # NoPoll => poll \in Polls /\ poll.cursor = page.cursor[poll.name]
      BY DEF FeedInv, PollInv
    <3> QED BY <2>1, <2>4, <2>6, <2>7, <3>1, <3>2, ServerRenewed
  <2> QED BY <2>8, <2>9
<1>6. CASE Connect
  <2>1. /\ poll = NoPoll /\ page' = [page EXCEPT !.connected = TRUE]
        /\ UNCHANGED <<server, replies, poll, view, excused>>
    BY <1>6 DEF Connect
  <2>2. /\ page' \in Pages /\ page'.boot = page.boot /\ page'.cursor = page.cursor
        /\ page'.active = page.active
    BY <2>1, <1>1 DEF Pages
  <2> QED BY <2>1, <2>2, PageMoves
<1>7. CASE Disconnect
  <2>1. /\ page' = [page EXCEPT !.connected = FALSE]
        /\ poll' = IF poll = NoPoll THEN poll ELSE [poll EXCEPT !.stale = TRUE]
        /\ UNCHANGED <<server, replies, view, excused>>
    BY <1>7 DEF Disconnect
  <2>2. /\ page' \in Pages /\ page'.boot = page.boot /\ page'.cursor = page.cursor
        /\ page'.active = page.active
    BY <2>1, <1>1 DEF Pages
  <2>3. poll' = poll \/ (poll # NoPoll /\ poll' \in Polls /\ [poll EXCEPT !.stale = TRUE] = poll')
    <3>1. poll # NoPoll => poll \in Polls BY DEF FeedInv, PollInv
    <3> QED BY <2>1, <3>1 DEF Polls
  <2> QED BY <2>1, <2>2, <2>3, PageMoves
<1>8. CASE PollFails
  <2>1. poll' = NoPoll /\ UNCHANGED <<server, replies, page, view, excused>> BY <1>8 DEF PollFails
  <2> QED BY <2>1, <1>1, PageMoves
<1>9. CASE Reload
  <2>1. page' = FreshPage /\ poll' = NoPoll /\ UNCHANGED <<server, replies>>
    BY <1>9 DEF Reload
  <2>2. /\ page' \in Pages /\ page'.boot = 0 /\ page'.active = None
        /\ page'.cursor = [n \in Names |-> None]
    BY <2>1 DEF FreshPage, Pages
  <2>3. PageOK' BY <2>1, <2>2, <1>b DEF FeedInv, PageOK, NoPoll
  <2>4. CursorInv' BY <2>2 DEF CursorInv
  <2>5. PollInv' BY <2>1 DEF PollInv, NoPoll
  <2> QED BY <2>1, <2>3, <2>4, <2>5, <1>1 DEF FeedInv
<1> QED BY <1>2, <1>3, <1>4, <1>5, <1>6, <1>7, <1>8, <1>9 DEF PageNext

\* A poll is sent with the cursor of its conversation.
LEMMA PollStartsKeeps == ASSUME FeedInv, PollStarts PROVE FeedInv'
<1>1. /\ page.active # None
      /\ poll' = [stage |-> "asked", name |-> page.active, stale |-> FALSE,
                  cursor |-> page.cursor[page.active], next |-> 0, data |-> {}, missed |-> {}]
      /\ UNCHANGED <<server, replies, page, view, excused>>
  BY DEF PollStarts
<1>2. page \in Pages /\ page.active \in Names BY <1>1 DEF FeedInv, PageOK, Pages
<1>3. page.cursor[page.active] \in Nat \cup {None} BY <1>2 DEF Pages
<1>4. /\ poll' \in Polls /\ poll'.stage = "asked" /\ poll'.name = page.active
      /\ poll'.cursor = page.cursor[page.active]
  BY <1>1, <1>2, <1>3 DEF Polls
<1>5. PageOK' BY <1>1, <1>2 DEF FeedInv, PageOK
<1>6. CursorInv' BY <1>1 DEF FeedInv, CursorInv, Mine, Within
<1>7. PollInv' BY <1>1, <1>4 DEF PollInv
<1> QED BY <1>1, <1>5, <1>6, <1>7 DEF FeedInv

\* A poll without a cursor, which has taken the sequence number, reads the messages.
LEMMA PollIsSnapshotKeeps == ASSUME FeedInv, PollIsSnapshot PROVE FeedInv'
<1> DEFINE all == Kept(server, Mine(poll.name))
           first == Snapshot(server, Mine(poll.name))
<1>1. /\ poll.stage = "snapshot"
      /\ poll' = [poll EXCEPT !.stage = "answered", !.data = KeptIds(server, first),
                              !.missed = KeptIds(server, all \ first)]
      /\ UNCHANGED <<server, replies, page, view, excused>>
  BY DEF PollIsSnapshot
<1>2. poll # NoPoll BY <1>1 DEF NoPoll
<1>3. poll \in Polls /\ page.active # None /\ poll.cursor = page.cursor[poll.name]
      /\ (page.boot = server.session => Within(poll.next))
  BY <1>1, <1>2 DEF FeedInv, PollInv
<1>4. ServerOK(server) /\ server.stored \in Seq(Notes) /\ DOMAIN server.stored = 1 .. Len(server.stored)
  BY DEF FeedInv, ServerOK, Servers
<1>5. all \subseteq DOMAIN server.stored /\ first \subseteq all BY DEF Kept, Snapshot
<1>6. \A J \in SUBSET (DOMAIN server.stored) : KeptIds(server, J) \subseteq Nat
  <2>a. \A i \in DOMAIN server.stored : server.stored[i] \in Notes BY <1>4
  <2>1. \A i \in DOMAIN server.stored : server.stored[i].id \in Nat BY <2>a DEF Notes
  <2> QED BY <2>1 DEF KeptIds
<1>7. KeptIds(server, first) \subseteq Nat /\ KeptIds(server, all \ first) \subseteq Nat
  <2> HIDE DEF all, first
  <2> QED BY <1>5, <1>6
<1>8. KeptIds(server, first) \cup KeptIds(server, all \ first) = KeptIds(server, all)
  BY <1>5 DEF KeptIds
<1>9. \A n, got : Covered(server, Mine(poll.name), n, got \cup KeptIds(server, all))
  <2> SUFFICES ASSUME NEW n, NEW got, NEW i \in 1 .. Len(server.log),
                      server.log[i].conv = Mine(poll.name), server.log[i].kind = "message"
               PROVE  server.log[i].id \in KeptIds(server, all)
    BY DEF Covered
  <2>1. PICK j \in 1 .. Len(server.stored) :
            server.stored[j].conv = server.log[i].conv /\ server.stored[j].id = server.log[i].id
    BY <1>4 DEF ServerOK
  <2>2. j \in all BY <2>1, <1>4 DEF Kept
  <2> HIDE DEF all
  <2> QED BY <2>1, <2>2 DEF KeptIds
<1> HIDE DEF all, first
<1>10. /\ poll' \in Polls /\ poll'.name = poll.name /\ poll'.cursor = poll.cursor
       /\ poll'.next = poll.next
       /\ poll'.data = KeptIds(server, first) /\ poll'.missed = KeptIds(server, all \ first)
  BY <1>1, <1>3, <1>7 DEF Polls
<1>11. Covered(server, Mine(poll.name), poll.next, view \cup excused \cup poll'.data \cup poll'.missed)
  <2>1. view \cup excused \cup poll'.data \cup poll'.missed = (view \cup excused) \cup KeptIds(server, all)
    BY <1>8, <1>10
  <2> QED BY <2>1, <1>9
<1>12. PageOK' BY <1>1, <1>3 DEF FeedInv, PageOK
<1>13. CursorInv' BY <1>1 DEF FeedInv, CursorInv, Mine, Within
<1>14. PollInv' BY <1>1, <1>3, <1>10, <1>11 DEF PollInv, Mine, Within
<1> QED BY <1>1, <1>4, <1>12, <1>13, <1>14 DEF FeedInv

\* The cursor that a poll with a cursor brings, and what the history held no more.
NextCursor(s, cursor, conv) ==
    LET after == EventsAfter(s, cursor, conv)
    IN  IF after = {} THEN cursor ELSE CHOOSE i \in after : \A j \in after : j <= i
MissedOf(s, conv) == {s.log[i].id : i \in {j \in Trimmed(s) : s.log[j].conv = conv}}

\* What a poll with a cursor reads of a live session.
LEMMA EventsAreRead ==
    ASSUME NEW s, ServerOK(s), NEW cursor \in Nat, NEW conv, NEW got
    PROVE  /\ NextCursor(s, cursor, conv) \in Nat
           /\ cursor <= Len(s.log) => NextCursor(s, cursor, conv) <= Len(s.log)
           /\ Messages(s, EventsAfter(s, cursor, conv)) \subseteq Nat
           /\ MissedOf(s, conv) \subseteq Nat
           /\ Covered(s, conv, cursor, got) =>
                Covered(s, conv, NextCursor(s, cursor, conv),
                        got \cup Messages(s, EventsAfter(s, cursor, conv)) \cup MissedOf(s, conv))
<1> DEFINE after == EventsAfter(s, cursor, conv)
           next == IF after = {} THEN cursor ELSE CHOOSE i \in after : \A j \in after : j <= i
           missed == {s.log[i].id : i \in {j \in Trimmed(s) : s.log[j].conv = conv}}
<1>1. s.log \in Seq(Events) /\ Len(s.log) \in Nat /\ DOMAIN s.log = 1 .. Len(s.log)
  BY DEF ServerOK, Servers
<1>a. \A i \in 1 .. Len(s.log) : s.log[i] \in Events BY <1>1
<1>2. \A i \in 1 .. Len(s.log) : s.log[i].id \in Nat BY <1>a DEF Events
<1>3. after \subseteq 1 .. Len(s.log) BY <1>1 DEF EventsAfter
<1>4. Messages(s, after) \subseteq Nat
  <2> HIDE DEF after
  <2> QED BY <1>2, <1>3 DEF Messages
<1>5. Trimmed(s) \subseteq 1 .. Len(s.log) BY <1>1 DEF Trimmed
<1>6. missed \subseteq Nat BY <1>2, <1>5
<1>7. next \in Nat /\ (cursor <= Len(s.log) => next <= Len(s.log)) /\ \A i \in after : i <= next
  <2> HIDE DEF after
  <2>1. CASE after = {} BY <2>1
  <2>2. CASE after # {}
    <3>1. after \subseteq 0 .. Len(s.log) BY <1>1, <1>3
    <3>2. \E i \in after : \A j \in after : j <= i BY <1>1, <2>2, <3>1, GreatestElement
    <3>3. next \in after /\ \A j \in after : j <= next BY <2>2, <3>2
    <3> HIDE DEF next
    <3> QED BY <3>1, <3>3, <1>3
  <2> QED BY <2>1, <2>2
<1>8. ASSUME Covered(s, conv, cursor, got) PROVE Covered(s, conv, next, got \cup Messages(s, after) \cup missed)
  <2> SUFFICES ASSUME NEW i \in 1 .. Len(s.log), i <= next, s.log[i].conv = conv,
                      s.log[i].kind = "message"
               PROVE  s.log[i].id \in got \cup Messages(s, after) \cup missed
    <3> HIDE DEF next, after, missed
    <3> QED BY DEF Covered
  <2>1. CASE i <= cursor BY <2>1, <1>8 DEF Covered
  <2>2. CASE i \in Trimmed(s)
    <3>1. s.log[i].id \in missed BY <2>2
    <3> QED BY <3>1
  <2>3. CASE i > cursor /\ i \notin Trimmed(s)
    <3>1. i \in after BY <2>3, <1>1 DEF EventsAfter
    <3> HIDE DEF after, next, missed
    <3>2. s.log[i].id \in Messages(s, after) BY <3>1 DEF Messages
    <3> QED BY <3>2
  <2> HIDE DEF next, after, missed
  <2> QED BY <2>1, <2>2, <2>3
<1>9. NextCursor(s, cursor, conv) = next /\ MissedOf(s, conv) = missed BY DEF NextCursor, MissedOf
<1> HIDE DEF next, missed
<1> QED BY <1>4, <1>6, <1>7, <1>8, <1>9

\* A poll with a cursor reads the events behind it.
LEMMA PollIsReadKeeps == ASSUME FeedInv, PollIsRead PROVE FeedInv'
<1>1. PICK s : s = Context(server) OBVIOUS
<1> DEFINE conv == Mine(poll.name)
           after == EventsAfter(s, poll.cursor, conv)
           next == NextCursor(s, poll.cursor, conv)
           missed == MissedOf(s, conv)
<1>2. /\ poll.stage = "asked" /\ server' = s
      /\ \/ /\ poll.cursor = None
            /\ poll' = [poll EXCEPT !.stage = "snapshot", !.next = Latest(s)]
         \/ /\ poll.cursor # None
            /\ poll' = [poll EXCEPT !.stage = "answered", !.data = Messages(s, after),
                                    !.next = next, !.missed = missed]
      /\ UNCHANGED <<replies, page, view, excused>>
  BY <1>1 DEF PollIsRead, NextCursor, MissedOf
<1>3. ServerOK(server) /\ ServerOK(s) /\ s.live /\ (server.live => s = server)
      /\ (~server.live => s.session = server.session + 1)
  BY <1>1, ContextKeeps DEF FeedInv
<1>4. poll # NoPoll BY <1>2 DEF NoPoll
<1>5. poll \in Polls /\ page.active # None /\ poll.cursor = page.cursor[poll.name] /\ poll.name \in Names
      /\ poll.cursor \in Nat \cup {None}
  BY <1>4 DEF FeedInv, PollInv, Polls
<1>6. Len(s.log) \in Nat /\ Latest(s) = Len(s.log) /\ server.session \in Nat
  BY <1>3 DEF ServerOK, Servers, Latest
<1>7. s.log \in Seq(Events) /\ DOMAIN s.log = 1 .. Len(s.log) BY <1>3 DEF ServerOK, Servers
<1>8. CASE poll.cursor = None
  <2>1. poll' = [poll EXCEPT !.stage = "snapshot", !.next = Latest(s)] BY <1>2, <1>8
  <2>2. /\ poll' \in Polls /\ poll'.name = poll.name /\ poll'.cursor = poll.cursor
        /\ poll'.next = Len(s.log) /\ poll'.stage = "snapshot"
    BY <2>1, <1>5, <1>6 DEF Polls
  <2>3. CASE server.live
    <3>1. UNCHANGED server BY <2>3, <1>2, <1>3
    <3>2. PageOK' BY <3>1, <1>2, <1>5 DEF FeedInv, PageOK
    <3>3. CursorInv' BY <3>1, <1>2 DEF FeedInv, CursorInv, Mine, Within
    <3>4. Within(poll.next)' BY <2>2, <1>2, <1>6 DEF Within
    <3>5. PollInv' BY <3>4, <2>2, <1>2, <1>5 DEF PollInv
    <3> QED BY <3>1, <3>2, <3>3, <3>5, <1>3 DEF FeedInv
  <2>4. CASE ~server.live
    <3>1. server'.session > server.session BY <2>4, <1>2, <1>3, <1>6
    <3>2. \A r \in replies' : r.conv \in Convs BY <1>2 DEF FeedInv, PageOK
    <3> QED BY <3>1, <3>2, <2>2, <1>2, <1>3, <1>4, <1>5, ServerRenewed
  <2> QED BY <2>3, <2>4
<1>9. CASE poll.cursor # None
  <2>1. poll' = [poll EXCEPT !.stage = "answered", !.data = Messages(s, after),
                            !.next = next, !.missed = missed]
    BY <1>2, <1>9
  <2>2. poll.cursor \in Nat BY <1>5, <1>9
  <2>3. /\ next \in Nat /\ (poll.cursor <= Len(s.log) => next <= Len(s.log))
        /\ Messages(s, after) \subseteq Nat /\ missed \subseteq Nat
    BY <2>2, <1>3, EventsAreRead
  <2>4. ASSUME Covered(s, conv, poll.cursor, view \cup excused)
        PROVE  Covered(s, conv, next, view \cup excused \cup Messages(s, after) \cup missed)
    BY <2>2, <2>4, <1>3, EventsAreRead
  <2> HIDE DEF conv, after, next, missed
  <2>5. /\ poll' \in Polls /\ poll'.name = poll.name /\ poll'.cursor = poll.cursor
        /\ poll'.next = next /\ poll'.stage = "answered"
        /\ poll'.data = Messages(s, after) /\ poll'.missed = missed
    BY <2>1, <2>3, <1>5 DEF Polls
  <2>6. CASE server.live
    <3>1. UNCHANGED server /\ s = server BY <2>6, <1>2, <1>3
    <3>2. PageOK' BY <3>1, <1>2, <1>5 DEF FeedInv, PageOK
    <3>3. CursorInv' BY <3>1, <1>2 DEF FeedInv, CursorInv, Mine, Within
    <3>4. ASSUME page.boot = server.session
          PROVE  /\ Covered(server, conv, next, view \cup excused \cup Messages(s, after) \cup missed)
                 /\ next <= Len(server.log)
      <4>1. Covered(server, conv, poll.cursor, view \cup excused) /\ poll.cursor <= Len(server.log)
        BY <3>4, <2>6, <1>5, <1>9 DEF FeedInv, CursorInv, Within, conv
      <4> QED BY <4>1, <3>1, <2>3, <2>4
    <3>5. PollInv' BY <3>1, <3>4, <2>5, <1>2, <1>5 DEF PollInv, Within, Mine, conv
    <3> QED BY <3>1, <3>2, <3>3, <3>5, <1>3 DEF FeedInv
  <2>7. CASE ~server.live
    <3>1. server'.session > server.session BY <2>7, <1>2, <1>3, <1>6
    <3>2. \A r \in replies' : r.conv \in Convs BY <1>2 DEF FeedInv, PageOK
    <3> QED BY <3>1, <3>2, <2>5, <1>2, <1>3, <1>4, <1>5, ServerRenewed
  <2> QED BY <2>6, <2>7
<1> QED BY <1>8, <1>9

\* The answer reaches the page, or the page has gone on.
LEMMA PollAnswersKeeps == ASSUME FeedInv, PollAnswers PROVE FeedInv'
<1> DEFINE lost == (IF poll.stale THEN poll.data ELSE {})
           jumped == (IF page.active = poll.name THEN {}
                      ELSE Announced(server, Mine(page.active), poll.next))
<1>1. /\ poll.stage = "answered"
      /\ page' = [page EXCEPT !.cursor[page.active] = poll.next]
      /\ view' = (IF poll.stale THEN view ELSE view \cup poll.data)
      /\ excused' = (excused \cup poll.missed \cup lost \cup jumped) \ (view' \cup {0})
      /\ poll' = NoPoll /\ UNCHANGED <<server, replies>>
  BY DEF PollAnswers
<1> HIDE DEF lost
<1>2. poll # NoPoll BY <1>1 DEF NoPoll
<1>3. /\ poll \in Polls /\ page.active # None /\ poll.next \in Nat
      /\ page.boot = server.session =>
            /\ Within(poll.next)
            /\ Covered(server, Mine(poll.name), poll.next, view \cup excused \cup poll.data \cup poll.missed)
  BY <1>1, <1>2 DEF FeedInv, PollInv, Polls
<1>4. page \in Pages /\ page.active \in Names /\ ServerOK(server)
  BY <1>3 DEF FeedInv, PageOK, Pages
<1>5. /\ page' \in Pages /\ page'.boot = page.boot /\ page'.active = page.active
      /\ page'.cursor[page.active] = poll.next
      /\ \A n \in Names \ {page.active} : page'.cursor[n] = page.cursor[n]
  BY <1>1, <1>3, <1>4 DEF Pages
<1>6. PageOK' BY <1>1, <1>2, <1>5 DEF FeedInv, PageOK
<1>7. /\ (view \cup excused) \ {0} \subseteq view' \cup excused'
      /\ (poll.data \cup poll.missed) \ {0} \subseteq view' \cup excused'
      /\ jumped \ {0} \subseteq view' \cup excused'
  <2> HIDE DEF jumped
  <2> QED BY <1>1 DEF lost
<1>8. ASSUME NEW conv, NEW n, NEW got, Covered(server, conv, n, got), got \ {0} \subseteq view' \cup excused'
      PROVE  Covered(server, conv, n, view' \cup excused')
  <2>1. \A i \in 1 .. Len(server.log) : server.log[i].kind = "message" => server.log[i].id # 0
    BY <1>4 DEF ServerOK
  <2> QED BY <2>1, <1>8 DEF Covered
<1>9. CursorInv'
  <2> SUFFICES ASSUME page.boot = server.session, NEW name \in Names, page'.cursor[name] # None
               PROVE  /\ Covered(server, Mine(name), page'.cursor[name], view' \cup excused')
                      /\ Within(page'.cursor[name])
    BY <1>1, <1>5 DEF CursorInv, Mine, Within
  <2>1. CASE name # page.active
    <3>1. Covered(server, Mine(name), page.cursor[name], view \cup excused) /\ Within(page.cursor[name])
      BY <2>1, <1>5 DEF FeedInv, CursorInv
    <3> QED BY <3>1, <2>1, <1>5, <1>7, <1>8
  <2>2. CASE name = page.active /\ page.active = poll.name
    <3>1. (view \cup excused \cup poll.data \cup poll.missed) \ {0} \subseteq view' \cup excused'
      BY <1>7
    <3> QED BY <3>1, <2>2, <1>3, <1>5, <1>8
  <2>3. CASE name = page.active /\ page.active # poll.name
    <3>1. jumped = Announced(server, Mine(name), poll.next) BY <2>3
    <3>2. DOMAIN server.log = 1 .. Len(server.log) BY <1>4 DEF ServerOK, Servers
    <3>3. Covered(server, Mine(name), poll.next, Announced(server, Mine(name), poll.next))
      BY <3>2 DEF Covered, Announced
    <3> HIDE DEF jumped
    <3> QED BY <3>1, <3>3, <2>3, <1>3, <1>5, <1>7, <1>8
  <2> QED BY <2>1, <2>2, <2>3
<1>10. PollInv' BY <1>1 DEF PollInv, NoPoll
<1> QED BY <1>1, <1>4, <1>6, <1>9, <1>10 DEF FeedInv

\* The invariant holds before the first request.
LEMMA FeedStarts == ASSUME Init PROVE FeedInv
<1>1. server \in Servers /\ server.log = <<>> /\ ~server.live /\ server.session = 0
  <2>1. <<>> \in Seq(Events) /\ <<>> \in Seq(Notes) OBVIOUS
  <2> QED BY <2>1 DEF Init, Servers
<1>2. ServerOK(server) BY <1>1 DEF ServerOK
<1>3. page \in Pages /\ page.boot = 0 /\ page.active = None /\ page.cursor = [n \in Names |-> None]
  BY DEF Init, FreshPage, Pages
<1>4. PageOK BY <1>1, <1>3 DEF Init, PageOK
<1>5. CursorInv BY <1>3 DEF CursorInv
<1>6. PollInv BY DEF Init, PollInv
<1> QED BY <1>2, <1>4, <1>5, <1>6 DEF FeedInv

\* Every step keeps the invariant.
LEMMA FeedKept == ASSUME FeedInv, [Next]_vars PROVE FeedInv'
<1>1. CASE ServerNext BY <1>1, ServerSteps
<1>2. CASE PageNext BY <1>2, PageSteps
<1>3. CASE PollNext
  BY <1>3, PollStartsKeeps, PollIsReadKeeps, PollIsSnapshotKeeps, PollAnswersKeeps DEF PollNext
<1>4. CASE UNCHANGED vars
  BY <1>4 DEF vars, FeedInv, PageOK, CursorInv, PollInv, Mine, Within
<1> QED BY <1>1, <1>2, <1>3, <1>4 DEF Next

\* runtime-registry.ts and client-runtime.ts: a message that a cursor has passed the page has got, or
\* it was in a batch that a disconnect() dropped, trimmed from the history, beyond the snapshot's
\* limit, or jumped over by another conversation's cursor; for any history and snapshot limits,
\* conversations, sessions and polls.
THEOREM CursorsSkipNothing == Spec => []NothingSkipped
<1>1. FeedInv => NothingSkipped
  <2> SUFFICES ASSUME FeedInv, NEW name \in Names PROVE Messages(server, Passed(name)) \subseteq view \cup excused
    BY DEF NothingSkipped
  <2>1. DOMAIN server.log = 1 .. Len(server.log) BY DEF FeedInv, ServerOK, Servers
  <2>2. CASE page.boot = server.session /\ page.cursor[name] # None
    <3>1. Covered(server, Mine(name), page.cursor[name], view \cup excused)
      BY <2>2 DEF FeedInv, CursorInv
    <3> QED BY <3>1, <2>1 DEF Covered, Messages, Passed
  <2>3. CASE ~(page.boot = server.session /\ page.cursor[name] # None)
    BY <2>3 DEF Passed, Messages
  <2> QED BY <2>2, <2>3
<1> QED BY <1>1, FeedStarts, FeedKept, PTL DEF Spec
===============================================================================
