-------------------- MODULE BrowserProofs --------------------
(*****************************************************************************)
(* What the page shows, for every value of the constants: the lists of a     *)
(* chat surface, the typing indicator, the developer tools, and what the     *)
(* stream bridge tells the page's engine.                                    *)
(*                                                                           *)
(* An entry of the typing indicator was renewed RemoteTtl before it expires. *)
(* While the typist types on, either no start has left since then, and the   *)
(* idle timer says how long that can last, or one that left soon after is on *)
(* its way.                                                                  *)
(*****************************************************************************)
EXTENDS ConversationView, Typing, DevTools, StreamBridge, SequenceTheorems, TLAPS

-------------------------------------------------------------------------------
(* ConversationView *)

Lists == [Ids -> Versions]

ViewTypes ==
    /\ stored \in Lists
    /\ news \in [Ids -> {None, "received", "updated", "deleted", "sent"}]
    /\ effect \in Nat /\ conv \in Conversations
    /\ shown \in [conv : Conversations, messages : Lists]
    /\ loads \subseteq [effect : Nat, answer : Lists \cup {None}]
    /\ loaded \in BOOLEAN
    /\ sending \in [Own -> {"no", "saving", "out", "done", "failed"}]
    /\ entries \subseteq Own
    /\ stream \in [Streams -> {"idle", "running", "over"}]
    /\ preview \in [conv : Conversations, of : Streams \cup {None}, effect : Nat]
    /\ excused \subseteq Ids
    /\ \A l \in loads : l.effect <= effect
    /\ preview.effect <= effect

\* Messages the list is to follow: nothing is about to be said of them, the hook has missed
\* nothing, and they are not left pending by a send.
Followed(m) ==
    /\ news[m] = None /\ m \notin excused
    /\ ~(m \in Own /\ sending[m] \in {"out", "failed"})

\* The answered loads that will be merged.
Answers == {l \in loads : l.effect = effect /\ l.answer # None}

\* A snapshot, also one of the conversation left, has no old version of such a message;
\* an answer completes the list, and a list that was completed is complete.
FollowInv ==
    /\ \A m \in Ids : news[m] # None /\ stored[m] = "absent" => news[m] = "deleted"
    /\ \A m \in Ids : Followed(m) /\ shown.conv = ConvOf[m] =>
         shown.messages[m] \in {"absent", stored[m]}
    /\ \A m \in Ids : Followed(m) /\ ConvOf[m] = conv =>
         /\ \A l \in Answers : Merge(Visible, l.answer)[m] = stored[m]
         /\ loaded => Visible[m] = stored[m]

\* An own message is an entry until the list has it: before it is saved nobody else knows
\* it, later every answer the list may take over has it or finds it there.
OwnInv ==
    \A m \in Own :
        /\ sending[m] \in {"no", "saving"} =>
             /\ stored[m] = "absent" /\ news[m] = None /\ shown.messages[m] = "absent"
             /\ \A l \in loads : l.answer # None => l.answer[m] = "absent"
        /\ sending[m] = "saving" => m \in entries
        /\ sending[m] \in {"out", "done"} => stored[m] # "absent"
        /\ sending[m] \in {"out", "done"} /\ m \notin entries /\ ConvOf[m] = conv =>
             /\ \A l \in Answers : Merge(Visible, l.answer)[m] # "absent"
             /\ loaded => Visible[m] # "absent"

PreviewInv ==
    preview.of # None /\ preview.effect = effect =>
        /\ listening = preview.of /\ ConvOf[preview.of] = conv
        /\ stream[preview.of] = "running"

ViewInv == ViewTypes /\ FollowInv /\ OwnInv /\ PreviewInv

\* Every step keeps the types, and no load or preview is of an effect to come.
LEMMA TypesKept ==
    ASSUME ViewTypes, [Next]_vars
    PROVE  ViewTypes'
<1> USE ViewAssumption DEF ViewTypes, Lists, messageVars, sendVars, streamVars, Store, Heard, Visible, Nothing, Versions, Merge, Preview, EndIsHeard, Reconciled
<1>0. CASE UNCHANGED vars
  BY <1>0 DEF vars
<1>1. ASSUME NEW m \in Ids, Receive(m) PROVE ViewTypes'
  BY <1>1 DEF Receive
<1>2. ASSUME NEW m \in Ids, Edit(m) PROVE ViewTypes'
  BY <1>2 DEF Edit
<1>3. ASSUME NEW m \in Ids, Delete(m) PROVE ViewTypes'
  BY <1>3 DEF Delete
<1>4. ASSUME NEW m \in Ids, Announce(m) PROVE ViewTypes'
  BY <1>4 DEF Announce
<1>5. CASE Reconnected
  BY <1>5 DEF Reconnected
<1>6. ASSUME NEW l \in loads, LoadIsRead(l) PROVE ViewTypes'
  BY <1>6 DEF LoadIsRead
<1>7. ASSUME NEW l \in loads, LoadIsMerged(l) PROVE ViewTypes'
  <2>1. l.answer \in Lists
    BY <1>7 DEF LoadIsMerged
  <2>2. Merge(Visible, l.answer) \in Lists
    BY <2>1
  <2>3. loads' \subseteq [effect : Nat, answer : Lists \cup {None}] /\ \A k \in loads' : k.effect <= effect
    BY <1>7 DEF LoadIsMerged
  <2>4. [conv |-> conv, messages |-> Merge(Visible, l.answer)] \in [conv : Conversations, messages : Lists]
    BY <2>2
  <2> HIDE DEF Lists, Merge, Visible
  <2> QED
    BY <1>7, <2>3, <2>4 DEF LoadIsMerged
<1>8. ASSUME NEW m \in Own, SendStarts(m) PROVE ViewTypes'
  BY <1>8 DEF SendStarts
<1>9. ASSUME NEW m \in Own, SendIsSaved(m) PROVE ViewTypes'
  BY <1>9 DEF SendIsSaved
<1>10. ASSUME NEW m \in Own, SendIsOut(m) PROVE ViewTypes'
  BY <1>10 DEF SendIsOut
<1>11. ASSUME NEW m \in Own, SendFails(m) PROVE ViewTypes'
  BY <1>11 DEF SendFails
<1>12. CASE Reconcile
  BY <1>12 DEF Reconcile
<1>13. ASSUME NEW s \in Streams, StreamStarts(s) PROVE ViewTypes'
  BY <1>13 DEF StreamStarts
<1>14. ASSUME NEW s \in Streams, StreamIsOver(s) PROVE ViewTypes'
  BY <1>14 DEF StreamIsOver
<1>15. ASSUME NEW c \in Conversations, Switch(c) PROVE ViewTypes'
  <2>1. \A l \in loads' : l.effect <= effect'
    BY <1>15 DEF Switch
  <2>2. [effect |-> effect + 1, answer |-> None] \in [effect : Nat, answer : Lists \cup {None}]
    OBVIOUS
  <2>3. loads' \subseteq [effect : Nat, answer : Lists \cup {None}]
    BY <1>15, <2>2 DEF Switch
  <2> HIDE DEF Lists
  <2> QED
    <3>1. /\ conv' = c /\ effect' = effect + 1 /\ loaded' = FALSE
          /\ UNCHANGED <<stored, news, shown, excused, sending, entries, stream, preview>>
      BY <1>15 DEF Switch, sendVars
    <3> QED
      <4>1. effect \in Nat /\ preview.effect \in Nat /\ preview.effect <= effect
        OBVIOUS
      <4>2. effect' \in Nat /\ preview'.effect <= effect'
        BY <3>1, <4>1
      <4>3. shown' = shown /\ preview' = preview /\ stream' = stream
        BY <3>1
      <4>4. shown' \in [conv : Conversations, messages : Lists]
        BY <4>3
      <4>5. preview' \in [conv : Conversations, of : Streams \cup {None}, effect : Nat]
        BY <4>3
      <4>6. stored' \in Lists
        BY <3>1
      <4> QED
        BY <2>1, <2>3, <3>1, <4>2, <4>4, <4>5, <4>6
<1> QED
  BY <1>0, <1>1, <1>2, <1>3, <1>4, <1>5, <1>6, <1>7, <1>8, <1>9, <1>10, <1>11, <1>12, <1>13, <1>14, <1>15
     DEF Next, EngineNext, LoadNext, SendNext, StreamNext

\* Cleaning up an effect takes its preview along; no other step ends a stream behind it.
LEMMA PreviewKept ==
    ASSUME ViewTypes, PreviewInv, [Next]_vars
    PROVE  PreviewInv'
<1> USE ViewAssumption DEF ViewTypes, PreviewInv, messageVars, sendVars, streamVars, Preview, EndIsHeard
<1>0. CASE UNCHANGED vars
  BY <1>0 DEF vars
<1>1. ASSUME NEW m \in Ids, Receive(m) PROVE PreviewInv'
  BY <1>1 DEF Receive
<1>2. ASSUME NEW m \in Ids, Edit(m) PROVE PreviewInv'
  BY <1>2 DEF Edit
<1>3. ASSUME NEW m \in Ids, Delete(m) PROVE PreviewInv'
  BY <1>3 DEF Delete
<1>4. ASSUME NEW m \in Ids, Announce(m) PROVE PreviewInv'
  BY <1>4 DEF Announce
<1>5. CASE Reconnected
  BY <1>5 DEF Reconnected
<1>6. ASSUME NEW l \in loads, LoadIsRead(l) PROVE PreviewInv'
  BY <1>6 DEF LoadIsRead
<1>7. ASSUME NEW l \in loads, LoadIsMerged(l) PROVE PreviewInv'
  BY <1>7 DEF LoadIsMerged
<1>8. ASSUME NEW m \in Own, SendStarts(m) PROVE PreviewInv'
  BY <1>8 DEF SendStarts
<1>9. ASSUME NEW m \in Own, SendIsSaved(m) PROVE PreviewInv'
  BY <1>9 DEF SendIsSaved
<1>10. ASSUME NEW m \in Own, SendIsOut(m) PROVE PreviewInv'
  BY <1>10 DEF SendIsOut
<1>11. ASSUME NEW m \in Own, SendFails(m) PROVE PreviewInv'
  BY <1>11 DEF SendFails
<1>12. CASE Reconcile
  BY <1>12 DEF Reconcile
<1>13. ASSUME NEW s \in Streams, StreamStarts(s) PROVE PreviewInv'
  BY <1>13 DEF StreamStarts
<1>14. ASSUME NEW s \in Streams, StreamIsOver(s) PROVE PreviewInv'
  BY <1>14 DEF StreamIsOver
<1>15. ASSUME NEW c \in Conversations, Switch(c) PROVE PreviewInv'
  BY <1>15 DEF Switch
<1> QED
  BY <1>0, <1>1, <1>2, <1>3, <1>4, <1>5, <1>6, <1>7, <1>8, <1>9, <1>10, <1>11, <1>12, <1>13, <1>14, <1>15
     DEF Next, EngineNext, LoadNext, SendNext, StreamNext

\* A send's entry is given up only for a record that the list already has or will be given.
LEMMA OwnKept ==
    ASSUME ViewTypes, OwnInv, [Next]_vars
    PROVE  OwnInv'
<1> USE ViewAssumption DEF ViewTypes, OwnInv, messageVars, sendVars, streamVars, Lists, Store, Heard, Visible, Nothing, Versions, Merge, Answers, Reconciled, Ids
<1>0. CASE UNCHANGED vars
  BY <1>0 DEF vars
<1>1. ASSUME NEW m \in Ids, Receive(m) PROVE OwnInv'
  BY <1>1 DEF Receive
<1>2. ASSUME NEW m \in Ids, Edit(m) PROVE OwnInv'
  BY <1>2 DEF Edit
<1>3. ASSUME NEW m \in Ids, Delete(m) PROVE OwnInv'
  BY <1>3 DEF Delete
<1>4. ASSUME NEW m \in Ids, Announce(m) PROVE OwnInv'
  BY <1>4 DEF Announce
<1>5. CASE Reconnected
  BY <1>5 DEF Reconnected
<1>6. ASSUME NEW l \in loads, LoadIsRead(l) PROVE OwnInv'
  BY <1>6 DEF LoadIsRead
<1>7. ASSUME NEW l \in loads, LoadIsMerged(l) PROVE OwnInv'
  BY <1>7 DEF LoadIsMerged
<1>8. ASSUME NEW m \in Own, SendStarts(m) PROVE OwnInv'
  BY <1>8 DEF SendStarts
<1>9. ASSUME NEW m \in Own, SendIsSaved(m) PROVE OwnInv'
  BY <1>9 DEF SendIsSaved
<1>10. ASSUME NEW m \in Own, SendIsOut(m) PROVE OwnInv'
  BY <1>10 DEF SendIsOut
<1>11. ASSUME NEW m \in Own, SendFails(m) PROVE OwnInv'
  BY <1>11 DEF SendFails
<1>12. CASE Reconcile
  BY <1>12 DEF Reconcile
<1>13. ASSUME NEW s \in Streams, StreamStarts(s) PROVE OwnInv'
  BY <1>13 DEF StreamStarts
<1>14. ASSUME NEW s \in Streams, StreamIsOver(s) PROVE OwnInv'
  BY <1>14 DEF StreamIsOver
<1>15. ASSUME NEW c \in Conversations, Switch(c) PROVE OwnInv'
  BY <1>15 DEF Switch
<1> QED
  BY <1>0, <1>1, <1>2, <1>3, <1>4, <1>5, <1>6, <1>7, <1>8, <1>9, <1>10, <1>11, <1>12, <1>13, <1>14, <1>15
     DEF Next, EngineNext, LoadNext, SendNext, StreamNext

\* Loads, events and switches: what an answer holds of a followed message is what is stored.
LEMMA FollowKept ==
    ASSUME ViewTypes, FollowInv, OwnInv, [Next]_vars
    PROVE  FollowInv'
<1> USE ViewAssumption DEF ViewTypes, FollowInv, messageVars, sendVars, streamVars, Lists, Store, Heard, Visible, Nothing, Versions, Merge, Answers, Followed, Ids
<1>0. CASE UNCHANGED vars
  BY <1>0 DEF vars
<1>1. ASSUME NEW m \in Ids, Receive(m) PROVE FollowInv'
  BY <1>1 DEF Receive
<1>2. ASSUME NEW m \in Ids, Edit(m) PROVE FollowInv'
  BY <1>2 DEF Edit
<1>3. ASSUME NEW m \in Ids, Delete(m) PROVE FollowInv'
  BY <1>3 DEF Delete
<1>4. ASSUME NEW m \in Ids, Announce(m) PROVE FollowInv'
  <2>1. /\ news[m] # None /\ news' = [news EXCEPT ![m] = None]
        /\ UNCHANGED <<effect, conv, stored, loads, loaded, sending>>
    BY <1>4 DEF Announce
  <2>2. CASE ConvOf[m] # conv
    BY <1>4, <2>1, <2>2 DEF Announce
  <2>3. CASE ConvOf[m] = conv
    <3>1. shown' = [conv |-> conv, messages |-> [Visible EXCEPT ![m] = stored[m]]] /\ Visible \in Lists
      BY <1>4, <2>3 DEF Announce
    <3>2. shown'.conv = conv /\ Visible'[m] = stored[m] /\ \A n \in Ids \ {m} : Visible'[n] = Visible[n]
      BY <2>1, <3>1
    <3>3. excused \subseteq excused'
      BY <1>4 DEF Announce
    <3>4. ASSUME m \notin excused', NEW l \in Answers' PROVE Merge(Visible', l.answer)[m] = stored[m]
      BY <1>4, <2>1, <3>2, <3>4 DEF Announce
    <3> QED
      <4>1. ASSUME NEW n \in Ids, Followed(n)', n # m
            PROVE  /\ Followed(n)
                   /\ \A l \in Answers : Merge(Visible', l.answer)[n] = Merge(Visible, l.answer)[n]
        BY <2>1, <3>2, <3>3, <4>1
      <4>2. shown'.messages = Visible'
        BY <2>1, <3>1
      <4>3. Answers' = Answers
        BY <2>1
      <4>4. ASSUME NEW n \in Ids, Followed(n)', n # m, shown'.conv = ConvOf[n]
            PROVE  shown'.messages[n] \in {"absent", stored'[n]}
        BY <2>1, <3>2, <4>1, <4>2, <4>4
      <4>5. ASSUME NEW n \in Ids, Followed(n)', n # m, ConvOf[n] = conv
            PROVE  /\ \A l \in Answers' : Merge(Visible', l.answer)[n] = stored'[n]
                   /\ loaded' => Visible'[n] = stored'[n]
        <5>1. /\ \A l \in Answers : Merge(Visible, l.answer)[n] = stored[n]
              /\ loaded => Visible[n] = stored[n]
          BY <4>1, <4>5
        <5>2. stored'[n] = stored[n] /\ Visible'[n] = Visible[n] /\ loaded' = loaded
          BY <2>1, <3>2, <4>5
        <5> HIDE DEF Merge, Visible, Answers
        <5> QED
          BY <4>1, <4>3, <4>5, <5>1, <5>2
      <4>6. \A n \in Ids : news'[n] # None /\ stored'[n] = "absent" => news'[n] = "deleted"
        BY <2>1
      <4>7. Followed(m)' => m \notin excused'
        OBVIOUS
      <4> HIDE DEF Merge, Visible, Followed, Answers
      <4> QED
        BY <2>1, <3>2, <3>4, <4>2, <4>4, <4>5, <4>6, <4>7
  <2> QED
    BY <2>2, <2>3
<1>5. CASE Reconnected
  BY <1>5 DEF Reconnected
<1>6. ASSUME NEW l \in loads, LoadIsRead(l) PROVE FollowInv'
  BY <1>6 DEF LoadIsRead
<1>7. ASSUME NEW l \in loads, LoadIsMerged(l) PROVE FollowInv'
  <2>1. l.answer \in Lists /\ loads' = loads \ {l} /\ UNCHANGED <<effect, conv, stored, news, excused, sending>>
    BY <1>7 DEF LoadIsMerged
  <2>2. CASE l.effect # effect
    BY <1>7, <2>1, <2>2 DEF LoadIsMerged
  <2>3. CASE l.effect = effect
    <3>1. Visible' = Merge(Visible, l.answer) /\ shown'.conv = conv /\ shown'.messages = Visible'
      BY <1>7, <2>1, <2>3 DEF LoadIsMerged
    <3>2. ASSUME NEW m \in Ids, Followed(m), ConvOf[m] = conv PROVE Visible'[m] = stored[m]
      <4>1. l \in Answers
        BY <1>7, <2>3 DEF LoadIsMerged
      <4>2. Merge(Visible, l.answer)[m] = stored[m]
        BY <3>2, <4>1
      <4> HIDE DEF Visible, Merge
      <4> QED
        BY <3>1, <4>2
    <3>3. ASSUME NEW m \in Ids, Followed(m), ConvOf[m] = conv, NEW k \in Answers'
          PROVE  Merge(Visible', k.answer)[m] = stored[m]
      <4>1. Visible'[m] = stored[m]
        BY <3>2, <3>3
      <4>2. k \in Answers
        BY <2>1
      <4>3. Merge(Visible, k.answer)[m] = stored[m]
        BY <3>3, <4>2
      <4>4. stored[m] = "absent" => k.answer[m] = "absent"
        BY <4>3
      <4> HIDE DEF Visible
      <4> QED
        BY <4>1, <4>4
    <3> QED
      BY <2>1, <3>1, <3>2, <3>3
  <2> QED
    BY <2>2, <2>3
<1>8. ASSUME NEW m \in Own, SendStarts(m) PROVE FollowInv'
  BY <1>8 DEF SendStarts
<1>9. ASSUME NEW m \in Own, SendIsSaved(m) PROVE FollowInv'
  BY <1>9 DEF SendIsSaved
<1>10. ASSUME NEW m \in Own, SendIsOut(m) PROVE FollowInv'
  BY <1>10 DEF SendIsOut
<1>11. ASSUME NEW m \in Own, SendFails(m) PROVE FollowInv'
  BY <1>11 DEF SendFails
<1>12. CASE Reconcile
  BY <1>12 DEF Reconcile
<1>13. ASSUME NEW s \in Streams, StreamStarts(s) PROVE FollowInv'
  BY <1>13 DEF StreamStarts
<1>14. ASSUME NEW s \in Streams, StreamIsOver(s) PROVE FollowInv'
  BY <1>14 DEF StreamIsOver
<1>15. ASSUME NEW c \in Conversations, Switch(c) PROVE FollowInv'
  BY <1>15 DEF Switch
<1> QED
  BY <1>0, <1>1, <1>2, <1>3, <1>4, <1>5, <1>6, <1>7, <1>8, <1>9, <1>10, <1>11, <1>12, <1>13, <1>14, <1>15
     DEF Next, EngineNext, LoadNext, SendNext, StreamNext

\* The invariant holds of an empty page.
LEMMA ViewStarts == Init => ViewInv
<1> SUFFICES ASSUME Init PROVE ViewInv
  OBVIOUS
<1>1. Nothing \in Lists
  BY DEF Nothing, Lists, Versions
<1>2. /\ ConvOf \in [Ids \cup Streams -> Conversations] /\ Own \subseteq Ids
      /\ loads = {[effect |-> 1, answer |-> None]} /\ Answers = {} /\ loaded = FALSE
  BY ViewAssumption DEF Init, Ids, Answers
<1>3. ViewTypes
  <2>1. shown = [conv |-> Mounted, messages |-> Nothing] /\ shown \in [conv : Conversations, messages : Lists]
    BY <1>1, ViewAssumption DEF Init
  <2>2. loads \subseteq [effect : Nat, answer : Lists \cup {None}] /\ \A l \in loads : l.effect <= 1
    BY <1>2
  <2>3. preview \in [conv : Conversations, of : Streams \cup {None}, effect : Nat] /\ preview.effect = 1
    BY ViewAssumption DEF Init
  <2>4. /\ news \in [Ids -> {None, "received", "updated", "deleted", "sent"}]
        /\ sending \in [Own -> {"no", "saving", "out", "done", "failed"}]
        /\ stream \in [Streams -> {"idle", "running", "over"}]
    BY DEF Init
  <2> QED
    <3>1. /\ stored = Nothing /\ effect = 1 /\ conv = Mounted /\ loaded = FALSE /\ entries = {} /\ excused = {}
      BY DEF Init
    <3> QED
      <4>1. stored \in Lists /\ effect \in Nat /\ conv \in Conversations /\ entries \subseteq Own /\ excused \subseteq Ids
        BY <1>1, <3>1, ViewAssumption
      <4>2. loaded \in BOOLEAN
        BY <3>1
      <4>3. (\A l \in loads : l.effect <= effect) /\ preview.effect <= effect
        BY <2>2, <2>3, <3>1
      <4> QED
        BY <2>1, <2>2, <2>3, <2>4, <4>1, <4>2, <4>3 DEF ViewTypes
<1>4. FollowInv
  BY <1>1, <1>2 DEF Init, FollowInv, Nothing
<1>5. OwnInv
  BY <1>1, <1>2 DEF Init, OwnInv, Nothing
<1>6. PreviewInv
  BY DEF Init, PreviewInv
<1> QED
  BY <1>3, <1>4, <1>5, <1>6 DEF ViewInv

\* The invariant of the page holds in every behaviour.
LEMMA ViewCorrect == Spec => []ViewInv
<1>1. ViewInv /\ [Next]_vars => ViewInv'
  BY TypesKept, FollowKept, OwnKept, PreviewKept DEF ViewInv
<1> QED
  BY <1>1, ViewStarts, PTL DEF Spec

\* useMessages.ts: a message of which no event is outstanding, and that no named exception covers,
\* is in the list of the conversation on screen as it is stored, once that list has been loaded.
THEOREM ListsFollowTheStore == Spec => []ListFollowsStore
<1>1. ViewInv => ListFollowsStore
  BY DEF ViewInv, FollowInv, ListFollowsStore, Followed
<1> QED
  BY <1>1, ViewCorrect, PTL

\* useOptimisticMessages.ts: once the list has loaded, an own message of the conversation that is
\* being sent or was sent is on screen, as an entry or in the list.
THEOREM OwnMessagesStay == Spec => []OwnMessageStays
<1>1. ViewInv => OwnMessageStays
  BY DEF ViewInv, OwnInv, OwnMessageStays, Displayed, Ids
<1> QED
  BY <1>1, ViewCorrect, PTL

\* useStreamingMessage.ts: a preview on screen is of a stream that runs, in this conversation.
THEOREM PreviewsRun == Spec => []PreviewRuns
<1>1. ViewInv => PreviewRuns
  BY DEF ViewInv, PreviewInv, PreviewRuns
<1> QED
  BY <1>1, ViewCorrect, PTL

-------------------------------------------------------------------------------
(* Typing *)

Times == Nat \cup {Never}
WireEvents == [kind : {"start", "stop", "message"}, at : Nat]

TypesOK ==
    /\ now \in Nat /\ {idleAt, emittedAt, startedAt, entry} \subseteq Times
    /\ {isTyping, leaving, keeping, heard, missed} \subseteq BOOLEAN
    /\ wire \in Seq(WireEvents) /\ trouble \in Nat
    /\ hook \in [here : BOOLEAN, snapshot : BOOLEAN, scoped : BOOLEAN]

\* From the start after which a key is pressed no start leaves, until the timer fires.
Longest == EmitThrottle + IdleTimeout - 1

\* The typist's clocks.
TypistOK ==
    /\ isTyping <=> idleAt # Never
    /\ isTyping <=> emittedAt # Never
    /\ isTyping => now <= idleAt /\ emittedAt <= now /\ idleAt <= emittedAt + Longest

\* What is on its way has left, and is not overdue.
WireOK ==
    \A i \in 1 .. Len(wire) :
        /\ wire[i].at <= now /\ now <= wire[i].at + MaxDelay
        /\ wire[i].kind = "start" => startedAt # Never /\ wire[i].at <= startedAt

ViewerOK ==
    /\ entry # Never => /\ now <= entry /\ startedAt # Never
                        /\ entry <= startedAt + MaxDelay + RemoteTtl
    /\ startedAt # Never => startedAt <= now
    /\ hook.scoped /\ ~missed => (hook.snapshot <=> entry # Never)

\* A start that left soon after the entry was renewed.
Relief(i) == wire[i].kind = "start" /\ wire[i].at + RemoteTtl <= entry + Longest

HeardOK ==
    heard =>
        /\ isTyping /\ entry # Never
        /\ \A i \in 1 .. Len(wire) : wire[i].kind # "stop"
        /\ emittedAt + RemoteTtl <= entry \/ \E i \in 1 .. Len(wire) : Relief(i)

TypingInv == TypesOK /\ TypistOK /\ WireOK /\ ViewerOK /\ HeardOK

\* The constants are numbers of their kind.
LEMMA Constants ==
    /\ EmitThrottle \in Nat \ {0} /\ IdleTimeout \in Nat \ {0} /\ RemoteTtl \in Nat \ {0}
    /\ MaxDelay \in Nat /\ Never \notin Nat /\ Longest \in Nat /\ Longest >= IdleTimeout
BY TypingAssumption DEF Longest

\* The invariant holds before anybody types.
LEMMA TypingStarts == TypingInit => TypingInv
<1> SUFFICES ASSUME TypingInit PROVE TypingInv
  OBVIOUS
<1>1. TypesOK
  <2>1. hook \in [here : BOOLEAN, snapshot : BOOLEAN, scoped : BOOLEAN]
    BY DEF TypingInit
  <2>2. {isTyping, leaving, keeping, heard, missed} \subseteq BOOLEAN
    BY DEF TypingInit
  <2> QED
    BY <2>1, <2>2 DEF TypingInit, TypesOK, Times
<1>2. TypistOK /\ WireOK /\ HeardOK
  BY DEF TypingInit, TypistOK, WireOK, HeardOK
<1>3. ViewerOK
  BY DEF TypingInit, ViewerOK
<1> QED
  BY <1>1, <1>2, <1>3 DEF TypingInv

\* The wire with one more event, sent now, or without its first.
LEMMA WireGrows ==
    ASSUME TypingInv, NEW kind \in {"start", "stop", "message"}
    PROVE  /\ Sent(kind) \in Seq(WireEvents) /\ Len(Sent(kind)) = Len(wire) + 1
           /\ Sent(kind)[Len(wire) + 1] = [kind |-> kind, at |-> now]
           /\ \A i \in 1 .. Len(wire) : Sent(kind)[i] = wire[i]
           /\ Len(wire) \in Nat
BY DEF TypingInv, TypesOK, Sent, WireEvents

\* What is left on the wire when its first event has arrived.
LEMMA WireShrinks ==
    ASSUME TypingInv, wire # <<>>
    PROVE  /\ Tail(wire) \in Seq(WireEvents) /\ Len(Tail(wire)) = Len(wire) - 1
           /\ \A i \in 1 .. Len(Tail(wire)) : Tail(wire)[i] = wire[i + 1]
           /\ Head(wire) = wire[1] /\ 1 \in 1 .. Len(wire) /\ Len(wire) \in Nat
BY DEF TypingInv, TypesOK

\* Sending a stop or a message leaves the invariant of the wire alone.
LEMMA SentKeeps ==
    ASSUME TypingInv, NEW kind \in {"stop", "message"}, wire' = Sent(kind),
           now' = now, startedAt' = startedAt
    PROVE  WireOK'
<1> SUFFICES ASSUME NEW i \in 1 .. Len(wire')
             PROVE  /\ wire'[i].at <= now /\ now <= wire'[i].at + MaxDelay
                    /\ wire'[i].kind = "start" => startedAt # Never /\ wire'[i].at <= startedAt
  BY DEF WireOK
<1>1. now \in Nat /\ Len(wire) \in Nat /\ i \in 1 .. Len(wire) + 1 /\ WireOK
  BY WireGrows DEF TypingInv, TypesOK
<1>2. CASE i \in 1 .. Len(wire)
  <2>1. wire'[i] = wire[i]
    BY <1>2, WireGrows
  <2> QED
    BY <1>1, <1>2, <2>1 DEF WireOK
<1>3. CASE i = Len(wire) + 1
  <2>1. wire'[i] = [kind |-> kind, at |-> now]
    BY <1>3, WireGrows
  <2> QED
    BY <1>1, <2>1, Constants
<1> QED
  BY <1>1, <1>2, <1>3

\* The typist stops: nobody counts on an entry any more.
LEMMA StopKeeps ==
    ASSUME TypingInv, StopLocal, now' = now, startedAt' = startedAt,
           leaving' \in BOOLEAN, trouble' \in Nat, UNCHANGED viewerVars,
           \/ wire' = wire
           \/ \E kind \in {"stop", "message"} : wire' = Sent(kind)
    PROVE  TypingInv'
<1>1. TypesOK'
  BY WireGrows DEF TypingInv, TypesOK, StopLocal, viewerVars, Times
<1>2. TypistOK'
  BY DEF TypistOK, StopLocal
<1>3. WireOK'
  BY SentKeeps DEF TypingInv, WireOK
<1>4. ViewerOK'
  BY DEF TypingInv, ViewerOK, viewerVars
<1>5. HeardOK'
  BY DEF HeardOK, StopLocal
<1> QED
  BY <1>1, <1>2, <1>3, <1>4, <1>5 DEF TypingInv

\* A key is pressed: a start that leaves is soon after the entry was renewed.
LEMMA KeyKeeps ==
    ASSUME TypingInv, NotifyTyping
    PROVE  TypingInv'
<1>1. TypesOK'
  BY WireGrows, Constants DEF TypingInv, TypesOK, NotifyTyping, viewerVars, Times
<1>2. TypistOK'
  <2>1. /\ isTyping' /\ idleAt' = now + IdleTimeout /\ now' = now
        /\ (IsThrottled /\ emittedAt' = emittedAt) \/ emittedAt' = now
    BY DEF NotifyTyping
  <2>2. now \in Nat /\ emittedAt \in Times /\ TypistOK
    BY DEF TypingInv, TypesOK
  <2>3. idleAt' \in Nat /\ idleAt' # Never /\ now <= idleAt'
    BY <2>1, <2>2, Constants
  <2>4. emittedAt' \in Nat /\ emittedAt' # Never /\ emittedAt' <= now /\ now <= emittedAt' + EmitThrottle - 1
    <3>1. CASE IsThrottled /\ emittedAt' = emittedAt
      <4>1. emittedAt \in Nat /\ now - emittedAt < EmitThrottle
        BY <2>2, <3>1 DEF IsThrottled, Times
      <4>2. emittedAt <= now
        BY <2>2, <3>1 DEF TypistOK, IsThrottled
      <4> QED
        BY <2>2, <3>1, <4>1, <4>2, Constants
    <3>2. CASE emittedAt' = now
      BY <2>2, <3>2, Constants
    <3> QED
      BY <2>1, <3>1, <3>2
  <2>5. idleAt' <= emittedAt' + Longest
    <3>1. /\ idleAt' = now + IdleTimeout /\ now \in Nat
          /\ emittedAt' \in Nat /\ now <= emittedAt' + EmitThrottle - 1
      BY <2>1, <2>2, <2>4
    <3>2. EmitThrottle \in Nat /\ IdleTimeout \in Nat /\ Longest = EmitThrottle + IdleTimeout - 1
      BY Constants DEF Longest
    <3>3. ASSUME NEW n \in Nat, NEW e \in Nat, NEW t \in Nat, NEW i \in Nat, n <= e + t - 1
          PROVE  n + i <= e + (t + i - 1)
      BY <3>3
    <3> QED
      BY <3>1, <3>2, <3>3
  <2> QED
    BY <2>1, <2>3, <2>4, <2>5 DEF TypistOK
<1>3. WireOK'
  BY WireGrows, Constants DEF TypingInv, TypesOK, WireOK, NotifyTyping, viewerVars, Times
<1>4. ViewerOK'
  BY Constants DEF TypingInv, TypesOK, ViewerOK, NotifyTyping, viewerVars, Times
<1>5. ASSUME heard' PROVE /\ isTyping' /\ entry' # Never
                          /\ \A i \in 1 .. Len(wire') : wire'[i].kind # "stop"
                          /\ emittedAt' + RemoteTtl <= entry' \/ \E i \in 1 .. Len(wire') : Relief(i)'
  <2>1. heard /\ isTyping' /\ entry' = entry /\ HeardOK
    <3>1. UNCHANGED heard /\ isTyping' /\ entry' = entry
      BY Zenon DEF NotifyTyping, viewerVars
    <3> QED
      BY <1>5, <3>1, Zenon DEF TypingInv
  <2>2. CASE IsThrottled /\ UNCHANGED <<emittedAt, wire>>
    BY <2>1, <2>2 DEF HeardOK, Relief
  <2>3. CASE ~IsThrottled /\ emittedAt' = now /\ wire' = Sent("start")
    <3>1. \A i \in 1 .. Len(wire') : wire'[i].kind # "stop"
      <4>1. \A i \in 1 .. Len(wire) : wire[i].kind # "stop"
        BY <2>1 DEF HeardOK
      <4>2. /\ wire' = Sent("start") /\ Len(wire) \in Nat /\ Len(wire') = Len(wire) + 1
            /\ wire'[Len(wire) + 1].kind = "start" /\ \A i \in 1 .. Len(wire) : wire'[i] = wire[i]
        <5>1. /\ Len(Sent("start")) = Len(wire) + 1 /\ Len(wire) \in Nat
              /\ Sent("start")[Len(wire) + 1] = [kind |-> "start", at |-> now]
              /\ \A i \in 1 .. Len(wire) : Sent("start")[i] = wire[i]
          BY WireGrows
        <5>2. wire' = Sent("start")
          BY <2>3
        <5> HIDE DEF TypingInv, NotifyTyping
        <5> QED
          BY <5>1, <5>2
      <4> QED
        BY <4>1, <4>2
    <3>2. CASE emittedAt + RemoteTtl <= entry
      <4>1. now + RemoteTtl <= entry + Longest
        BY <2>1, <3>2, Constants DEF HeardOK, TypingInv, TypesOK, TypistOK, Times
      <4>2. PICK n \in Nat : n = Len(wire) + 1
        BY WireGrows
      <4>3. n \in 1 .. Len(wire') /\ wire'[n] = [kind |-> "start", at |-> now]
        BY <2>3, <4>2, WireGrows
      <4>4. Relief(n)'
        BY <2>1, <4>1, <4>3 DEF Relief
      <4> QED
        BY <2>1, <3>1, <4>3, <4>4 DEF HeardOK
    <3>3. CASE \E i \in 1 .. Len(wire) : Relief(i)
      <4>1. PICK i \in 1 .. Len(wire) : Relief(i)
        BY <3>3
      <4>2. Relief(i)' /\ i \in 1 .. Len(wire')
        BY <2>1, <2>3, <4>1, WireGrows DEF Relief
      <4> QED
        BY <2>1, <3>1, <4>2 DEF HeardOK
    <3> QED
      BY <2>1, <3>2, <3>3 DEF HeardOK
  <2> QED
    BY <2>2, <2>3 DEF NotifyTyping
<1> QED
  BY <1>1, <1>2, <1>3, <1>4, <1>5 DEF TypingInv, HeardOK

\* A message leaves: the typist's engine stops on its own.
LEMMA MessageKeeps ==
    ASSUME TypingInv, MessageLeaves
    PROVE  TypingInv'
<1>1. TypesOK'
  BY WireGrows DEF TypingInv, TypesOK, MessageLeaves, viewerVars, Times
<1>2. TypistOK' /\ ViewerOK'
  BY DEF TypingInv, TypistOK, ViewerOK, MessageLeaves, viewerVars
<1>3. WireOK'
  BY SentKeeps DEF MessageLeaves
<1>4. ASSUME heard PROVE \A i \in 1 .. Len(wire') : wire'[i].kind # "stop"
  BY <1>4, WireGrows DEF TypingInv, HeardOK, MessageLeaves
<1>5. ASSUME NEW i \in 1 .. Len(wire), Relief(i) PROVE Relief(i)' /\ i \in 1 .. Len(wire')
  BY <1>5, WireGrows DEF Relief, MessageLeaves, viewerVars
<1>6. HeardOK'
  BY <1>4, <1>5 DEF TypingInv, HeardOK, MessageLeaves, viewerVars
<1> QED
  BY <1>1, <1>2, <1>3, <1>6 DEF TypingInv

\* An entry lives while the typist is heard: what announces its end ends no entry too soon.
LEMMA EntryLasts ==
    ASSUME TypingInv, heard, EmitThrottle + IdleTimeout + MaxDelay <= RemoteTtl
    PROVE  entry # Never /\ now < entry
<1>1. entry \in Nat /\ now \in Nat /\ idleAt \in Nat /\ emittedAt \in Nat
      /\ now <= idleAt /\ idleAt <= emittedAt + Longest
  BY DEF TypingInv, HeardOK, TypesOK, TypistOK, Times
<1>2. CASE emittedAt + RemoteTtl <= entry
  BY <1>1, <1>2, Constants DEF Longest
<1>3. ASSUME NEW i \in 1 .. Len(wire), Relief(i) PROVE now < entry
  <2>1. wire[i].at \in Nat /\ now <= wire[i].at + MaxDelay
    <3>1. wire[i] \in WireEvents
      BY DEF TypingInv, TypesOK
    <3> QED
      BY <3>1 DEF TypingInv, WireOK, WireEvents
  <2> QED
    BY <1>1, <1>3, <2>1, Constants DEF Relief, Longest
<1> QED
  BY <1>1, <1>2, <1>3, Constants DEF TypingInv, HeardOK

\* A new entry, or the end of one, and what the hook makes of it.
LEMMA AnnouncementKeeps ==
    ASSUME TypingInv, NEW new \in Times, AnnounceTyping(new), now' = now, startedAt' = startedAt,
           new # Never => /\ now <= new /\ startedAt # Never
                          /\ new <= startedAt + MaxDelay + RemoteTtl
    PROVE  /\ ViewerOK' /\ missed' \in BOOLEAN
           /\ hook' \in [here : BOOLEAN, snapshot : BOOLEAN, scoped : BOOLEAN]
<1>1. entry' = new /\ hook \in [here : BOOLEAN, snapshot : BOOLEAN, scoped : BOOLEAN] /\ ViewerOK
  BY DEF AnnounceTyping, TypingInv, TypesOK
<1>2. CASE hook.here /\ missed' = FALSE /\ hook' = [hook EXCEPT !.snapshot = (new # Never), !.scoped = TRUE]
  <2>1. (new # Never) \in BOOLEAN
    OBVIOUS
  <2>2. hook' \in [here : BOOLEAN, snapshot : BOOLEAN, scoped : BOOLEAN] /\ (hook'.snapshot <=> new # Never)
    BY <1>1, <1>2, <2>1
  <2> QED
    BY <1>1, <1>2, <2>2 DEF ViewerOK
<1>3. CASE ~hook.here /\ missed' = TRUE /\ UNCHANGED hook
  BY <1>1, <1>3 DEF ViewerOK
<1> QED
  BY <1>2, <1>3 DEF AnnounceTyping

\* The viewer's engine forgets the typist.
LEMMA RemoteStopKeeps ==
    ASSUME TypingInv, StopRemote, now' = now, startedAt' = startedAt
    PROVE  /\ ViewerOK' /\ missed' \in BOOLEAN /\ entry' = Never
           /\ hook' \in [here : BOOLEAN, snapshot : BOOLEAN, scoped : BOOLEAN]
<1>1. CASE entry = Never
  BY <1>1 DEF StopRemote, TypingInv, TypesOK, ViewerOK
<1>2. CASE entry # Never
  BY <1>2, AnnouncementKeeps DEF StopRemote, AnnounceTyping, Times
<1> QED
  BY <1>1, <1>2

\* The wire without its first event.
LEMMA TailKeeps ==
    ASSUME TypingInv, wire # <<>>, wire' = Tail(wire), now' = now, startedAt' = startedAt
    PROVE  WireOK' /\ wire' \in Seq(WireEvents)
BY WireShrinks DEF TypingInv, WireOK

\* A start or a stop arrives at the viewer.
LEMMA ArrivalKeeps ==
    ASSUME TypingInv, TypingArrives
    PROVE  TypingInv'
<1>1. /\ wire # <<>> /\ wire' = Tail(wire) /\ now' = now /\ startedAt' = startedAt
      /\ UNCHANGED <<typistVars, keeping, trouble>>
  BY DEF TypingArrives
<1>2. TypistOK' /\ WireOK' /\ wire' \in Seq(WireEvents)
  BY <1>1, TailKeeps DEF TypingInv, TypistOK, typistVars
<1>3. CASE /\ Head(wire).kind = "start" /\ Upsert
           /\ heard' = (isTyping /\ \A i \in 2 .. Len(wire) : wire[i].kind = "start")
  <2>1. /\ startedAt \in Nat /\ now \in Nat /\ now <= startedAt + MaxDelay
        /\ now + RemoteTtl \in Nat /\ now + RemoteTtl \in Times
    <3>1. wire[1] \in WireEvents /\ wire[1].at \in Nat /\ wire[1].kind = "start"
      <4>1. wire[1] \in WireEvents
        BY <1>1, WireShrinks DEF TypingInv, TypesOK
      <4> QED
        BY <1>1, <1>3, <4>1, WireShrinks DEF WireEvents
    <3>2. now <= wire[1].at + MaxDelay /\ startedAt # Never /\ wire[1].at <= startedAt
      BY <1>1, <3>1, WireShrinks DEF TypingInv, WireOK
    <3>3. startedAt \in Nat /\ now \in Nat
      BY <3>2 DEF TypingInv, TypesOK, Times
    <3> QED
      BY <3>1, <3>2, <3>3, Constants DEF Times
  <2>2. /\ ViewerOK' /\ missed' \in BOOLEAN /\ entry' = now + RemoteTtl
        /\ hook' \in [here : BOOLEAN, snapshot : BOOLEAN, scoped : BOOLEAN]
    <3>1. CASE entry = Never
      <4>1. AnnounceTyping(now + RemoteTtl)
        BY <1>3, <3>1 DEF Upsert
      <4>2. entry' = now + RemoteTtl
        BY <4>1 DEF AnnounceTyping
      <4>3. now <= now + RemoteTtl /\ startedAt # Never
            /\ now + RemoteTtl <= startedAt + MaxDelay + RemoteTtl
        BY <2>1, Constants
      <4> QED
        BY <1>1, <2>1, <4>1, <4>2, <4>3, AnnouncementKeeps
    <3>2. CASE entry # Never
      BY <1>1, <1>3, <2>1, <3>2, Constants DEF Upsert, TypingInv, TypesOK, ViewerOK
    <3> QED
      BY <3>1, <3>2
  <2>3. heard' \in BOOLEAN
    BY <1>3
  <2>4. TypesOK'
    BY <1>1, <1>2, <2>1, <2>2, <2>3 DEF TypingInv, TypesOK, typistVars
  <2>5. HeardOK'
    <3> SUFFICES ASSUME heard' PROVE /\ isTyping' /\ entry' # Never /\ emittedAt' + RemoteTtl <= entry'
                                     /\ \A i \in 1 .. Len(wire') : wire'[i].kind # "stop"
      BY DEF HeardOK
    <3>1. isTyping /\ isTyping' /\ emittedAt' = emittedAt
      BY <1>1, <1>3 DEF typistVars
    <3>2. emittedAt \in Nat /\ emittedAt <= now
      BY <3>1 DEF TypingInv, TypesOK, TypistOK, Times
    <3>3. ASSUME NEW i \in 1 .. Len(wire') PROVE wire'[i].kind # "stop"
      <4>1. i + 1 \in 2 .. Len(wire) /\ wire'[i] = wire[i + 1]
        BY <1>1, WireShrinks
      <4> QED
        BY <1>3, <4>1
    <3> QED
      BY <2>1, <2>2, <3>1, <3>2, <3>3, Constants
  <2> QED
    BY <1>2, <2>2, <2>4, <2>5 DEF TypingInv
<1>4. CASE Head(wire).kind = "stop" /\ StopRemote /\ UNCHANGED heard
  <2>1. ~heard
    BY <1>1, <1>4, WireShrinks DEF TypingInv, HeardOK
  <2>2. /\ ViewerOK' /\ missed' \in BOOLEAN /\ entry' = Never
        /\ hook' \in [here : BOOLEAN, snapshot : BOOLEAN, scoped : BOOLEAN]
    BY <1>1, <1>4, RemoteStopKeeps
  <2>3. TypesOK'
    BY <1>1, <1>2, <1>4, <2>2 DEF TypingInv, TypesOK, typistVars, Times
  <2> QED
    BY <1>2, <1>4, <2>1, <2>2, <2>3 DEF TypingInv, HeardOK
<1> QED
  BY <1>3, <1>4 DEF TypingArrives

\* A message arrives at the viewer, whose engine begins to save it.
LEMMA ReadingKeeps ==
    ASSUME TypingInv, MessageArrives
    PROVE  TypingInv'
<1>1. /\ wire # <<>> /\ wire' = Tail(wire) /\ now' = now /\ startedAt' = startedAt
      /\ Head(wire).kind = "message"
      /\ UNCHANGED <<isTyping, idleAt, emittedAt, leaving, entry, hook, missed, heard, trouble>>
      /\ keeping' = TRUE
  BY DEF MessageArrives, typistVars
<1>2. WireOK' /\ wire' \in Seq(WireEvents)
  BY <1>1, TailKeeps
<1>3. TypesOK' /\ TypistOK' /\ ViewerOK'
  BY <1>1, <1>2 DEF TypingInv, TypesOK, TypistOK, ViewerOK
<1>4. ASSUME NEW i \in 1 .. Len(wire), Relief(i)
      PROVE  \E j \in 1 .. Len(wire') : Relief(j)'
  <2>1. i # 1
    BY <1>1, <1>4, WireShrinks DEF Relief
  <2>2. PICK j \in Nat : j = i - 1
    BY <2>1
  <2>3. j \in 1 .. Len(wire') /\ wire'[j] = wire[i]
    BY <1>1, <2>1, <2>2, WireShrinks
  <2>4. Relief(j)'
    BY <1>1, <1>4, <2>3 DEF Relief
  <2> QED
    BY <2>3, <2>4
<1>5. ASSUME heard, NEW i \in 1 .. Len(wire') PROVE wire'[i].kind # "stop"
  <2>1. i + 1 \in 1 .. Len(wire) /\ wire'[i] = wire[i + 1]
    BY <1>1, WireShrinks
  <2> QED
    BY <1>5, <2>1 DEF TypingInv, HeardOK
<1>6. HeardOK'
  BY <1>1, <1>4, <1>5 DEF TypingInv, HeardOK
<1> QED
  BY <1>2, <1>3, <1>6 DEF TypingInv

\* The message is saved, and the typist forgotten for it.
LEMMA KeptKeeps ==
    ASSUME TypingInv, MessageIsKept
    PROVE  TypingInv'
<1>1. /\ StopRemote /\ heard' = FALSE /\ keeping' = FALSE
      /\ UNCHANGED <<now, isTyping, idleAt, emittedAt, leaving, wire, startedAt, trouble>>
  BY DEF MessageIsKept, typistVars
<1>2. /\ ViewerOK' /\ missed' \in BOOLEAN /\ entry' = Never
      /\ hook' \in [here : BOOLEAN, snapshot : BOOLEAN, scoped : BOOLEAN]
  BY <1>1, RemoteStopKeeps
<1>3. TypesOK'
  BY <1>1, <1>2 DEF TypingInv, TypesOK, Times
<1> QED
  BY <1>1, <1>2, <1>3 DEF TypingInv, TypistOK, WireOK, HeardOK

\* An entry whose time to live is over was not renewed: the typist does not type.
LEMMA ExpiryKeeps ==
    ASSUME TypingInv, EntryExpires, EmitThrottle + IdleTimeout + MaxDelay <= RemoteTtl
    PROVE  TypingInv'
<1>1. /\ StopRemote /\ entry = now
      /\ UNCHANGED <<now, isTyping, idleAt, emittedAt, leaving, wire, keeping, heard, startedAt, trouble>>
  BY DEF EntryExpires, typistVars
<1>2. ~heard
  BY <1>1, EntryLasts DEF TypingInv, TypesOK
<1>3. /\ ViewerOK' /\ missed' \in BOOLEAN /\ entry' = Never
      /\ hook' \in [here : BOOLEAN, snapshot : BOOLEAN, scoped : BOOLEAN]
  BY <1>1, RemoteStopKeeps
<1>4. TypesOK'
  BY <1>1, <1>3 DEF TypingInv, TypesOK, Times
<1> QED
  BY <1>1, <1>2, <1>3, <1>4 DEF TypingInv, TypistOK, WireOK, HeardOK

\* What trouble does: nothing that was heard counts any more.
LEMMA TroubleKeeps ==
    ASSUME TypingInv, ViewerDisconnects \/ Lose
    PROVE  TypingInv'
<1>1. CASE ViewerDisconnects
  <2>1. /\ entry' = Never /\ wire' = <<>> /\ heard' = FALSE /\ trouble' = trouble + 1
        /\ (missed' <=> missed \/ entry # Never) /\ missed' \in BOOLEAN
        /\ UNCHANGED <<now, isTyping, idleAt, emittedAt, leaving, keeping, hook, startedAt>>
    BY <1>1 DEF ViewerDisconnects, typistVars, TypingInv, TypesOK
  <2>2. TypesOK'
    <3>1. wire' \in Seq(WireEvents) /\ trouble' \in Nat
      BY <2>1 DEF TypingInv, TypesOK
    <3> QED
      BY <2>1, <3>1 DEF TypingInv, TypesOK, Times
  <2>3. ViewerOK'
    BY <2>1 DEF TypingInv, TypesOK, ViewerOK
  <2> QED
    BY <2>1, <2>2, <2>3 DEF TypingInv, TypistOK, WireOK, HeardOK
<1>2. CASE Lose
  <2>1. /\ wire # <<>> /\ wire' = Tail(wire) /\ heard' = FALSE /\ trouble' = trouble + 1
        /\ UNCHANGED <<now, isTyping, idleAt, emittedAt, leaving, entry, keeping, hook, missed, startedAt>>
    BY <1>2 DEF Lose, typistVars, viewerVars
  <2>2. WireOK' /\ wire' \in Seq(WireEvents)
    BY <2>1, TailKeeps
  <2>3. trouble' \in Nat
    BY <2>1 DEF TypingInv, TypesOK
  <2>4. TypesOK'
    BY <2>1, <2>2, <2>3 DEF TypingInv, TypesOK
  <2>5. ViewerOK'
    BY <2>1 DEF TypingInv, ViewerOK
  <2> QED
    BY <2>1, <2>2, <2>4, <2>5 DEF TypingInv, TypistOK, HeardOK
<1> QED
  BY <1>1, <1>2

\* The hook is shown another conversation and this one again.
LEMMA ShownKeeps ==
    ASSUME TypingInv, Leave \/ ComeBack
    PROVE  TypingInv'
<1>1. /\ UNCHANGED <<now, isTyping, idleAt, emittedAt, leaving, wire, entry, keeping, missed, heard, startedAt>>
      /\ trouble' \in Nat
  BY DEF Leave, ComeBack, typistVars, TypingInv, TypesOK
<1>2. hook \in [here : BOOLEAN, snapshot : BOOLEAN, scoped : BOOLEAN]
  BY DEF TypingInv, TypesOK
<1>3. /\ hook' \in [here : BOOLEAN, snapshot : BOOLEAN, scoped : BOOLEAN]
      /\ hook'.snapshot = hook.snapshot /\ (hook'.scoped => hook.scoped)
  <2>1. CASE Leave
    BY <1>2, <2>1 DEF Leave
  <2>2. CASE ComeBack
    BY <1>2, <2>2 DEF ComeBack
  <2> QED
    BY <2>1, <2>2
<1>4. TypesOK' /\ ViewerOK'
  BY <1>1, <1>3 DEF TypingInv, TypesOK, ViewerOK
<1> QED
  BY <1>1, <1>4 DEF TypingInv, TypistOK, WireOK, HeardOK, Relief

\* Time passes only when nothing is due.
LEMMA TickKeeps ==
    ASSUME TypingInv, Tick
    PROVE  TypingInv'
<1>1. /\ now' = now + 1 /\ idleAt # now /\ entry # now
      /\ \A i \in DOMAIN wire : now < wire[i].at + MaxDelay
      /\ UNCHANGED <<isTyping, idleAt, emittedAt, leaving, wire, entry, keeping, hook, missed, heard, startedAt, trouble>>
  BY DEF Tick, typistVars, viewerVars
<1>2. now \in Nat /\ DOMAIN wire = 1 .. Len(wire)
  BY DEF TypingInv, TypesOK
<1>3. TypesOK'
  BY <1>1 DEF TypingInv, TypesOK
<1>4. TypistOK'
  BY <1>1, <1>2 DEF TypingInv, TypesOK, TypistOK, Times
<1>5. WireOK'
  <2>1. ASSUME NEW i \in 1 .. Len(wire) PROVE wire[i].at \in Nat
    <3>1. wire[i] \in WireEvents
      BY DEF TypingInv, TypesOK
    <3> QED
      BY <3>1 DEF WireEvents
  <2> QED
    BY <1>1, <1>2, <2>1, Constants DEF TypingInv, WireOK
<1>6. ViewerOK'
  BY <1>1, <1>2 DEF TypingInv, TypesOK, ViewerOK, Times
<1>7. HeardOK'
  BY <1>1 DEF TypingInv, HeardOK, Relief
<1> QED
  BY <1>3, <1>4, <1>5, <1>6, <1>7 DEF TypingInv

-------------------------------------------------------------------------------
\* chat-engine.ts 695-722, 1120-1148 and 1238-1259, typing-state.ts, useTypingState.ts: with
\* timeouts that leave an event long enough to travel, whoever types on is shown all the
\* while, and nobody for longer than the last start explains.
THEOREM TypistsAreShown ==
    ASSUME EmitThrottle + IdleTimeout + MaxDelay <= RemoteTtl
    PROVE  TypingSpec => []TypistIsShown
<1>1. TypingInv /\ [TypingNext]_typingVars => TypingInv'
  <2> SUFFICES ASSUME TypingInv, [TypingNext]_typingVars PROVE TypingInv'
    OBVIOUS
  <2>1. CASE StopTyping \/ IdleTimerFires \/ SendMessage \/ TypistDisconnects
    <3>1. /\ StopLocal /\ now' = now /\ startedAt' = startedAt /\ UNCHANGED viewerVars
          /\ wire' = wire \/ \E kind \in {"stop", "message"} : wire' = Sent(kind)
      BY <2>1 DEF StopTyping, IdleTimerFires, SendMessage, TypistDisconnects
    <3>2. leaving' \in BOOLEAN /\ trouble' \in Nat
      <4>1. leaving \in BOOLEAN /\ trouble \in Nat
        BY DEF TypingInv, TypesOK
      <4>2. trouble' \in {trouble, trouble + 1}
        BY <2>1 DEF StopTyping, IdleTimerFires, SendMessage, TypistDisconnects
      <4>3. leaving' = leaving \/ leaving' = TRUE \/ leaving' = FALSE
        BY <2>1 DEF StopTyping, IdleTimerFires, SendMessage, TypistDisconnects
      <4>4. leaving' \in BOOLEAN
        BY <4>1, <4>3, Zenon
      <4>5. trouble' \in Nat
        BY <4>1, <4>2
      <4> QED
        BY <4>4, <4>5
    <3> QED
      BY <3>1, <3>2, StopKeeps
  <2>2. CASE UNCHANGED typingVars
    BY <2>2 DEF typingVars, typistVars, viewerVars, TypingInv, TypesOK, TypistOK, WireOK, ViewerOK,
                HeardOK, Relief
  <2> QED
    BY <2>1, <2>2, KeyKeeps, MessageKeeps, ArrivalKeeps, ReadingKeeps, KeptKeeps, ExpiryKeeps,
       TroubleKeeps, ShownKeeps, TickKeeps DEF TypingNext
<1>2. TypingInv => TypistIsShown
  <2> SUFFICES ASSUME TypingInv PROVE TypistStaysShown /\ NoGhostTypist
    BY DEF TypistIsShown
  <2>1. ~missed => (Shows <=> entry # Never)
    BY DEF TypingInv, ViewerOK, Shows
  <2>2. TypistStaysShown
    BY <2>1 DEF TypingInv, HeardOK, TypistStaysShown
  <2>3. entry # Never => startedAt # Never /\ now <= startedAt + MaxDelay + RemoteTtl
    BY Constants DEF TypingInv, TypesOK, ViewerOK, Times
  <2> QED
    BY <2>1, <2>2, <2>3 DEF NoGhostTypist
<1> QED
  BY <1>1, <1>2, TypingStarts, PTL DEF TypingSpec

-------------------------------------------------------------------------------
(* DevTools *)

Events == [kind : {"message", "ended"}, id : DevMessages, version : Nat]
          \cup [kind : {"conversation"}, id : DevConversations, version : Nat]

VersionsOfAll == [DevMessages -> Nat]

DevTypes ==
    /\ store \in [Engines -> [convs : SUBSET DevConversations, version : VersionsOfAll]]
    /\ events \in [Engines -> Seq(Events)]
    /\ streaming \in [Engines -> DevMessages \cup {NoStream}]
    /\ inspected \in Engines
    /\ list \in [engine : Engines, value : VersionsOfAll]
    /\ convs \in [engine : Engines, value : SUBSET DevConversations]
    /\ streams \in [engine : Engines, value : [DevMessages -> {"none", "streaming", "ended", "error"}]]
    /\ load \in [stage : {"asked", "answered", "reading", "done"}, convs : SUBSET DevConversations,
                 read : SUBSET DevConversations, got : VersionsOfAll]
    /\ steps \in Nat

\* An event of x is on its way.
Pending(evs, x) == \E i \in 1 .. Len(evs) : evs[i].id = x

\* The last event of a message has the version that is stored.
LastIsStored(evs, version) ==
    \A x \in DevMessages, i \in 1 .. Len(evs) :
        evs[i].id = x /\ (\A j \in 1 .. Len(evs) : j > i => evs[j].id # x) => evs[i].version = version[x]

\* The end of a stream is on its way at most once, and of the stream that runs.
EndIsOfStream(evs, running) ==
    /\ \A i \in 1 .. Len(evs) : evs[i].kind = "ended" => running = evs[i].id
    /\ \A i, j \in 1 .. Len(evs) : evs[i].kind = "ended" /\ evs[j].kind = "ended" => i = j

EventsInv ==
    \A e \in Engines :
        LastIsStored(events[e], store[e].version) /\ EndIsOfStream(events[e], streaming[e])

StoreInv ==
    \A e \in Engines, m \in DevMessages :
        store[e].version[m] # 0 \/ streaming[e] = m => DevConversationOf[m] \in store[e].convs

LoadInv ==
    /\ load.read \subseteq load.convs
    /\ load.stage \in {"asked", "answered"} => load.read = {}
    /\ \A m \in DevMessages : DevConversationOf[m] \notin load.read => load.got[m] = 0

\* What the list shows, or will show, of a message of which no event is on its way.
ListInv ==
    /\ load.stage = "done" => list.engine = inspected
    /\ \A m \in DevMessages : ~Pending(events[inspected], m) =>
        /\ load.stage = "done" /\ m \notin undone => list.value[m] = store[inspected].version[m]
        /\ load.stage \in {"answered", "reading"} /\ DevConversationOf[m] \notin load.convs /\ m \notin late
             => store[inspected].version[m] = 0
        /\ load.stage = "reading" /\ DevConversationOf[m] \in load.read /\ m \notin late
             => load.got[m] = store[inspected].version[m]

ConvsInv ==
    /\ load.stage \in {"reading", "done"} => convs.engine = inspected
    /\ \A c \in store[inspected].convs : ~Pending(events[inspected], c) =>
        /\ load.stage = "answered" /\ c \notin late => c \in load.convs
        /\ load.stage \in {"reading", "done"} /\ c \notin undone => c \in convs.value

\* A stream shown as streaming runs; of one that runs where no one looks an event may be missed.
StreamsInv ==
    /\ \A m \in DevMessages :
          streams.value[m] = "streaming" /\ <<streams.engine, m>> \notin unheard => streaming[streams.engine] = m
    /\ \A e \in Engines \ {inspected}, m \in DevMessages : streaming[e] = m => <<e, m>> \in unheard

DevInv == DevTypes /\ EventsInv /\ StoreInv /\ LoadInv /\ ListInv /\ ConvsInv /\ StreamsInv

-------------------------------------------------------------------------------
(* The events on their way. *)

\* What the fields of an event may be.
LEMMA EventFields ==
    ASSUME NEW evs \in Seq(Events), NEW i \in 1 .. Len(evs)
    PROVE  /\ evs[i] \in Events
           /\ evs[i].kind \in {"message", "ended"} => evs[i].id \in DevMessages /\ evs[i].version \in Nat
           /\ evs[i].kind \notin {"message", "ended"} => evs[i].kind = "conversation" /\ evs[i].id \in DevConversations
           /\ evs[i].id \in DevMessages => evs[i].kind \in {"message", "ended"}
    <1>1. evs[i] \in Events OBVIOUS
    <1>2. PICK e \in Events : e = evs[i] BY <1>1
    <1> QED BY <1>2, DevToolsAssumption DEF Events

\* The first event and those behind it.
LEMMA HeadAndTail ==
    ASSUME NEW evs \in Seq(Events), evs # <<>>
    PROVE  /\ Tail(evs) \in Seq(Events) /\ Len(evs) \in Nat /\ Len(evs) >= 1
           /\ Len(Tail(evs)) = Len(evs) - 1 /\ Head(evs) = evs[1]
           /\ \A i \in 1 .. Len(evs) - 1 : Tail(evs)[i] = evs[i + 1]
    OBVIOUS

\* A new event is pending, and so is what was.
LEMMA PendingAfterAppend ==
    ASSUME NEW evs \in Seq(Events), NEW ev \in Events, NEW x
    PROVE  Pending(Append(evs, ev), x) <=> Pending(evs, x) \/ ev.id = x
    <1> DEFINE new == Append(evs, ev)
    <1>1. Len(new) = Len(evs) + 1 /\ Len(evs) \in Nat /\ new[Len(evs) + 1] = ev
          /\ \A i \in 1 .. Len(evs) : new[i] = evs[i] OBVIOUS
    <1> HIDE DEF new
    <1>2. Pending(new, x) <=> Pending(evs, x) \/ ev.id = x BY <1>1 DEF Pending
    <1> QED BY <1>2 DEF new

\* What is still pending when the first event has been heard.
LEMMA PendingAfterTail ==
    ASSUME NEW evs \in Seq(Events), evs # <<>>, NEW x
    PROVE  Pending(evs, x) <=> Head(evs).id = x \/ Pending(Tail(evs), x)
    <1>1. ASSUME Pending(evs, x) PROVE Head(evs).id = x \/ Pending(Tail(evs), x)
      <2>1. PICK i \in 1 .. Len(evs) : evs[i].id = x BY <1>1 DEF Pending
      <2>2. CASE i = 1 BY <2>1, <2>2, HeadAndTail
      <2>3. CASE i # 1
        <3>1. i - 1 \in 1 .. Len(evs) - 1 /\ (i - 1) + 1 = i BY <2>3, HeadAndTail
        <3>2. Tail(evs)[i - 1].id = x BY <3>1, <2>1, HeadAndTail
        <3> QED BY <3>1, <3>2, HeadAndTail DEF Pending
      <2> QED BY <2>2, <2>3
    <1>2. ASSUME Head(evs).id = x PROVE Pending(evs, x)
      <2>1. 1 \in 1 .. Len(evs) BY HeadAndTail
      <2> QED BY <2>1, <1>2, HeadAndTail DEF Pending
    <1>3. ASSUME Pending(Tail(evs), x) PROVE Pending(evs, x)
      <2>1. PICK i \in 1 .. Len(evs) - 1 : Tail(evs)[i].id = x BY <1>3, HeadAndTail DEF Pending
      <2>2. i + 1 \in 1 .. Len(evs) /\ evs[i + 1].id = x BY <2>1, HeadAndTail
      <2> QED BY <2>2 DEF Pending
    <1> QED BY <1>1, <1>2, <1>3

\* A write and its event: the last event of a message still has what is stored.
LEMMA LastAfterAppend ==
    ASSUME NEW evs \in Seq(Events), NEW ev \in Events, NEW v, NEW w,
           LastIsStored(evs, v),
           \A x \in DevMessages : x # ev.id => w[x] = v[x],
           ev.id \in DevMessages => ev.version = w[ev.id]
    PROVE  LastIsStored(Append(evs, ev), w)
    <1> DEFINE new == Append(evs, ev)
    <1>1. Len(new) = Len(evs) + 1 /\ Len(evs) \in Nat /\ new[Len(evs) + 1] = ev
          /\ \A i \in 1 .. Len(evs) : new[i] = evs[i] OBVIOUS
    <1> HIDE DEF new
    <1>2. ASSUME NEW x \in DevMessages, NEW i \in 1 .. Len(new), new[i].id = x,
                 \A j \in 1 .. Len(new) : j > i => new[j].id # x
          PROVE  new[i].version = w[x]
      <2>1. CASE i = Len(evs) + 1 BY <2>1, <1>1, <1>2
      <2>2. CASE i # Len(evs) + 1
        <3>1. i \in 1 .. Len(evs) /\ new[i] = evs[i] BY <2>2, <1>1
        <3>2. ev.id # x
          <4>1. Len(evs) + 1 \in 1 .. Len(new) /\ Len(evs) + 1 > i BY <3>1, <1>1
          <4> QED BY <4>1, <1>1, <1>2
        <3>3. \A j \in 1 .. Len(evs) : j > i => evs[j].id # x BY <1>1, <1>2
        <3>4. evs[i].version = v[x] BY <3>1, <3>3, <1>2 DEF LastIsStored
        <3> QED BY <3>1, <3>2, <3>4
      <2> QED BY <2>1, <2>2
    <1>3. LastIsStored(new, w) BY <1>2 DEF LastIsStored
    <1> QED BY <1>3 DEF new

\* Hearing the first event; if it was the last of its message it brings what is stored.
LEMMA LastAfterTail ==
    ASSUME NEW evs \in Seq(Events), evs # <<>>, NEW v, LastIsStored(evs, v)
    PROVE  /\ LastIsStored(Tail(evs), v)
           /\ \A x \in DevMessages : Head(evs).id = x /\ ~Pending(Tail(evs), x) => Head(evs).version = v[x]
    <1>1. ASSUME NEW x \in DevMessages, NEW i \in 1 .. Len(Tail(evs)), Tail(evs)[i].id = x,
                 \A j \in 1 .. Len(Tail(evs)) : j > i => Tail(evs)[j].id # x
          PROVE  Tail(evs)[i].version = v[x]
      <2>1. i + 1 \in 1 .. Len(evs) /\ Tail(evs)[i] = evs[i + 1] BY HeadAndTail
      <2>2. ASSUME NEW j \in 1 .. Len(evs), j > i + 1 PROVE evs[j].id # x
        <3>1. j - 1 \in 1 .. Len(Tail(evs)) /\ j - 1 > i /\ (j - 1) + 1 = j BY <2>2, HeadAndTail
        <3>2. j - 1 \in 1 .. Len(evs) - 1 BY <2>2, HeadAndTail
        <3>3. Tail(evs)[j - 1] = evs[(j - 1) + 1] BY <3>2, HeadAndTail
        <3> QED BY <3>1, <3>3, <1>1
      <2> QED BY <2>1, <2>2, <1>1 DEF LastIsStored
    <1>2. ASSUME NEW x \in DevMessages, Head(evs).id = x, ~Pending(Tail(evs), x)
          PROVE  Head(evs).version = v[x]
      <2>1. 1 \in 1 .. Len(evs) /\ evs[1].id = x BY <1>2, HeadAndTail
      <2>2. ASSUME NEW j \in 1 .. Len(evs), j > 1 PROVE evs[j].id # x
        <3>1. j - 1 \in 1 .. Len(Tail(evs)) /\ (j - 1) + 1 = j BY <2>2, HeadAndTail
        <3>2. j - 1 \in 1 .. Len(evs) - 1 BY <2>2, HeadAndTail
        <3>3. Tail(evs)[j - 1] = evs[(j - 1) + 1] BY <3>2, HeadAndTail
        <3> QED BY <3>1, <3>3, <1>2 DEF Pending
      <2>3. evs[1].version = v[x] BY <2>1, <2>2 DEF LastIsStored
      <2> QED BY <2>3, HeadAndTail
    <1> QED BY <1>1, <1>2 DEF LastIsStored

\* An end is said of the running stream, once.
LEMMA EndAfterAppend ==
    ASSUME NEW evs \in Seq(Events), NEW ev \in Events, NEW running, EndIsOfStream(evs, running),
           ev.kind = "ended" => running = ev.id /\ \A i \in 1 .. Len(evs) : evs[i].kind # "ended"
    PROVE  EndIsOfStream(Append(evs, ev), running)
    <1> DEFINE new == Append(evs, ev)
    <1>1. Len(new) = Len(evs) + 1 /\ Len(evs) \in Nat /\ new[Len(evs) + 1] = ev
          /\ \A i \in 1 .. Len(evs) : new[i] = evs[i] OBVIOUS
    <1> HIDE DEF new
    <1>2. ASSUME NEW i \in 1 .. Len(new), new[i].kind = "ended" PROVE running = new[i].id
      BY <1>1, <1>2 DEF EndIsOfStream
    <1>3. ASSUME NEW i \in 1 .. Len(new), NEW j \in 1 .. Len(new), new[i].kind = "ended", new[j].kind = "ended"
          PROVE  i = j
      BY <1>1, <1>3 DEF EndIsOfStream
    <1>4. EndIsOfStream(new, running) BY <1>2, <1>3 DEF EndIsOfStream
    <1> QED BY <1>4 DEF new

\* After the first event the rest still ends only the running stream.
LEMMA EndAfterTail ==
    ASSUME NEW evs \in Seq(Events), evs # <<>>, NEW running, EndIsOfStream(evs, running)
    PROVE  /\ EndIsOfStream(Tail(evs), running)
           /\ Head(evs).kind = "ended" => running = Head(evs).id
                                          /\ \A i \in 1 .. Len(Tail(evs)) : Tail(evs)[i].kind # "ended"
    <1>1. \A i \in 1 .. Len(Tail(evs)) : i + 1 \in 1 .. Len(evs) /\ Tail(evs)[i] = evs[i + 1] BY HeadAndTail
    <1>2. 1 \in 1 .. Len(evs) /\ Head(evs) = evs[1] BY HeadAndTail
    <1>3. ASSUME NEW i \in 1 .. Len(Tail(evs)), Tail(evs)[i].kind = "ended" PROVE running = Tail(evs)[i].id
      BY <1>1, <1>3 DEF EndIsOfStream
    <1>4. ASSUME NEW i \in 1 .. Len(Tail(evs)), NEW j \in 1 .. Len(Tail(evs)),
                 Tail(evs)[i].kind = "ended", Tail(evs)[j].kind = "ended"
          PROVE  i = j
      <2>1. i + 1 = j + 1 BY <1>1, <1>4 DEF EndIsOfStream
      <2> QED BY <2>1, HeadAndTail
    <1>5. ASSUME Head(evs).kind = "ended", NEW i \in 1 .. Len(Tail(evs)) PROVE Tail(evs)[i].kind # "ended"
      <2>1. i + 1 # 1 BY HeadAndTail
      <2> QED BY <2>1, <1>1, <1>2, <1>5 DEF EndIsOfStream
    <1>6. Head(evs).kind = "ended" => running = Head(evs).id BY <1>2 DEF EndIsOfStream
    <1> QED BY <1>3, <1>4, <1>5, <1>6 DEF EndIsOfStream

\* Where no stream runs no end is on its way.
LEMMA NoEndWithoutStream ==
    ASSUME NEW evs \in Seq(Events), EndIsOfStream(evs, NoStream)
    PROVE  \A i \in 1 .. Len(evs) : evs[i].kind # "ended"
    <1>1. ASSUME NEW i \in 1 .. Len(evs), evs[i].kind = "ended" PROVE FALSE
      <2>1. evs[i].id \in DevMessages /\ evs[i].id = NoStream BY <1>1, EventFields DEF EndIsOfStream
      <2> QED BY <2>1, DevToolsAssumption DEF NoStream
    <1> QED BY <1>1

\* Without an end on its way any stream may run.
LEMMA EndOfAnyStream ==
    ASSUME NEW evs, \A i \in 1 .. Len(evs) : evs[i].kind # "ended", NEW running
    PROVE  EndIsOfStream(evs, running)
    BY DEF EndIsOfStream


-------------------------------------------------------------------------------
(* What an engine stores. *)

Stores == [Engines -> [convs : SUBSET DevConversations, version : VersionsOfAll]]
Statuses == {"none", "streaming", "ended", "error"}
Loads == [stage : {"asked", "answered", "reading", "done"}, convs : SUBSET DevConversations,
          read : SUBSET DevConversations, got : VersionsOfAll]

\* The parts of an engine's store.
LEMMA StoreFields ==
    ASSUME DevTypes, NEW e \in Engines
    PROVE  store[e].convs \subseteq DevConversations /\ store[e].version \in VersionsOfAll
    <1>1. store[e] \in [convs : SUBSET DevConversations, version : VersionsOfAll] BY DEF DevTypes
    <1> QED BY <1>1

\* Whatever an engine stores and says of it in one step keeps the invariant.
LEMMA StoreStep ==
    ASSUME DevInv, NEW e \in Engines, NEW ev \in Events,
           store' \in Stores, \A f \in Engines \ {e} : store'[f] = store[f],
           store[e].convs \subseteq store'[e].convs,
           \A c \in store'[e].convs : c \in store[e].convs \/ c = ev.id,
           \A x \in DevMessages : x # ev.id => store'[e].version[x] = store[e].version[x],
           ev.id \in DevMessages => /\ ev.version = store'[e].version[ev.id]
                                    /\ DevConversationOf[ev.id] \in store[e].convs,
           ev.kind = "ended" => /\ streaming[e] = ev.id
                                /\ \A i \in 1 .. Len(events[e]) : events[e][i].kind # "ended",
           events' = [events EXCEPT ![e] = Append(@, ev)], steps' = steps + 1,
           UNCHANGED <<streaming, inspected, list, convs, streams, load, late, undone, unheard>>
    PROVE  DevInv'
    <1> USE DEF DevInv
    <1>1. events[e] \in Seq(Events) BY DEF DevTypes
    <1>2. \A f \in Engines : events'[f] = IF f = e THEN Append(events[e], ev) ELSE events[f] BY DEF DevTypes
    <1>3. \A f \in Engines : \A x : Pending(events[f], x) => Pending(events'[f], x)
      BY <1>1, <1>2, PendingAfterAppend
    <1>4. Pending(events'[e], ev.id) BY <1>1, <1>2, PendingAfterAppend
    <1>5. \A f \in Engines, x \in DevMessages : ~Pending(events'[f], x) => store'[f].version[x] = store[f].version[x]
      BY <1>4
    <1>6. \A f \in Engines : \A c \in store'[f].convs : ~Pending(events'[f], c) => c \in store[f].convs
      BY <1>4
    <1>7. inspected \in Engines BY DEF DevTypes
    <1>8. DevTypes'
      <2>1. Append(events[e], ev) \in Seq(Events) BY <1>1
      <2>2. events' \in [Engines -> Seq(Events)] BY <2>1 DEF DevTypes
      <2> QED BY <2>2 DEF DevTypes, Stores
    <1>9. EventsInv'
      <2>1. ASSUME NEW f \in Engines
            PROVE  LastIsStored(events'[f], store'[f].version) /\ EndIsOfStream(events'[f], streaming[f])
        <3>1. CASE f # e BY <3>1, <1>2 DEF EventsInv
        <3>2. CASE f = e
          <4>1. LastIsStored(events[e], store[e].version) /\ EndIsOfStream(events[e], streaming[e]) BY DEF EventsInv
          <4>2. LastIsStored(Append(events[e], ev), store'[e].version) BY SMTT(20), <1>1, <4>1, LastAfterAppend
          <4>3. EndIsOfStream(Append(events[e], ev), streaming[e]) BY <1>1, <4>1, EndAfterAppend
          <4> QED BY <3>2, <4>2, <4>3, <1>2
        <3> QED BY <3>1, <3>2
      <2> QED BY <2>1 DEF EventsInv
    <1>10. StoreInv' BY DEF StoreInv
    <1>11. LoadInv' BY DEF LoadInv
    <1>12. ListInv' BY SMTT(20), <1>3, <1>5, <1>7 DEF ListInv
    <1>13. ConvsInv' BY <1>3, <1>6, <1>7 DEF ConvsInv
    <1>14. StreamsInv' BY DEF StreamsInv
    <1> QED BY <1>8, <1>9, <1>10, <1>11, <1>12, <1>13, <1>14

\* A conversation is created.
LEMMA CreateConversationKeeps ==
    ASSUME DevInv, NEW e \in Engines, NEW c \in DevConversations, CreateConversation(e, c) PROVE DevInv'
    <1> USE DEF CreateConversation
    <1> DEFINE ev == [kind |-> "conversation", id |-> c, version |-> 0]
    <1>1. ev \in Events /\ ev.id = c /\ ev.kind = "conversation" /\ c \notin DevMessages
      BY DevToolsAssumption DEF Events
    <1>2. store[e].convs \subseteq DevConversations /\ store[e].version \in VersionsOfAll BY StoreFields DEF DevInv
    <1>3. store \in Stores BY DEF DevInv, DevTypes, Stores
    <1>4. store' = [store EXCEPT ![e] = [store[e] EXCEPT !.convs = store[e].convs \cup {c}]] BY <1>3 DEF Stores
    <1>5. [store[e] EXCEPT !.convs = store[e].convs \cup {c}] = [convs |-> store[e].convs \cup {c}, version |-> store[e].version]
      <2>1. PICK r \in [convs : SUBSET DevConversations, version : VersionsOfAll] : r = store[e] BY <1>3 DEF Stores
      <2>2. PICK cs : cs = r.convs \cup {c} OBVIOUS
      <2>3. [r EXCEPT !.convs = cs] = [convs |-> cs, version |-> r.version] OBVIOUS
      <2> QED BY <2>1, <2>2, <2>3
    <1>6. store' \in Stores BY <1>2, <1>3, <1>4, <1>5 DEF Stores
    <1>7. store'[e].convs = store[e].convs \cup {c} /\ store'[e].version = store[e].version
          /\ \A f \in Engines \ {e} : store'[f] = store[f] BY <1>3, <1>4, <1>5 DEF Stores
    <1>8. events' = [events EXCEPT ![e] = Append(@, ev)] OBVIOUS
    <1> HIDE DEF ev
    <1> QED BY <1>1, <1>6, <1>7, <1>8, StoreStep

\* A message is saved, updated or deleted.
LEMMA WriteMessageKeeps ==
    ASSUME DevInv, NEW e \in Engines, NEW m \in DevMessages, WriteMessage(e, m) PROVE DevInv'
    <1> USE DEF WriteMessage
    <1>0. steps' \in Nat BY DEF DevInv, DevTypes
    <1>1. PICK version \in {steps', 0} :
            /\ store' = [store EXCEPT ![e].version[m] = version]
            /\ events' = [events EXCEPT ![e] = Append(@, [kind |-> "message", id |-> m, version |-> version])]
      OBVIOUS
    <1>2. version \in Nat BY <1>0
    <1> DEFINE ev == [kind |-> "message", id |-> m, version |-> version]
    <1>3. ev \in Events /\ ev.id = m /\ ev.kind = "message" /\ ev.version = version BY <1>2 DEF Events
    <1>4. store[e].convs \subseteq DevConversations /\ store[e].version \in VersionsOfAll BY StoreFields DEF DevInv
    <1>5. store \in Stores BY DEF DevInv, DevTypes, Stores
    <1>6. [store[e] EXCEPT !.version[m] = version]
            = [convs |-> store[e].convs, version |-> [store[e].version EXCEPT ![m] = version]]
      BY <1>5 DEF Stores
    <1>7. [store[e].version EXCEPT ![m] = version] \in VersionsOfAll BY <1>2, <1>4 DEF VersionsOfAll
    <1>8. store' \in Stores BY <1>1, <1>4, <1>5, <1>6, <1>7 DEF Stores
    <1>9. store'[e].convs = store[e].convs /\ store'[e].version = [store[e].version EXCEPT ![m] = version]
          /\ \A f \in Engines \ {e} : store'[f] = store[f] BY <1>1, <1>5, <1>6 DEF Stores
    <1>10. store'[e].version[m] = version /\ \A x \in DevMessages : x # m => store'[e].version[x] = store[e].version[x]
      BY <1>9, <1>4 DEF VersionsOfAll
    <1>11. events' = [events EXCEPT ![e] = Append(@, ev)] BY <1>1
    <1> HIDE DEF ev
    <1>12. /\ \A x \in DevMessages : x # ev.id => store'[e].version[x] = store[e].version[x]
           /\ ev.version = store'[e].version[ev.id] BY <1>3, <1>10
    <1>13. DevConversationOf[ev.id] \in store[e].convs /\ ev.kind # "ended" BY <1>3
    <1>14. /\ store[e].convs \subseteq store'[e].convs
           /\ \A c \in store'[e].convs : c \in store[e].convs \/ c = ev.id BY <1>9
    <1>15. /\ UNCHANGED <<streaming, inspected, list, convs, streams, load, late, undone, unheard>>
           /\ steps' = steps + 1 OBVIOUS
    <1> HIDE DEF WriteMessage
    <1> QED BY <1>3, <1>8, <1>9, <1>11, <1>12, <1>13, <1>14, <1>15, StoreStep

\* The final message of a stream is saved, and its end announced.
LEMMA StreamIsStoredKeeps ==
    ASSUME DevInv, NEW e \in Engines, NEW m \in DevMessages, StreamIsStored(e, m) PROVE DevInv'
    <1> USE DEF StreamIsStored
    <1>2. steps' \in Nat BY DEF DevInv, DevTypes
    <1> DEFINE ev == [kind |-> "ended", id |-> m, version |-> steps']
    <1>3. ev \in Events /\ ev.id = m /\ ev.kind = "ended" /\ ev.version = steps' BY <1>2 DEF Events
    <1>4. store[e].convs \subseteq DevConversations /\ store[e].version \in VersionsOfAll BY StoreFields DEF DevInv
    <1>5. store \in Stores BY DEF DevInv, DevTypes, Stores
    <1>6. [store[e] EXCEPT !.version[m] = steps']
            = [convs |-> store[e].convs, version |-> [store[e].version EXCEPT ![m] = steps']]
      BY <1>5 DEF Stores
    <1>7. [store[e].version EXCEPT ![m] = steps'] \in VersionsOfAll BY <1>2, <1>4 DEF VersionsOfAll
    <1>8. store' \in Stores BY <1>4, <1>5, <1>6, <1>7 DEF Stores
    <1>9. store'[e].convs = store[e].convs /\ store'[e].version = [store[e].version EXCEPT ![m] = steps']
          /\ \A f \in Engines \ {e} : store'[f] = store[f] BY <1>5, <1>6 DEF Stores
    <1>10. store'[e].version[m] = steps' /\ \A x \in DevMessages : x # m => store'[e].version[x] = store[e].version[x]
      BY <1>9, <1>4 DEF VersionsOfAll
    <1>11. events' = [events EXCEPT ![e] = Append(@, ev)] OBVIOUS
    <1>12. DevConversationOf[m] \in store[e].convs BY DEF DevInv, StoreInv
    <1>13. DOMAIN events[e] = 1 .. Len(events[e]) BY DEF DevInv, DevTypes
    <1> HIDE DEF ev
    <1>14. /\ \A x \in DevMessages : x # ev.id => store'[e].version[x] = store[e].version[x]
           /\ ev.version = store'[e].version[ev.id] BY <1>3, <1>10
    <1>15. /\ DevConversationOf[ev.id] \in store[e].convs /\ streaming[e] = ev.id
           /\ \A i \in 1 .. Len(events[e]) : events[e][i].kind # "ended" BY <1>3, <1>12, <1>13
    <1> QED BY <1>3, <1>8, <1>9, <1>11, <1>14, <1>15, StoreStep

-------------------------------------------------------------------------------
(* Streams. *)

\* The streams on screen are those of the inspected engine.
LEMMA ScopedStreams ==
    ASSUME DevTypes
    PROVE  /\ NoStreams \in [DevMessages -> Statuses]
           /\ Scoped(streams, NoStreams) \in [DevMessages -> Statuses]
           /\ \A m \in DevMessages : Scoped(streams, NoStreams)[m] # "none" =>
                streams.engine = inspected /\ Scoped(streams, NoStreams)[m] = streams.value[m]
           /\ NoStream \notin DevMessages
    <1>1. NoStreams \in [DevMessages -> Statuses] BY DEF NoStreams, Statuses
    <1>2. streams.value \in [DevMessages -> Statuses] BY DEF DevTypes, Statuses
    <1>3. \A m \in DevMessages : NoStreams[m] = "none" BY DEF NoStreams
    <1> QED BY <1>1, <1>2, <1>3, DevToolsAssumption DEF Scoped, NoStream

\* The streams change, and nothing of the lists.
LEMMA StreamStep ==
    ASSUME DevInv, UNCHANGED <<store, events, inspected, list, convs, load, late, undone>>,
           steps' \in Nat, streaming' \in [Engines -> DevMessages \cup {NoStream}],
           streams' \in [engine : Engines, value : [DevMessages -> Statuses]],
           \A e \in Engines : streaming'[e] = streaming[e]
               \/ /\ \A i \in 1 .. Len(events[e]) : events[e][i].kind # "ended"
                  /\ \A m \in DevMessages : streaming'[e] = m => DevConversationOf[m] \in store[e].convs,
           StreamsInv'
    PROVE  DevInv'
    <1> USE DEF DevInv
    <1>1. DevTypes' BY DEF DevTypes, Statuses
    <1>2. EventsInv' BY EndOfAnyStream DEF EventsInv
    <1>3. StoreInv' BY DEF StoreInv
    <1>4. LoadInv' BY DEF LoadInv
    <1>5. ListInv' BY DEF ListInv
    <1>6. ConvsInv' BY DEF ConvsInv
    <1> QED BY <1>1, <1>2, <1>3, <1>4, <1>5, <1>6

\* A stream starts.
LEMMA StreamStartKeeps ==
    ASSUME DevInv, NEW e \in Engines, NEW m \in DevMessages, StreamStart(e, m) PROVE DevInv'
    <1> USE DEF StreamStart
    <1> DEFINE old == Scoped(streams, NoStreams)
               new == [old EXCEPT ![m] = "streaming"]
    <1>1. /\ old \in [DevMessages -> Statuses] /\ NoStream \notin DevMessages
          /\ \A x \in DevMessages : old[x] # "none" => streams.engine = inspected /\ old[x] = streams.value[x]
      BY ScopedStreams DEF DevInv
    <1>2. StreamEvent(e, new) OBVIOUS
    <1> HIDE DEF old
    <1>3. new \in [DevMessages -> Statuses] BY <1>1 DEF Statuses
    <1>4. inspected \in Engines /\ streaming \in [Engines -> DevMessages \cup {NoStream}]
          /\ streams \in [engine : Engines, value : [DevMessages -> Statuses]] BY DEF DevInv, DevTypes, Statuses
    <1>5. streaming' \in [Engines -> DevMessages \cup {NoStream}]
          /\ \A f \in Engines : streaming'[f] = IF f = e THEN m ELSE streaming[f] BY <1>4
    <1>6. CASE e = inspected
      <2>1. streams' = [engine |-> inspected, value |-> new] BY <1>2, <1>6 DEF StreamEvent, Scope
      <2>2. streams' \in [engine : Engines, value : [DevMessages -> Statuses]] BY <2>1, <1>3, <1>4
      <2>3. unheard' = unheard \ {<<e, m>>} BY <1>6
      <2>4. ASSUME NEW x \in DevMessages, new[x] = "streaming", <<inspected, x>> \notin unheard'
            PROVE  streaming'[inspected] = x
        <3>1. CASE x = m BY <3>1, <1>5, <1>6
        <3>2. CASE x # m
          <4>1. old[x] = "streaming" BY <2>4, <3>2, <1>1
          <4>2. streams.engine = inspected /\ streams.value[x] = "streaming" BY <4>1, <1>1
          <4>3. <<inspected, x>> \notin unheard BY <2>3, <2>4, <3>2
          <4>4. streaming[inspected] = x BY <4>2, <4>3 DEF DevInv, StreamsInv
          <4> QED BY <4>4, <1>1, <1>6
        <3> QED BY <3>1, <3>2
      <2>5. ASSUME NEW f \in Engines \ {inspected}, NEW x \in DevMessages, streaming'[f] = x
            PROVE  <<f, x>> \in unheard'
        <3>1. streaming[f] = x BY <2>5, <1>5, <1>6
        <3>2. <<f, x>> \in unheard BY <3>1 DEF DevInv, StreamsInv
        <3> QED BY <3>2, <2>3, <1>6
      <2> HIDE DEF new
      <2>6. StreamsInv' BY <2>1, <2>4, <2>5 DEF StreamsInv
      <2>7. EndIsOfStream(events[e], NoStream) /\ events[e] \in Seq(Events) BY DEF DevInv, EventsInv, DevTypes
      <2>8. steps' \in Nat BY DEF DevInv, DevTypes
      <2> QED BY <2>2, <2>6, <2>7, <2>8, <1>5, NoEndWithoutStream, StreamStep
    <1>7. CASE e # inspected
      <2>1. streams' = streams BY <1>2, <1>7 DEF StreamEvent
      <2>2. streams' \in [engine : Engines, value : [DevMessages -> Statuses]] BY <2>1, <1>4
      <2>3. unheard' = unheard \cup {<<e, m>>} BY <1>7
      <2>4. ASSUME NEW x \in DevMessages, streams.value[x] = "streaming", <<streams.engine, x>> \notin unheard'
            PROVE  streaming'[streams.engine] = x
        <3>1. streams.engine \in Engines /\ streaming[streams.engine] = x BY <2>3, <2>4, <1>4 DEF DevInv, StreamsInv
        <3>2. streams.engine # e BY <3>1, <1>1
        <3> QED BY <3>1, <3>2, <1>5
      <2>5. ASSUME NEW f \in Engines \ {inspected}, NEW x \in DevMessages, streaming'[f] = x
            PROVE  <<f, x>> \in unheard'
        <3>1. CASE f = e BY <3>1, <2>3, <2>5, <1>5
        <3>2. CASE f # e BY <3>2, <2>3, <2>5, <1>5 DEF DevInv, StreamsInv
        <3> QED BY <3>1, <3>2
      <2>6. StreamsInv' BY <2>1, <2>4, <2>5 DEF StreamsInv
      <2>7. EndIsOfStream(events[e], NoStream) /\ events[e] \in Seq(Events) BY DEF DevInv, EventsInv, DevTypes
      <2>8. steps' \in Nat BY DEF DevInv, DevTypes
      <2> QED BY <2>2, <2>6, <2>7, <2>8, <1>5, NoEndWithoutStream, StreamStep
    <1> QED BY <1>6, <1>7

\* A stream goes on.
LEMMA StreamChunkKeeps ==
    ASSUME DevInv, NEW e \in Engines, NEW m \in DevMessages, StreamChunk(e, m) PROVE DevInv'
    <1> USE DEF StreamChunk
    <1> DEFINE old == Scoped(streams, NoStreams)
               new == [old EXCEPT ![m] = "streaming"]
    <1>1. /\ old \in [DevMessages -> Statuses]
          /\ \A x \in DevMessages : old[x] # "none" => streams.engine = inspected /\ old[x] = streams.value[x]
      BY ScopedStreams DEF DevInv
    <1>2. streams' = streams \/ (e = inspected /\ streams' = [engine |-> inspected, value |-> new])
      BY DEF StreamEvent, Scope
    <1> HIDE DEF old
    <1>3. new \in [DevMessages -> Statuses] BY <1>1 DEF Statuses
    <1>4. inspected \in Engines /\ streaming \in [Engines -> DevMessages \cup {NoStream}]
          /\ streams \in [engine : Engines, value : [DevMessages -> Statuses]] BY DEF DevInv, DevTypes, Statuses
    <1>5. steps' \in Nat BY DEF DevInv, DevTypes
    <1>6. streams' \in [engine : Engines, value : [DevMessages -> Statuses]] BY <1>2, <1>3, <1>4
    <1>7. StreamsInv'
      <2>1. CASE streams' = streams BY <2>1 DEF DevInv, StreamsInv
      <2>2. CASE e = inspected /\ streams' = [engine |-> inspected, value |-> new]
        <3>1. ASSUME NEW x \in DevMessages, new[x] = "streaming", <<inspected, x>> \notin unheard
              PROVE  streaming[inspected] = x
          <4>1. CASE x = m BY <4>1, <2>2
          <4>2. CASE x # m
            <5>1. old[x] = "streaming" BY <3>1, <4>2, <1>1
            <5>2. streams.engine = inspected /\ streams.value[x] = "streaming" BY <5>1, <1>1
            <5> QED BY <5>2, <3>1 DEF DevInv, StreamsInv
          <4> QED BY <4>1, <4>2
        <3> HIDE DEF new
        <3> QED BY <3>1, <2>2 DEF DevInv, StreamsInv
      <2> QED BY <1>2, <2>1, <2>2
    <1> QED BY <1>4, <1>5, <1>6, <1>7, StreamStep

\* The end of the stream of e, that is m: it is no longer shown as streaming.
LEMMA StreamEndIsHeard ==
    ASSUME DevInv, NEW e \in Engines, NEW m \in DevMessages, NEW status \in {"ended", "error"},
           streaming[e] = m, streaming' = [streaming EXCEPT ![e] = NoStream],
           InspectedStreamIsOver(e, m, status), UNCHANGED <<inspected, unheard>>
    PROVE  /\ streaming' \in [Engines -> DevMessages \cup {NoStream}]
           /\ streams' \in [engine : Engines, value : [DevMessages -> Statuses]]
           /\ StreamsInv'
    <1> DEFINE old == Scoped(streams, NoStreams)
               new == [old EXCEPT ![m] = IF @ = "none" THEN @ ELSE status]
    <1>1. /\ old \in [DevMessages -> Statuses] /\ NoStream \notin DevMessages
          /\ \A x \in DevMessages : old[x] # "none" => streams.engine = inspected /\ old[x] = streams.value[x]
      BY ScopedStreams DEF DevInv
    <1>2. IF e = inspected THEN streams' = [engine |-> inspected, value |-> new] ELSE streams' = streams
      BY DEF InspectedStreamIsOver, StreamEvent, Scope
    <1> HIDE DEF old
    <1>3. new \in [DevMessages -> Statuses] /\ new[m] # "streaming" /\ \A x \in DevMessages \ {m} : new[x] = old[x]
      BY <1>1 DEF Statuses
    <1> HIDE DEF new
    <1>4. inspected \in Engines /\ streaming \in [Engines -> DevMessages \cup {NoStream}]
          /\ streams \in [engine : Engines, value : [DevMessages -> Statuses]] BY DEF DevInv, DevTypes, Statuses
    <1>5. streams' \in [engine : Engines, value : [DevMessages -> Statuses]] BY <1>2, <1>3, <1>4
    <1>6. streaming' \in [Engines -> DevMessages \cup {NoStream}]
          /\ \A f \in Engines : streaming'[f] = IF f = e THEN NoStream ELSE streaming[f] BY <1>4
    <1>7. ASSUME NEW f \in Engines \ {inspected}, NEW x \in DevMessages, streaming'[f] = x
          PROVE  <<f, x>> \in unheard'
      <2>1. f # e /\ streaming[f] = x BY <1>7, <1>6, <1>1
      <2> QED BY <2>1 DEF DevInv, StreamsInv
    <1>8. ASSUME NEW x \in DevMessages, streams'.value[x] = "streaming", <<streams'.engine, x>> \notin unheard'
          PROVE  streaming'[streams'.engine] = x
      <2>1. CASE e = inspected
        <3>1. streams'.engine = inspected /\ streams'.value = new BY <2>1, <1>2
        <3>2. x # m /\ old[x] = "streaming" BY <3>1, <1>3, <1>8
        <3>3. streams.engine = inspected /\ streams.value[x] = "streaming" BY <3>2, <1>1
        <3>4. streaming[inspected] = x BY <3>1, <3>3, <1>8 DEF DevInv, StreamsInv
        <3> QED BY <3>2, <3>4, <2>1
      <2>2. CASE e # inspected
        <3>1. streams' = streams BY <2>2, <1>2
        <3>2. streaming[streams.engine] = x BY <3>1, <1>8 DEF DevInv, StreamsInv
        <3>3. streams.engine # e
          <4>1. <<e, m>> \in unheard BY <2>2 DEF DevInv, StreamsInv
          <4> QED BY <4>1, <3>1, <3>2, <1>8
        <3> QED BY <3>1, <3>2, <3>3, <1>4, <1>6
      <2> QED BY <2>1, <2>2
    <1>9. StreamsInv' BY <1>7, <1>8 DEF StreamsInv
    <1> QED BY <1>5, <1>6, <1>9

\* A stream fails: no end will come.
LEMMA StreamFailsKeeps ==
    ASSUME DevInv, NEW e \in Engines, NEW m \in DevMessages, StreamFails(e, m) PROVE DevInv'
    <1> USE DEF StreamFails
    <1>1. /\ streaming' \in [Engines -> DevMessages \cup {NoStream}]
          /\ streams' \in [engine : Engines, value : [DevMessages -> Statuses]]
          /\ StreamsInv' BY StreamEndIsHeard
    <1>2. DOMAIN events[e] = 1 .. Len(events[e]) BY DEF DevInv, DevTypes
    <1>3. NoStream \notin DevMessages BY ScopedStreams DEF DevInv
    <1>4. streaming \in [Engines -> DevMessages \cup {NoStream}] /\ steps \in Nat BY DEF DevInv, DevTypes
    <1>5. \A f \in Engines : streaming'[f] = IF f = e THEN NoStream ELSE streaming[f] BY <1>4
    <1> QED BY <1>1, <1>2, <1>3, <1>4, <1>5, StreamStep


-------------------------------------------------------------------------------
(* The load. *)

\* The parts of a load.
LEMMA LoadFields ==
    ASSUME DevTypes
    PROVE  /\ load \in Loads /\ load.convs \subseteq DevConversations /\ load.read \subseteq DevConversations
           /\ load.got \in VersionsOfAll /\ load.stage \in {"asked", "answered", "reading", "done"}
           /\ list.value \in VersionsOfAll /\ convs.value \subseteq DevConversations /\ inspected \in Engines
    BY DEF DevTypes, Loads

\* The load and what it shows change, and nothing of the engines.
LEMMA LoadStep ==
    ASSUME DevInv, UNCHANGED <<store, events, streaming, inspected, streams, unheard, steps>>,
           load' \in Loads, list' \in [engine : Engines, value : VersionsOfAll],
           convs' \in [engine : Engines, value : SUBSET DevConversations],
           LoadInv', ListInv', ConvsInv'
    PROVE  DevInv'
    <1> USE DEF DevInv
    <1>1. DevTypes' BY DEF DevTypes, Loads
    <1>2. EventsInv' BY DEF EventsInv
    <1>3. StoreInv' BY DEF StoreInv
    <1>4. StreamsInv' BY DEF StreamsInv
    <1> QED BY <1>1, <1>2, <1>3, <1>4

\* The first load reads the engine's conversations.
LEMMA ConversationsAreReadKeeps == ASSUME DevInv, ConversationsAreRead PROVE DevInv'
    <1> USE DEF ConversationsAreRead
    <1>1. load \in Loads /\ inspected \in Engines /\ list' = list /\ convs' = convs BY LoadFields DEF DevInv
    <1>2. store[inspected].convs \subseteq DevConversations BY <1>1, StoreFields DEF DevInv
    <1>3. PICK cs \in SUBSET DevConversations : cs = store[inspected].convs BY <1>2
    <1>4. PICK d \in Loads : d = load BY <1>1
    <1>5. load' = [d EXCEPT !.stage = "answered", !.convs = cs] BY <1>3, <1>4
    <1>6. load' \in Loads /\ load'.stage = "answered" /\ load'.convs = cs /\ load'.read = d.read /\ load'.got = d.got
      BY <1>5 DEF Loads
    <1>7. load.read = {} BY DEF DevInv, LoadInv
    <1>8. LoadInv' BY <1>4, <1>6, <1>7 DEF DevInv, LoadInv
    <1>9. \A m \in DevMessages : DevConversationOf[m] \notin cs => store[inspected].version[m] = 0
      BY <1>1, <1>3 DEF DevInv, StoreInv
    <1>10. ListInv' BY <1>6, <1>9 DEF ListInv
    <1>11. ConvsInv' BY <1>3, <1>6 DEF ConvsInv
    <1>12. list \in [engine : Engines, value : VersionsOfAll] /\ convs \in [engine : Engines, value : SUBSET DevConversations]
      BY DEF DevInv, DevTypes
    <1> QED BY <1>1, <1>6, <1>8, <1>10, <1>11, <1>12, LoadStep

\* The conversations arrive; the load goes on to their messages.
LEMMA ConversationsArriveKeeps == ASSUME DevInv, ConversationsArrive PROVE DevInv'
    <1> USE DEF ConversationsArrive
    <1>1. load \in Loads /\ inspected \in Engines /\ load.convs \subseteq DevConversations BY LoadFields DEF DevInv
    <1>2. PICK d \in Loads : d = load BY <1>1
    <1>3. load' = [d EXCEPT !.stage = "reading"] BY <1>2
    <1>4. load' \in Loads /\ load'.stage = "reading" /\ load'.convs = load.convs /\ load'.read = load.read
          /\ load'.got = load.got BY <1>2, <1>3 DEF Loads
    <1>5. convs' = [engine |-> inspected, value |-> load.convs] BY DEF Scope
    <1>6. convs' \in [engine : Engines, value : SUBSET DevConversations] /\ convs'.engine = inspected
          /\ convs'.value = load.convs BY <1>1, <1>5
    <1>7. LoadInv' BY <1>4 DEF DevInv, LoadInv
    <1>8. load.read = {} BY DEF DevInv, LoadInv
    <1>9. ListInv' BY <1>4, <1>8 DEF DevInv, ListInv
    <1>10. ASSUME NEW c \in store[inspected].convs, ~Pending(events[inspected], c), c \notin undone'
           PROVE  c \in load.convs
      <2>1. c \in DevConversations BY <1>1, StoreFields DEF DevInv
      <2> QED BY <2>1, <1>10 DEF DevInv, ConvsInv
    <1>11. ConvsInv' BY <1>4, <1>6, <1>10 DEF ConvsInv
    <1>12. list' \in [engine : Engines, value : VersionsOfAll] BY DEF DevInv, DevTypes
    <1> QED BY <1>4, <1>6, <1>7, <1>9, <1>11, <1>12, LoadStep

\* The messages of one conversation are read.
LEMMA MessagesAreReadKeeps ==
    ASSUME DevInv, NEW c \in DevConversations, MessagesAreRead(c) PROVE DevInv'
    <1> USE DEF MessagesAreRead
    <1>1. load \in Loads /\ inspected \in Engines /\ load.convs \subseteq DevConversations
          /\ load.read \subseteq DevConversations /\ load.got \in VersionsOfAll BY LoadFields DEF DevInv
    <1>2. store[inspected].version \in VersionsOfAll BY <1>1, StoreFields DEF DevInv
    <1>3. PICK got : got = [m \in DevMessages |-> IF DevConversationOf[m] = c THEN store[inspected].version[m]
                                                 ELSE load.got[m]] OBVIOUS
    <1>4. got \in VersionsOfAll BY <1>1, <1>2, <1>3 DEF VersionsOfAll
    <1>5. PICK d \in Loads : d = load BY <1>1
    <1>6. PICK read \in SUBSET DevConversations : read = load.read \cup {c} BY <1>1
    <1>7. got = [m \in DevMessages |-> IF m \in {x \in DevMessages : DevConversationOf[x] = c}
                                       THEN store[inspected].version[m] ELSE load.got[m]] BY <1>3
    <1>8. load' = [d EXCEPT !.read = read, !.got = got] BY <1>5, <1>6, <1>7
    <1>9. load' \in Loads /\ load'.stage = "reading" /\ load'.convs = load.convs /\ load'.read = read
          /\ load'.got = got BY <1>4, <1>5, <1>8 DEF Loads
    <1>10. \A m \in DevMessages : got[m] = IF DevConversationOf[m] = c THEN store[inspected].version[m]
                                           ELSE load.got[m] BY <1>3
    <1>11. late' = late \ {x \in DevMessages : DevConversationOf[x] = c} /\ c \in load.convs OBVIOUS
    <1>12. LoadInv' BY <1>6, <1>9, <1>10, <1>11 DEF DevInv, LoadInv
    <1>13. ListInv' BY <1>6, <1>9, <1>10, <1>11 DEF DevInv, ListInv
    <1>14. ConvsInv' BY <1>9 DEF DevInv, ConvsInv
    <1>15. list' \in [engine : Engines, value : VersionsOfAll] /\ convs' \in [engine : Engines, value : SUBSET DevConversations]
      BY DEF DevInv, DevTypes
    <1> QED BY <1>9, <1>12, <1>13, <1>14, <1>15, LoadStep

\* All the messages arrive and become the list.
LEMMA MessagesArriveKeeps == ASSUME DevInv, MessagesArrive PROVE DevInv'
    <1> USE DEF MessagesArrive
    <1>1. load \in Loads /\ inspected \in Engines /\ load.got \in VersionsOfAll BY LoadFields DEF DevInv
    <1>2. PICK d \in Loads : d = load BY <1>1
    <1>3. load' = [d EXCEPT !.stage = "done"] BY <1>2
    <1>4. load' \in Loads /\ load'.stage = "done" /\ load'.convs = load.convs /\ load'.read = load.read
          /\ load'.got = load.got BY <1>2, <1>3 DEF Loads
    <1>5. list' = [engine |-> inspected, value |-> load.got] BY DEF Scope
    <1>6. list' \in [engine : Engines, value : VersionsOfAll] /\ list'.engine = inspected
          /\ list'.value = load.got BY <1>1, <1>5
    <1>7. LoadInv' BY <1>4 DEF DevInv, LoadInv
    <1>8. ASSUME NEW m \in DevMessages, ~Pending(events[inspected], m), m \notin undone'
          PROVE  load.got[m] = store[inspected].version[m]
      <2>1. m \notin late BY <1>8
      <2>2. CASE DevConversationOf[m] \in load.read BY <2>1, <2>2, <1>8 DEF DevInv, ListInv
      <2>3. CASE DevConversationOf[m] \notin load.read
        <3>1. load.got[m] = 0 BY <2>3 DEF DevInv, LoadInv
        <3>2. DevConversationOf[m] \notin load.convs BY <2>3
        <3>3. store[inspected].version[m] = 0 BY <2>1, <3>2, <1>8 DEF DevInv, ListInv
        <3> QED BY <3>1, <3>3
      <2> QED BY <2>2, <2>3
    <1>9. ListInv' BY <1>4, <1>6, <1>8 DEF ListInv
    <1>10. ConvsInv' BY <1>4 DEF DevInv, ConvsInv
    <1>11. convs' \in [engine : Engines, value : SUBSET DevConversations] BY DEF DevInv, DevTypes
    <1> QED BY <1>4, <1>6, <1>7, <1>9, <1>10, <1>11, LoadStep

\* Another engine is inspected: the effect starts anew.
LEMMA InspectKeeps == ASSUME DevInv, NEW e \in Engines, Inspect(e) PROVE DevInv'
    <1> USE DEF Inspect
    <1>1. load' = [stage |-> "asked", convs |-> {}, read |-> {}, got |-> NoDevMessages] BY DEF FreshLoad
    <1>2. NoDevMessages \in VersionsOfAll /\ \A m \in DevMessages : NoDevMessages[m] = 0 BY DEF NoDevMessages, VersionsOfAll
    <1>3. PICK got \in VersionsOfAll : got = NoDevMessages BY <1>2
    <1>4. load' \in Loads /\ load'.stage = "asked" /\ load'.read = {} /\ load'.convs = {} /\ load'.got = got
      BY <1>1, <1>3 DEF Loads
    <1>5. DevTypes' BY <1>4 DEF DevInv, DevTypes, Loads
    <1>6. EventsInv' BY DEF DevInv, EventsInv
    <1>7. StoreInv' BY DEF DevInv, StoreInv
    <1>8. LoadInv' BY <1>2, <1>3, <1>4 DEF LoadInv
    <1>9. ListInv' BY <1>4 DEF ListInv
    <1>10. ConvsInv' BY <1>4 DEF ConvsInv
    <1>11. StreamsInv'
      <2>1. unheard \subseteq unheard' OBVIOUS
      <2>2. ASSUME NEW f \in Engines, NEW m \in DevMessages, streaming[f] = m PROVE <<f, m>> \in unheard'
        <3>1. <<f, m>> \in {s \in Engines \X DevMessages : streaming[s[1]] = s[2]} BY <2>2
        <3> QED BY <3>1
      <2> QED BY <2>1, <2>2 DEF DevInv, StreamsInv
    <1> QED BY <1>5, <1>6, <1>7, <1>8, <1>9, <1>10, <1>11 DEF DevInv

-------------------------------------------------------------------------------
(* The events, as the hook hears them. *)

\* Of every engine but e the events on their way stay; of e its first is heard.
LEMMA EventHeardEngines ==
    ASSUME DevInv, NEW e \in Engines, EventHeard(e)
    PROVE  /\ events' \in [Engines -> Seq(Events)]
           /\ \A f \in Engines : events'[f] = IF f = e THEN Tail(events[e]) ELSE events[f]
           /\ streaming' \in [Engines -> DevMessages \cup {NoStream}]
           /\ streams' \in [engine : Engines, value : [DevMessages -> Statuses]]
           /\ EventsInv' /\ StoreInv' /\ StreamsInv'
    <1> DEFINE event == Head(events[e])
    <1>1. /\ events[e] \in Seq(Events) /\ events[e] # <<>> /\ events' = [events EXCEPT ![e] = Tail(@)]
          /\ UNCHANGED <<store, inspected, unheard>>
          /\ IF event.kind = "ended"
             THEN streaming' = [streaming EXCEPT ![e] = NoStream] /\ InspectedStreamIsOver(e, event.id, "ended")
             ELSE UNCHANGED <<streaming, streams>>
      BY DEF EventHeard, DevInv, DevTypes
    <1>2. Tail(events[e]) \in Seq(Events) BY <1>1, HeadAndTail
    <1>3. /\ events' \in [Engines -> Seq(Events)]
          /\ \A f \in Engines : events'[f] = IF f = e THEN Tail(events[e]) ELSE events[f]
      BY <1>1, <1>2 DEF DevInv, DevTypes
    <1>4. LastIsStored(events[e], store[e].version) /\ EndIsOfStream(events[e], streaming[e]) BY DEF DevInv, EventsInv
    <1>5. LastIsStored(Tail(events[e]), store[e].version) BY <1>1, <1>4, LastAfterTail
    <1>6. /\ EndIsOfStream(Tail(events[e]), streaming[e])
          /\ event.kind = "ended" => /\ streaming[e] = event.id
                                     /\ \A i \in 1 .. Len(Tail(events[e])) : Tail(events[e])[i].kind # "ended"
      BY <1>1, <1>4, EndAfterTail
    <1>7. event.kind = "ended" => event.id \in DevMessages
      <2>1. 1 \in 1 .. Len(events[e]) /\ event = events[e][1] BY <1>1, HeadAndTail
      <2> QED BY <1>1, <2>1, EventFields
    <1> HIDE DEF event
    <1>8. /\ streaming' \in [Engines -> DevMessages \cup {NoStream}]
          /\ streams' \in [engine : Engines, value : [DevMessages -> Statuses]] /\ StreamsInv'
      <2>1. CASE event.kind = "ended"
        <3>1. "ended" \in {"ended", "error"} OBVIOUS
        <3> QED BY <2>1, <3>1, <1>1, <1>6, <1>7, StreamEndIsHeard
      <2>2. CASE event.kind # "ended"
        <3>1. UNCHANGED <<streaming, streams, inspected, unheard>> BY <2>2, <1>1
        <3>2. StreamsInv' BY <3>1 DEF DevInv, StreamsInv
        <3> QED BY <3>1, <3>2 DEF DevInv, DevTypes, Statuses
      <2> QED BY <2>1, <2>2
    <1>9. streaming \in [Engines -> DevMessages \cup {NoStream}] BY DEF DevInv, DevTypes
    <1>10. \A f \in Engines : streaming'[f] = IF f = e /\ event.kind = "ended" THEN NoStream ELSE streaming[f]
      BY <1>1, <1>9
    <1>11. EventsInv'
      <2>1. ASSUME NEW f \in Engines
            PROVE  LastIsStored(events'[f], store[f].version) /\ EndIsOfStream(events'[f], streaming'[f])
        <3>1. CASE f # e BY <3>1, <1>3, <1>10 DEF DevInv, EventsInv
        <3>2. CASE f = e /\ event.kind = "ended" BY <3>2, <1>3, <1>5, <1>6, EndOfAnyStream
        <3>3. CASE f = e /\ event.kind # "ended" BY <3>3, <1>3, <1>5, <1>6, <1>10
        <3> QED BY <3>1, <3>2, <3>3
      <2> QED BY <2>1, <1>1 DEF EventsInv
    <1>12. StoreInv'
      <2>1. NoStream \notin DevMessages BY DevToolsAssumption DEF NoStream
      <2> QED BY <2>1, <1>1, <1>10 DEF DevInv, StoreInv
    <1> QED BY <1>3, <1>8, <1>11, <1>12

\* An event reaches the hook, if its engine is the inspected one, or nobody.
LEMMA EventHeardKeeps == ASSUME DevInv, NEW e \in Engines, EventHeard(e) PROVE DevInv'
    <1> DEFINE event == Head(events[e])
               evs == events[inspected]
    <1>1. /\ events' \in [Engines -> Seq(Events)]
          /\ \A f \in Engines : events'[f] = IF f = e THEN Tail(events[e]) ELSE events[f]
          /\ streaming' \in [Engines -> DevMessages \cup {NoStream}]
          /\ streams' \in [engine : Engines, value : [DevMessages -> Statuses]]
          /\ EventsInv' /\ StoreInv' /\ StreamsInv'
      BY EventHeardEngines
    <1>2. /\ events[e] \in Seq(Events) /\ events[e] # <<>>
          /\ UNCHANGED <<store, inspected, load, unheard, steps>>
          /\ \/ e # inspected /\ UNCHANGED <<list, convs, late, undone>>
             \/ /\ e = inspected /\ event.kind \in {"message", "ended"}
                /\ list' = Scope([Scoped(list, NoDevMessages) EXCEPT ![event.id] = event.version])
                /\ late' = IF load.stage = "done" \/ event.id \in late THEN late ELSE late \cup {event.id}
                /\ undone' = undone \ {event.id}
                /\ UNCHANGED convs
             \/ /\ e = inspected /\ event.kind = "conversation"
                /\ convs' = Scope(Scoped(convs, {}) \cup {event.id})
                /\ late' = IF load.stage = "answered" THEN late \cup {event.id} ELSE late
                /\ UNCHANGED <<list, undone>>
      BY DEF EventHeard, DevInv, DevTypes
    <1>3. /\ load \in Loads /\ inspected \in Engines /\ list.value \in VersionsOfAll /\ NoDevMessages \in VersionsOfAll
          /\ convs.value \subseteq DevConversations
          /\ list \in [engine : Engines, value : VersionsOfAll]
          /\ convs \in [engine : Engines, value : SUBSET DevConversations] /\ steps \in Nat
      BY LoadFields DEF DevInv, DevTypes, NoDevMessages, VersionsOfAll
    <1>4. LoadInv' BY <1>2 DEF DevInv, LoadInv
    <1>5. /\ event.kind \in {"message", "ended"} => event.id \in DevMessages /\ event.version \in Nat
          /\ event.kind = "conversation" => event.id \in DevConversations
      <2>1. 1 \in 1 .. Len(events[e]) /\ event = events[e][1] BY <1>2, HeadAndTail
      <2>2. "conversation" \notin {"message", "ended"} OBVIOUS
      <2> QED BY <1>2, <2>1, <2>2, EventFields
    <1>6. \A x : Pending(events[e], x) <=> event.id = x \/ Pending(Tail(events[e]), x) BY <1>2, PendingAfterTail
    <1>7. \A m \in DevMessages : event.id = m /\ ~Pending(Tail(events[e]), m) => event.version = store[e].version[m]
      <2>1. LastIsStored(events[e], store[e].version) BY DEF DevInv, EventsInv
      <2> QED BY <1>2, <2>1, LastAfterTail
    <1> HIDE DEF event
    <1>8. /\ list' \in [engine : Engines, value : VersionsOfAll]
          /\ convs' \in [engine : Engines, value : SUBSET DevConversations]
          /\ ListInv' /\ ConvsInv'
      <2>1. CASE e # inspected /\ UNCHANGED <<list, convs, late, undone>>
        <3>1. events'[inspected] = events[inspected] BY <2>1, <1>1, <1>3
        <3>2. ListInv' BY <2>1, <3>1, <1>2 DEF DevInv, ListInv
        <3>3. ConvsInv' BY <2>1, <3>1, <1>2 DEF DevInv, ConvsInv
        <3> QED BY <2>1, <3>2, <3>3, <1>3
      <2>2. CASE /\ e = inspected /\ event.kind \in {"message", "ended"}
                 /\ list' = Scope([Scoped(list, NoDevMessages) EXCEPT ![event.id] = event.version])
                 /\ late' = IF load.stage = "done" \/ event.id \in late THEN late ELSE late \cup {event.id}
                 /\ undone' = undone \ {event.id}
                 /\ UNCHANGED convs
        <3>1. PICK value : value = [Scoped(list, NoDevMessages) EXCEPT ![event.id] = event.version] OBVIOUS
        <3>2. Scoped(list, NoDevMessages) \in VersionsOfAll BY <1>3 DEF Scoped
        <3>3. /\ value \in VersionsOfAll /\ value[event.id] = event.version
              /\ \A m \in DevMessages : m # event.id => value[m] = Scoped(list, NoDevMessages)[m]
          BY <3>1, <3>2, <2>2, <1>5 DEF VersionsOfAll
        <3>4. list' = [engine |-> inspected, value |-> value] BY <3>1, <2>2 DEF Scope
        <3>5. list' \in [engine : Engines, value : VersionsOfAll] /\ list'.engine = inspected /\ list'.value = value
          BY <3>3, <3>4, <1>3
        <3>6. events'[inspected] = Tail(events[e]) BY <2>2, <1>1
        <3>7. late \subseteq late' /\ undone' \cup {event.id} = undone \cup {event.id} /\ event.id \notin undone'
              /\ (load.stage # "done" => event.id \in late')
          BY <2>2
        <3>8. \A m \in DevMessages : ~Pending(events'[inspected], m) =>
                IF m = event.id THEN event.version = store[inspected].version[m] ELSE ~Pending(events[inspected], m)
          BY <3>6, <2>2, <1>6, <1>7
        <3>9. load.stage = "done" => Scoped(list, NoDevMessages) = list.value BY DEF DevInv, ListInv, Scoped
        <3>10. ASSUME NEW m \in DevMessages, ~Pending(events'[inspected], m)
               PROVE  /\ load.stage = "done" /\ m \notin undone' => value[m] = store[inspected].version[m]
                      /\ load.stage \in {"answered", "reading"} /\ DevConversationOf[m] \notin load.convs
                         /\ m \notin late' => store[inspected].version[m] = 0
                      /\ load.stage = "reading" /\ DevConversationOf[m] \in load.read /\ m \notin late'
                         => load.got[m] = store[inspected].version[m]
          <4>1. CASE m = event.id BY <4>1, <3>3, <3>7, <3>8, <3>10
          <4>2. CASE m # event.id
            <5>1. ~Pending(events[inspected], m) BY <4>2, <3>8, <3>10
            <5>2. m \notin undone' => m \notin undone BY <4>2, <3>7
            <5>3. m \notin late' => m \notin late BY <3>7
            <5>4. load.stage = "done" => value[m] = list.value[m] BY <4>2, <3>3, <3>9
            <5> QED BY <5>1, <5>2, <5>3, <5>4 DEF DevInv, ListInv
          <4> QED BY <4>1, <4>2
        <3>11. ListInv' BY <3>5, <3>10, <1>2 DEF ListInv
        <3>12. ASSUME NEW c \in store[inspected].convs, ~Pending(events'[inspected], c)
               PROVE  /\ load.stage = "answered" /\ c \notin late' => c \in load.convs
                      /\ load.stage \in {"reading", "done"} /\ c \notin undone' => c \in convs.value
          <4>1. c \in DevConversations BY <1>3, StoreFields DEF DevInv
          <4>2. c # event.id BY <4>1, <2>2, <1>5, DevToolsAssumption
          <4>3. ~Pending(events[inspected], c) BY <4>2, <3>6, <3>12, <2>2, <1>6
          <4>4. (c \notin late' => c \notin late) /\ (c \notin undone' => c \notin undone) BY <4>2, <3>7
          <4> QED BY <4>3, <4>4 DEF DevInv, ConvsInv
        <3>13. ConvsInv'
          <4>1. load.stage \in {"reading", "done"} => convs.engine = inspected BY DEF DevInv, ConvsInv
          <4> QED BY <4>1, <3>12, <2>2, <1>2 DEF ConvsInv
        <3> QED BY <3>5, <3>11, <3>13, <2>2, <1>3
      <2>3. CASE /\ e = inspected /\ event.kind = "conversation"
                 /\ convs' = Scope(Scoped(convs, {}) \cup {event.id})
                 /\ late' = IF load.stage = "answered" THEN late \cup {event.id} ELSE late
                 /\ UNCHANGED <<list, undone>>
        <3>1. PICK value : value = Scoped(convs, {}) \cup {event.id} OBVIOUS
        <3>2. Scoped(convs, {}) \subseteq DevConversations BY <1>3 DEF Scoped
        <3>3. value \in SUBSET DevConversations BY <3>1, <3>2, <2>3, <1>5
        <3>4. convs' = [engine |-> inspected, value |-> value] BY <3>1, <2>3 DEF Scope
        <3>5. convs' \in [engine : Engines, value : SUBSET DevConversations] /\ convs'.engine = inspected
              /\ convs'.value = value BY <3>3, <3>4, <1>3
        <3>6. events'[inspected] = Tail(events[e]) BY <2>3, <1>1
        <3>7. late \subseteq late' /\ (load.stage = "answered" => event.id \in late') BY <2>3
        <3>8. \A x : ~Pending(events'[inspected], x) /\ x # event.id => ~Pending(events[inspected], x)
          BY <3>6, <2>3, <1>6
        <3>9. \A m \in DevMessages : m # event.id BY <2>3, <1>5, DevToolsAssumption
        <3>10. ListInv' BY <3>7, <3>8, <3>9, <2>3, <1>2 DEF DevInv, ListInv
        <3>11. ASSUME NEW c \in store[inspected].convs, ~Pending(events'[inspected], c)
               PROVE  /\ load.stage = "answered" /\ c \notin late' => c \in load.convs
                      /\ load.stage \in {"reading", "done"} /\ c \notin undone => c \in value
          <4>1. CASE c = event.id BY <4>1, <3>1, <3>7
          <4>2. CASE c # event.id
            <5>1. ~Pending(events[inspected], c) BY <4>2, <3>8, <3>11
            <5>2. c \notin late' => c \notin late BY <3>7
            <5>3. load.stage \in {"reading", "done"} => convs.value \subseteq value
              BY <3>1 DEF DevInv, ConvsInv, Scoped
            <5> QED BY <5>1, <5>2, <5>3 DEF DevInv, ConvsInv
          <4> QED BY <4>1, <4>2
        <3>12. ConvsInv' BY <3>5, <3>11, <2>3, <1>2 DEF ConvsInv
        <3> QED BY <3>5, <3>10, <3>12, <2>3, <1>3
      <2> QED BY <2>1, <2>2, <2>3, <1>2
    <1>9. DevTypes'
      <2>1. store \in [Engines -> [convs : SUBSET DevConversations, version : VersionsOfAll]] BY DEF DevInv, DevTypes
      <2>2. load' = load /\ inspected' = inspected /\ steps' = steps /\ store' = store BY <1>2
      <2>3. load' \in Loads BY <2>2, <1>3
      <2> QED BY <2>1, <2>2, <2>3, <1>1, <1>3, <1>8 DEF DevTypes, Loads, Statuses
    <1> QED BY <1>1, <1>4, <1>8, <1>9 DEF DevInv

-------------------------------------------------------------------------------

\* The invariant holds of engines in which nothing has happened.
LEMMA DevInit == DevToolsInit => DevInv
    <1> SUFFICES ASSUME DevToolsInit PROVE DevInv OBVIOUS
    <1> USE DEF DevToolsInit
    <1>1. NoDevMessages \in VersionsOfAll /\ \A m \in DevMessages : NoDevMessages[m] = 0 BY DEF NoDevMessages, VersionsOfAll
    <1>2. NoStreams \in [DevMessages -> {"none", "streaming", "ended", "error"}]
          /\ \A m \in DevMessages : NoStreams[m] = "none" BY DEF NoStreams
    <1>3. PICK got \in VersionsOfAll : got = NoDevMessages /\ \A m \in DevMessages : got[m] = 0 BY <1>1
    <1>4. NoStream \notin DevMessages BY DevToolsAssumption DEF NoStream
    <1>5. \A e \in Engines : store[e].convs = {} /\ store[e].version = got /\ events[e] = <<>> /\ streaming[e] = NoStream
      BY <1>3
    <1>6. load.stage = "asked" /\ load.read = {} /\ load.convs = {} /\ load.got = got BY <1>3 DEF FreshLoad
    <1>7. DevTypes
      <2>1. store \in [Engines -> [convs : SUBSET DevConversations, version : VersionsOfAll]] BY <1>3
      <2>2. <<>> \in Seq(Events) OBVIOUS
      <2>3. events \in [Engines -> Seq(Events)] BY <2>2
      <2>4. load \in Loads BY <1>3 DEF FreshLoad, Loads
      <2>5. streams \in [engine : Engines, value : [DevMessages -> {"none", "streaming", "ended", "error"}]] BY <1>2
      <2>6. list \in [engine : Engines, value : VersionsOfAll] /\ convs \in [engine : Engines, value : SUBSET DevConversations]
        BY <1>1
      <2> QED BY <2>1, <2>3, <2>4, <2>5, <2>6 DEF DevTypes, Loads
    <1>8. EventsInv
      <2>1. \A e \in Engines : events[e] = <<>> BY <1>5
      <2>2. Len(<<>>) = 0 /\ 1 .. 0 = {} OBVIOUS
      <2> QED BY <2>1, <2>2 DEF EventsInv, LastIsStored, EndIsOfStream
    <1>9. StoreInv BY <1>3, <1>4, <1>5 DEF StoreInv
    <1>10. LoadInv BY <1>3, <1>6 DEF LoadInv
    <1>11. ListInv BY <1>6 DEF ListInv
    <1>12. ConvsInv BY <1>6 DEF ConvsInv
    <1>13. StreamsInv
      <2>1. \A m \in DevMessages : streams.value[m] = "none" BY <1>2
      <2> QED BY <2>1, <1>4, <1>5 DEF StreamsInv
    <1> QED BY <1>7, <1>8, <1>9, <1>10, <1>11, <1>12, <1>13 DEF DevInv

\* Every step of the engines and of the hook keeps the invariant.
LEMMA DevStep == DevInv /\ [DevToolsNext]_devVars => DevInv'
    <1> SUFFICES ASSUME DevInv, [DevToolsNext]_devVars PROVE DevInv' OBVIOUS
    <1>1. CASE DevToolsNext
      <2>1. ASSUME NEW e \in Engines, NEW c \in DevConversations, CreateConversation(e, c) PROVE DevInv'
        BY <2>1, CreateConversationKeeps
      <2>2. ASSUME NEW e \in Engines, NEW m \in DevMessages,
                   WriteMessage(e, m) \/ StreamStart(e, m) \/ StreamChunk(e, m) \/ StreamIsStored(e, m) \/ StreamFails(e, m)
            PROVE DevInv'
        BY <2>2, WriteMessageKeeps, StreamStartKeeps, StreamChunkKeeps, StreamIsStoredKeeps, StreamFailsKeeps
      <2>3. ASSUME NEW e \in Engines, EventHeard(e) \/ Inspect(e) PROVE DevInv'
        BY <2>3, EventHeardKeeps, InspectKeeps
      <2>4. ASSUME ConversationsAreRead \/ ConversationsArrive \/ MessagesArrive PROVE DevInv'
        BY <2>4, ConversationsAreReadKeeps, ConversationsArriveKeeps, MessagesArriveKeeps
      <2>5. ASSUME NEW c \in DevConversations, MessagesAreRead(c) PROVE DevInv'
        BY <2>5, MessagesAreReadKeeps
      <2> QED BY <1>1, <2>1, <2>2, <2>3, <2>4, <2>5 DEF DevToolsNext
    <1>2. CASE UNCHANGED devVars
      <2> USE <1>2 DEF devVars, DevInv
      <2>1. DevTypes' BY DEF DevTypes
      <2>2. EventsInv' BY DEF EventsInv
      <2>3. StoreInv' BY DEF StoreInv
      <2>4. LoadInv' BY DEF LoadInv
      <2>5. ListInv' BY DEF ListInv
      <2>6. ConvsInv' BY DEF ConvsInv
      <2>7. StreamsInv' BY DEF StreamsInv
      <2> QED BY <2>1, <2>2, <2>3, <2>4, <2>5, <2>6, <2>7
    <1> QED BY <1>1, <1>2

\* The invariant says more than the property.
LEMMA DevFollows == DevInv => InspectorFollows
    <1> SUFFICES ASSUME DevInv PROVE InspectorFollows OBVIOUS
    <1>1. ASSUME load.stage = "done", events[inspected] = <<>>
          PROVE  /\ \A m \in DevMessages \ undone : Scoped(list, NoDevMessages)[m] = store[inspected].version[m]
                 /\ store[inspected].convs \ undone \subseteq Scoped(convs, {})
      <2>1. \A x : ~Pending(events[inspected], x) BY <1>1 DEF Pending
      <2>2. Scoped(list, NoDevMessages) = list.value BY <1>1 DEF DevInv, ListInv, Scoped
      <2>3. Scoped(convs, {}) = convs.value BY <1>1 DEF DevInv, ConvsInv, Scoped
      <2>4. \A m \in DevMessages \ undone : list.value[m] = store[inspected].version[m]
        BY <1>1, <2>1 DEF DevInv, ListInv
      <2>5. store[inspected].convs \ undone \subseteq convs.value BY <1>1, <2>1 DEF DevInv, ConvsInv
      <2> QED BY <2>2, <2>3, <2>4, <2>5
    <1>2. ASSUME NEW m \in DevMessages, Scoped(streams, NoStreams)[m] = "streaming", <<inspected, m>> \notin unheard
          PROVE  streaming[inspected] = m
      <2>1. streams.engine = inspected /\ streams.value[m] = "streaming" BY <1>2, ScopedStreams DEF DevInv
      <2> QED BY <2>1, <1>2 DEF DevInv, StreamsInv
    <1> QED BY <1>1, <1>2 DEF InspectorFollows, ListsFollow, StreamsFollow

\* useChatDevTools.ts: the messages and conversations shown are the inspected engine's as stored, but
\* for events still outstanding and what a load that came late undid, and no stream is shown as
\* streaming that has ended; for any engines, any load and any change between them.
THEOREM InspectorShowsTheEngine == DevToolsSpec => []InspectorFollows
    <1>1. DevToolsSpec => []DevInv BY DevInit, DevStep, PTL DEF DevToolsSpec
    <1> QED BY <1>1, DevFollows, PTL


-------------------------------------------------------------------------------
(* StreamBridge *)

Kinds == {"start", "chunk", "end", "error"}
Stops == {"end", "error"}
Marks == {"start"} \cup Stops

\* The types of the variables.
BridgeDataTypes ==
    /\ roomOf \in [BridgeStreams -> BridgeRooms]
    /\ emitted \in [BridgeStreams -> Seq(Kinds)]
    /\ repeated \in [BridgeStreams -> Seq(Kinds)]
    /\ source \in [room : BridgeRooms, open : BOOLEAN, pipe : Seq([kind : Kinds, of : BridgeStreams])]
    /\ storing \subseteq BridgeStreams
    /\ attended \subseteq BridgeStreams

\* Where kind of s is in what the page's engine was told and in what is on its way.
ToldAt(s, kind) == {i \in DOMAIN repeated[s] : repeated[s][i] = kind}
ComesAt(s, kind) == {i \in DOMAIN source.pipe : source.pipe[i].kind = kind /\ source.pipe[i].of = s}
IsStoring(s, kind) == kind = "end" /\ s \in storing
Somewhere(s, kind) == ToldAt(s, kind) # {} \/ IsStoring(s, kind) \/ ComesAt(s, kind) # {}

\* The server starts a stream with its start, and stops it once.
EmittedInv ==
    \A s \in BridgeStreams :
        /\ emitted[s] # <<>> => Emitted(s, "start")
        /\ \A stop \in Stops : Emitted(s, stop) => emitted[s] # <<>> /\ emitted[s][Len(emitted[s])] = stop

\* What is somewhere was emitted, and is in one place.
OnePlaceInv ==
    \A s \in BridgeStreams, kind \in Marks :
        /\ Somewhere(s, kind) => Emitted(s, kind)
        /\ \A i, k \in ToldAt(s, kind) : i = k
        /\ \A i, k \in ComesAt(s, kind) : i = k
        /\ ToldAt(s, kind) # {} => ~IsStoring(s, kind) /\ ComesAt(s, kind) = {}
        /\ IsStoring(s, kind) => ComesAt(s, kind) = {}

\* A start that is on its way is ahead of the stop, and one that was told was told first.
StartFirstInv ==
    \A s \in BridgeStreams, stop \in Stops :
        /\ ComesAt(s, "start") # {} => ToldAt(s, stop) = {} /\ ~IsStoring(s, stop)
        /\ \A i \in ComesAt(s, "start"), k \in ComesAt(s, stop) : i < k
        /\ \A i \in ToldAt(s, "start"), k \in ToldAt(s, stop) : i < k

\* An attended stream is of the open source's conversation, and all of it is somewhere.
AttendedInv ==
    \A s \in attended :
        /\ source.open /\ source.room = roomOf[s]
        /\ \A kind \in Marks : Emitted(s, kind) => Somewhere(s, kind)

PipeOfRoom == \A n \in DOMAIN source.pipe : roomOf[source.pipe[n].of] = source.room

BridgeInv == BridgeDataTypes /\ EmittedInv /\ OnePlaceInv /\ StartFirstInv /\ AttendedInv /\ PipeOfRoom

\* The invariant says where everything is; Moments puts that on one line.
LEMMA BridgeInvImplies ==
    ASSUME BridgeInv
    PROVE  BridgeRepeats
<1> USE DEF BridgeInv
<1>0. /\ \A s \in BridgeStreams : Len(repeated[s]) \in Nat /\ DOMAIN repeated[s] = 1 .. Len(repeated[s])
      /\ Len(source.pipe) \in Nat /\ DOMAIN source.pipe = 1 .. Len(source.pipe)
  BY DEF BridgeDataTypes
<1>1. ASSUME NEW s \in BridgeStreams, NEW kind
      PROVE  /\ Moments(s, kind) = {n - Len(repeated[s]) - 1 : n \in ToldAt(s, kind)}
                                   \cup (IF IsStoring(s, kind) THEN {0} ELSE {}) \cup ComesAt(s, kind)
             /\ ToldAt(s, kind) \subseteq 1 .. Len(repeated[s])
             /\ ComesAt(s, kind) \subseteq 1 .. Len(source.pipe)
  BY <1>0 DEF Moments, ToldAt, IsStoring, ComesAt
<1>2. ASSUME NEW s \in BridgeStreams, NEW kind \in Marks
      PROVE  /\ s \in attended /\ Emitted(s, kind) => Moments(s, kind) # {}
             /\ Moments(s, kind) # {} => Emitted(s, kind)
  <2>1. Moments(s, kind) # {} <=> Somewhere(s, kind)
    <3> DEFINE told == {n - Len(repeated[s]) - 1 : n \in ToldAt(s, kind)}
    <3>1. told # {} <=> ToldAt(s, kind) # {}
      OBVIOUS
    <3>2. Moments(s, kind) = told \cup (IF IsStoring(s, kind) THEN {0} ELSE {}) \cup ComesAt(s, kind)
      BY <1>1
    <3> HIDE DEF told
    <3> QED
      BY <3>1, <3>2 DEF Somewhere
  <2> QED
    BY <2>1 DEF OnePlaceInv, AttendedInv
<1>3. ASSUME NEW s \in BridgeStreams, NEW kind \in Marks, NEW m \in Moments(s, kind), NEW n \in Moments(s, kind)
      PROVE  m = n
  <2>1. /\ \A i, k \in ToldAt(s, kind) : i = k
        /\ \A i, k \in ComesAt(s, kind) : i = k
        /\ ToldAt(s, kind) # {} => ~IsStoring(s, kind) /\ ComesAt(s, kind) = {}
        /\ IsStoring(s, kind) => ComesAt(s, kind) = {}
    BY DEF OnePlaceInv
  <2> QED
    BY <1>1, <2>1
<1>4. ASSUME NEW s \in BridgeStreams, NEW stop \in Stops, NEW m \in Moments(s, "start"), NEW n \in Moments(s, stop)
      PROVE  m < n
  <2>1. /\ ComesAt(s, "start") # {} => ToldAt(s, stop) = {} /\ ~IsStoring(s, stop)
        /\ \A i \in ComesAt(s, "start"), k \in ComesAt(s, stop) : i < k
        /\ \A i \in ToldAt(s, "start"), k \in ToldAt(s, stop) : i < k
    BY DEF StartFirstInv
  <2>2. ~IsStoring(s, "start") /\ Len(repeated[s]) \in Nat
    BY <1>0 DEF IsStoring
  <2>3. CASE m \in ComesAt(s, "start")
    BY <1>1, <2>1, <2>2, <2>3
  <2>4. CASE \E i \in ToldAt(s, "start") : m = i - Len(repeated[s]) - 1
    <3>1. PICK i \in ToldAt(s, "start") : m = i - Len(repeated[s]) - 1
      BY <2>4
    <3>2. i \in 1 .. Len(repeated[s])
      BY <1>1
    <3>3. CASE n \in ComesAt(s, stop) \/ n = 0
      BY <1>1, <2>2, <3>1, <3>2, <3>3
    <3>4. CASE \E k \in ToldAt(s, stop) : n = k - Len(repeated[s]) - 1
      BY <1>1, <2>1, <2>2, <3>1, <3>2, <3>4
    <3> QED
      BY <1>1, <3>3, <3>4
  <2> QED
    BY <1>1, <2>2, <2>3, <2>4
<1> QED
  BY <1>2, <1>3, <1>4 DEF BridgeRepeats, Marks, Stops, PipeOfRoom

\* Append, element by element.
LEMMA OneMore ==
    ASSUME NEW S, NEW q \in Seq(S), NEW e \in S
    PROVE  /\ Append(q, e) \in Seq(S) /\ Append(q, e) # <<>>
           /\ Len(q) \in Nat /\ Len(Append(q, e)) = Len(q) + 1
           /\ DOMAIN q = 1 .. Len(q) /\ DOMAIN Append(q, e) = 1 .. Len(q) + 1
           /\ Append(q, e)[Len(q) + 1] = e
           /\ \A i \in 1 .. Len(q) : Append(q, e)[i] = q[i]
  OBVIOUS

\* What the server emits is in the pipe if the source listens to it, and nowhere else.
LEMMA EmitMoves ==
    ASSUME BridgeDataTypes, NEW s \in BridgeStreams, NEW kind \in Kinds, EmitStream(s, kind), UNCHANGED roomOf
    PROVE  /\ emitted' \in [BridgeStreams -> Seq(Kinds)]
           /\ source' \in [room : BridgeRooms, open : BOOLEAN, pipe : Seq([kind : Kinds, of : BridgeStreams])]
           /\ source'.open = source.open /\ source'.room = source.room
           /\ Len(source.pipe) \in Nat
           /\ \A t \in BridgeStreams, c \in Kinds :
                /\ Emitted(t, c)' <=> Emitted(t, c) \/ (t = s /\ c = kind)
                /\ ToldAt(t, c)' = ToldAt(t, c)
                /\ IsStoring(t, c)' <=> IsStoring(t, c)
                /\ ComesAt(t, c) \subseteq 1 .. Len(source.pipe)
                /\ ComesAt(t, c)' = ComesAt(t, c) \/ (t = s /\ c = kind /\ ComesAt(t, c)' = ComesAt(t, c) \cup {Len(source.pipe) + 1})
           /\ source.open /\ source.room = roomOf[s] /\ kind # "chunk" => ComesAt(s, kind)' # {}
           /\ emitted'[s] # <<>> /\ emitted'[s][Len(emitted'[s])] = kind
           /\ \A t \in BridgeStreams \ {s} : emitted'[t] = emitted[t]
           /\ PipeOfRoom => PipeOfRoom'
<1> DEFINE E == [kind : Kinds, of : BridgeStreams]
<1>1. /\ emitted \in [BridgeStreams -> Seq(Kinds)] /\ emitted[s] \in Seq(Kinds)
      /\ emitted' = [emitted EXCEPT ![s] = Append(@, kind)]
  BY DEF BridgeDataTypes, EmitStream
<1>2. emitted'[s] = Append(emitted[s], kind) /\ \A t \in BridgeStreams \ {s} : emitted'[t] = emitted[t]
  BY <1>1
<1>3. emitted' \in [BridgeStreams -> Seq(Kinds)]
  BY <1>1, OneMore
<1>4. emitted'[s] # <<>> /\ emitted'[s][Len(emitted'[s])] = kind
  BY <1>1, <1>2, OneMore
<1>5. ASSUME NEW t \in BridgeStreams, NEW c \in Kinds
      PROVE  Emitted(t, c)' <=> Emitted(t, c) \/ (t = s /\ c = kind)
  <2>1. CASE t # s
    BY <1>2, <2>1 DEF Emitted
  <2>2. CASE t = s
    <3> DEFINE q == emitted[s]
               r == Append(emitted[s], kind)
    <3>1. /\ DOMAIN r = 1 .. Len(q) + 1 /\ DOMAIN q = 1 .. Len(q) /\ Len(q) \in Nat
          /\ r[Len(q) + 1] = kind /\ \A i \in 1 .. Len(q) : r[i] = q[i]
      BY <1>1, OneMore
    <3>2. (Emitted(t, c)' <=> \E n \in DOMAIN r : r[n] = c) /\ (Emitted(t, c) <=> \E n \in DOMAIN q : q[n] = c)
      BY <1>2, <2>2 DEF Emitted
    <3> HIDE DEF q, r
    <3> QED
      BY <2>2, <3>1, <3>2
  <2> QED
    BY <2>1, <2>2
<1>6. Sse(kind, s) \in E /\ Sse(kind, s).kind = kind /\ Sse(kind, s).of = s
  BY DEF Sse
<1>61. source \in [room : BridgeRooms, open : BOOLEAN, pipe : Seq(E)] /\ source' = Written(Sse(kind, s))
  BY DEF BridgeDataTypes, EmitStream
<1>7. \/ source' = source
      \/ /\ source' = [source EXCEPT !.pipe = Append(@, Sse(kind, s))]
         /\ source.room = roomOf[s]
  BY <1>6, <1>61 DEF Written, ConversationOf
<1>8. /\ source' \in [room : BridgeRooms, open : BOOLEAN, pipe : Seq(E)]
      /\ source'.open = source.open /\ source'.room = source.room
      /\ source'.pipe = source.pipe \/ (source'.pipe = Append(source.pipe, Sse(kind, s)) /\ source.room = roomOf[s])
  <2>1. CASE source' = source
    BY <1>61, <2>1
  <2>2. CASE source' = [source EXCEPT !.pipe = Append(@, Sse(kind, s))] /\ source.room = roomOf[s]
    <3> HIDE DEF E
    <3>1. Append(source.pipe, Sse(kind, s)) \in Seq(E)
      BY <1>6, <1>61, OneMore
    <3> QED
      BY <1>61, <2>2, <3>1
  <2> QED
    BY <1>7, <2>1, <2>2
<1>9. source.open /\ source.room = roomOf[s] /\ kind # "chunk" => source'.pipe = Append(source.pipe, Sse(kind, s))
  BY <1>6, <1>61 DEF Written, ConversationOf, Named, Kinds
<1>10. /\ source.pipe \in Seq(E) /\ Len(source.pipe) \in Nat /\ DOMAIN source.pipe = 1 .. Len(source.pipe)
       /\ DOMAIN Append(source.pipe, Sse(kind, s)) = 1 .. Len(source.pipe) + 1
       /\ Append(source.pipe, Sse(kind, s))[Len(source.pipe) + 1] = Sse(kind, s)
       /\ \A i \in 1 .. Len(source.pipe) : Append(source.pipe, Sse(kind, s))[i] = source.pipe[i]
  <2> HIDE DEF E
  <2> QED
    BY <1>6, <1>61, OneMore
<1>11. ASSUME NEW t \in BridgeStreams, NEW c \in Kinds
       PROVE  /\ ComesAt(t, c) \subseteq 1 .. Len(source.pipe)
              /\ ComesAt(t, c)' = ComesAt(t, c) \/ (t = s /\ c = kind /\ ComesAt(t, c)' = ComesAt(t, c) \cup {Len(source.pipe) + 1})
              /\ source'.pipe = Append(source.pipe, Sse(kind, s)) /\ t = s /\ c = kind => Len(source.pipe) + 1 \in ComesAt(t, c)'
  <2>1. CASE source'.pipe = source.pipe
    <3>1. ComesAt(t, c)' = ComesAt(t, c)
      BY <2>1 DEF ComesAt
    <3>2. source'.pipe # Append(source.pipe, Sse(kind, s))
      BY <1>10, <2>1
    <3> QED
      BY <1>10, <3>1, <3>2 DEF ComesAt
  <2>2. CASE source'.pipe = Append(source.pipe, Sse(kind, s))
    <3> DEFINE q == Append(source.pipe, Sse(kind, s))
    <3>1. ComesAt(t, c)' = {i \in 1 .. Len(source.pipe) + 1 : q[i].kind = c /\ q[i].of = t}
      BY <1>10, <2>2 DEF ComesAt
    <3>2. ComesAt(t, c) = {i \in 1 .. Len(source.pipe) : source.pipe[i].kind = c /\ source.pipe[i].of = t}
      BY <1>10 DEF ComesAt
    <3> HIDE DEF q
    <3>3. \A i \in 1 .. Len(source.pipe) : q[i] = source.pipe[i]
      BY <1>10 DEF q
    <3>4. q[Len(source.pipe) + 1].kind = kind /\ q[Len(source.pipe) + 1].of = s
      BY <1>6, <1>10 DEF q
    <3>5. CASE t = s /\ c = kind
      <4>1. ComesAt(t, c)' = ComesAt(t, c) \cup {Len(source.pipe) + 1}
        <5> DEFINE k == Len(source.pipe)
        <5>1. k \in Nat
          BY <1>10
        <5> HIDE DEF k
        <5>2. \A i : i \in ComesAt(t, c)' <=> (i \in 1 .. k /\ i \in ComesAt(t, c)) \/ i = k + 1
          BY <5>1, <3>1, <3>2, <3>3, <3>4, <3>5 DEF k
        <5> QED
          BY <5>2, <3>2 DEF k
      <4> QED
        BY <3>2, <3>5, <4>1
    <3>6. CASE ~(t = s /\ c = kind)
      <4>1. ComesAt(t, c)' = ComesAt(t, c)
        BY <1>10, <3>1, <3>2, <3>3, <3>4, <3>6
      <4> QED
        BY <3>2, <3>6, <4>1
    <3> QED
      BY <3>5, <3>6
  <2> QED
    BY <1>8, <2>1, <2>2
<1>12. \A t \in BridgeStreams, c \in Kinds : ToldAt(t, c)' = ToldAt(t, c) /\ (IsStoring(t, c)' <=> IsStoring(t, c))
  BY DEF ToldAt, IsStoring, EmitStream
<1>13. PipeOfRoom => PipeOfRoom'
  <2>1. CASE source'.pipe = source.pipe
    BY <1>8, <2>1 DEF PipeOfRoom
  <2>2. CASE source'.pipe = Append(source.pipe, Sse(kind, s)) /\ source.room = roomOf[s]
    <3> DEFINE q == Append(source.pipe, Sse(kind, s))
    <3>1. /\ DOMAIN q = 1 .. Len(source.pipe) + 1 /\ DOMAIN source.pipe = 1 .. Len(source.pipe)
          /\ q[Len(source.pipe) + 1].of = s /\ Len(source.pipe) \in Nat
          /\ \A i \in 1 .. Len(source.pipe) : q[i] = source.pipe[i]
      BY <1>6, <1>10
    <3>2. source'.pipe = q /\ source'.room = source.room /\ roomOf' = roomOf /\ source.room = roomOf[s]
      BY <1>8, <2>2
    <3> HIDE DEF q
    <3> QED
      BY <3>1, <3>2 DEF PipeOfRoom
  <2> QED
    BY <1>8, <2>1, <2>2
<1> QED
  <2>1. source.open /\ source.room = roomOf[s] /\ kind # "chunk" => ComesAt(s, kind)' # {}
    BY <1>9, <1>11
  <2> QED
    BY <1>2, <1>3, <1>4, <1>5, <1>8, <1>10, <1>11, <1>12, <1>13, <2>1

\* Emitting the next event of a stream keeps the invariant: it is new, and behind everything.
LEMMA EmitInv ==
    ASSUME BridgeInv, NEW s \in BridgeStreams, UNCHANGED roomOf,
           \/ ReplyStarts(s) \/ ReplyGoesOn(s) \/ ReplyStops(s)
    PROVE  BridgeInv'
<1> USE DEF BridgeInv
<1>1. PICK kind \in Kinds : /\ EmitStream(s, kind)
                            /\ kind = "start" => emitted[s] = <<>>
                            /\ kind # "start" => Streaming(s)
                            /\ \/ UNCHANGED attended
                               \/ /\ kind = "start" /\ source.open /\ source.room = roomOf[s]
                                  /\ attended' = attended \cup {s}
  <2>1. CASE ReplyStarts(s)
    BY <2>1 DEF ReplyStarts, Kinds
  <2>2. CASE ReplyGoesOn(s)
    BY <2>2 DEF ReplyGoesOn, Kinds
  <2>3. CASE ReplyStops(s)
    BY <2>3 DEF ReplyStops, Kinds
  <2> QED
    BY <2>1, <2>2, <2>3
<1>2. /\ emitted' \in [BridgeStreams -> Seq(Kinds)]
      /\ source' \in [room : BridgeRooms, open : BOOLEAN, pipe : Seq([kind : Kinds, of : BridgeStreams])]
      /\ source'.open = source.open /\ source'.room = source.room
      /\ Len(source.pipe) \in Nat
      /\ \A t \in BridgeStreams, c \in Kinds :
           /\ Emitted(t, c)' <=> Emitted(t, c) \/ (t = s /\ c = kind)
           /\ ToldAt(t, c)' = ToldAt(t, c)
           /\ IsStoring(t, c)' <=> IsStoring(t, c)
           /\ ComesAt(t, c) \subseteq 1 .. Len(source.pipe)
           /\ ComesAt(t, c)' = ComesAt(t, c) \/ (t = s /\ c = kind /\ ComesAt(t, c)' = ComesAt(t, c) \cup {Len(source.pipe) + 1})
      /\ source.open /\ source.room = roomOf[s] /\ kind # "chunk" => ComesAt(s, kind)' # {}
      /\ emitted'[s] # <<>> /\ emitted'[s][Len(emitted'[s])] = kind
      /\ \A t \in BridgeStreams \ {s} : emitted'[t] = emitted[t]
      /\ PipeOfRoom => PipeOfRoom'
  BY <1>1, EmitMoves
<1>3. UNCHANGED <<roomOf, repeated, storing>> /\ attended' \subseteq BridgeStreams
  BY <1>1 DEF EmitStream, BridgeDataTypes
<1>4. Marks \subseteq Kinds /\ Stops \subseteq Marks /\ "start" \in Marks /\ "start" \notin Stops /\ "chunk" \notin Marks
  BY DEF Marks, Stops, Kinds
<1>5. /\ kind = "start" => \A c \in Kinds : ~Emitted(s, c)
      /\ kind # "start" => Emitted(s, "start") /\ \A stop \in Stops : ~Emitted(s, stop)
  <2>1. emitted[s] = <<>> => \A c \in Kinds : ~Emitted(s, c)
    BY DEF Emitted
  <2>2. ASSUME Streaming(s) PROVE Emitted(s, "start") /\ \A stop \in Stops : ~Emitted(s, stop)
    BY <2>2 DEF Streaming, EmittedInv, Stops
  <2> QED
    BY <1>1, <2>1, <2>2
<1>6. kind \in Marks => ~Emitted(s, kind)
  BY <1>4, <1>5 DEF Marks
<1>7. BridgeDataTypes'
  BY <1>2, <1>3 DEF BridgeDataTypes
<1>8. EmittedInv'
  <2> SUFFICES ASSUME NEW t \in BridgeStreams
               PROVE  /\ emitted'[t] # <<>> => Emitted(t, "start")'
                      /\ \A stop \in Stops : Emitted(t, stop)' => emitted'[t] # <<>> /\ emitted'[t][Len(emitted'[t])] = stop
    BY DEF EmittedInv
  <2>1. CASE t = s
    BY <1>2, <1>4, <1>5, <2>1
  <2>2. CASE t # s
    <3>1. emitted'[t] = emitted[t] /\ \A c \in Kinds : Emitted(t, c)' <=> Emitted(t, c)
      BY <1>2, <2>2
    <3> QED
      BY <1>4, <3>1 DEF EmittedInv
  <2> QED
    BY <2>1, <2>2
<1>9. OnePlaceInv'
  <2> SUFFICES ASSUME NEW t \in BridgeStreams, NEW c \in Marks
               PROVE  (/\ Somewhere(t, c) => Emitted(t, c)
                       /\ \A i, k \in ToldAt(t, c) : i = k
                       /\ \A i, k \in ComesAt(t, c) : i = k
                       /\ ToldAt(t, c) # {} => ~IsStoring(t, c) /\ ComesAt(t, c) = {}
                       /\ IsStoring(t, c) => ComesAt(t, c) = {})'
    BY DEF OnePlaceInv
  <2>1. CASE ComesAt(t, c)' = ComesAt(t, c)
    <3>1. /\ ToldAt(t, c)' = ToldAt(t, c) /\ (IsStoring(t, c)' <=> IsStoring(t, c))
          /\ Emitted(t, c) => Emitted(t, c)'
      BY <1>2, <1>4
    <3> QED
      BY <2>1, <3>1 DEF OnePlaceInv, Somewhere
  <2>2. CASE t = s /\ c = kind /\ ComesAt(t, c)' = ComesAt(t, c) \cup {Len(source.pipe) + 1}
    <3>1. ~Somewhere(s, kind)
      BY <1>6, <2>2 DEF OnePlaceInv
    <3> QED
      BY <1>2, <1>4, <2>2, <3>1 DEF Somewhere
  <2> QED
    BY <1>2, <1>4, <2>1, <2>2
<1>10. StartFirstInv'
  <2> SUFFICES ASSUME NEW t \in BridgeStreams, NEW stop \in Stops
               PROVE  (/\ ComesAt(t, "start") # {} => ToldAt(t, stop) = {} /\ ~IsStoring(t, stop)
                       /\ \A i \in ComesAt(t, "start"), k \in ComesAt(t, stop) : i < k
                       /\ \A i \in ToldAt(t, "start"), k \in ToldAt(t, stop) : i < k)'
    BY DEF StartFirstInv
  <2>1. CASE ComesAt(t, "start")' = ComesAt(t, "start") /\ ComesAt(t, stop)' = ComesAt(t, stop)
    BY <1>2, <1>4, <2>1 DEF StartFirstInv
  <2>2. CASE t = s /\ kind = "start"
    <3>1. ~Somewhere(s, stop)
      BY <1>4, <1>5, <2>2 DEF OnePlaceInv
    <3> QED
      BY SMTT(20), <1>2, <1>4, <2>2, <3>1 DEF Somewhere
  <2>3. CASE t = s /\ kind = stop
    <3>1. /\ ComesAt(t, "start")' = ComesAt(t, "start") /\ ComesAt(t, "start") \subseteq 1 .. Len(source.pipe)
          /\ ToldAt(t, "start")' = ToldAt(t, "start") /\ ToldAt(t, stop)' = ToldAt(t, stop)
          /\ IsStoring(t, stop)' <=> IsStoring(t, stop)
          /\ ComesAt(t, stop)' \subseteq ComesAt(t, stop) \cup {Len(source.pipe) + 1}
      BY <1>2, <1>4, <2>3
    <3>2. \A i \in ComesAt(t, "start") : i < Len(source.pipe) + 1
      BY <1>2, <3>1
    <3> QED
      BY <3>1, <3>2 DEF StartFirstInv
  <2> QED
    BY <1>2, <1>4, <2>1, <2>2, <2>3
<1>11. AttendedInv'
  <2> SUFFICES ASSUME NEW t \in attended'
               PROVE  /\ source'.open /\ source'.room = roomOf'[t]
                      /\ \A c \in Marks : Emitted(t, c)' => Somewhere(t, c)'
    BY DEF AttendedInv
  <2>1. t \in BridgeStreams
    BY <1>3
  <2>2. source'.open /\ source'.room = roomOf'[t]
    BY <1>1, <1>2, <1>3 DEF AttendedInv
  <2>3. ASSUME NEW c \in Marks, Emitted(t, c)' PROVE Somewhere(t, c)'
    <3>1. CASE t = s /\ c = kind
      BY <1>2, <1>3, <1>4, <2>2, <3>1 DEF Somewhere
    <3>2. CASE ~(t = s /\ c = kind)
      <4>1. Emitted(t, c)
        BY <1>2, <1>4, <2>1, <2>3, <3>2
      <4>2. t \in attended
        BY <1>1, <1>5, <1>4, <3>2, <4>1
      <4>3. Somewhere(t, c)
        BY <4>1, <4>2 DEF AttendedInv
      <4> QED
        BY <1>2, <1>4, <2>1, <4>3 DEF Somewhere
    <3> QED
      BY <3>1, <3>2
  <2> QED
    BY <2>2, <2>3
<1>12. PipeOfRoom'
  BY <1>2
<1> QED
  BY <1>7, <1>8, <1>9, <1>10, <1>11, <1>12

\* What the page's engine is told is behind what it was told before.
LEMMA TellMoves ==
    ASSUME BridgeDataTypes, NEW s \in BridgeStreams, NEW kind \in Kinds,
           repeated' = [repeated EXCEPT ![s] = Append(@, kind)]
    PROVE  /\ repeated' \in [BridgeStreams -> Seq(Kinds)]
           /\ Len(repeated[s]) \in Nat
           /\ \A c \in Kinds : ToldAt(s, c) \subseteq 1 .. Len(repeated[s])
           /\ \A t \in BridgeStreams, c \in Kinds :
                \/ ~(t = s /\ c = kind) /\ ToldAt(t, c)' = ToldAt(t, c)
                \/ t = s /\ c = kind /\ ToldAt(t, c)' = ToldAt(t, c) \cup {Len(repeated[s]) + 1}
<1>1. repeated \in [BridgeStreams -> Seq(Kinds)] /\ repeated[s] \in Seq(Kinds)
  BY DEF BridgeDataTypes
<1>2. repeated'[s] = Append(repeated[s], kind) /\ \A t \in BridgeStreams \ {s} : repeated'[t] = repeated[t]
  BY <1>1
<1>3. repeated' \in [BridgeStreams -> Seq(Kinds)]
  BY <1>1, OneMore
<1> DEFINE q == repeated[s]
           r == Append(repeated[s], kind)
           k == Len(q)
<1>4. /\ DOMAIN r = 1 .. k + 1 /\ DOMAIN q = 1 .. k /\ k \in Nat
      /\ r[k + 1] = kind /\ \A i \in 1 .. k : r[i] = q[i]
  BY <1>1, OneMore
<1>5. \A c \in Kinds : ToldAt(s, c)' = {i \in DOMAIN r : r[i] = c} /\ ToldAt(s, c) = {i \in DOMAIN q : q[i] = c}
  BY <1>2 DEF ToldAt
<1>6. \A t \in BridgeStreams \ {s}, c \in Kinds : ToldAt(t, c)' = ToldAt(t, c)
  BY <1>2 DEF ToldAt
<1> HIDE DEF q, r, k
<1>7. ASSUME NEW c \in Kinds
      PROVE  /\ ToldAt(s, c) \subseteq 1 .. k
             /\ c # kind => ToldAt(s, c)' = ToldAt(s, c)
             /\ c = kind => ToldAt(s, c)' = ToldAt(s, c) \cup {k + 1}
  <2>1. \A i : i \in ToldAt(s, c)' <=> i \in ToldAt(s, c) \/ (c = kind /\ i = k + 1)
    BY <1>4, <1>5
  <2> QED
    BY <1>4, <1>5, <2>1
<1> QED
  BY <1>3, <1>4, <1>6, <1>7 DEF q, k

\* Delivering the first event moves the others up by one.
LEMMA TailMoves ==
    ASSUME BridgeDataTypes, source.pipe # <<>>, source' = [source EXCEPT !.pipe = Tail(@)]
    PROVE  /\ Head(source.pipe) \in [kind : Kinds, of : BridgeStreams]
           /\ source' \in [room : BridgeRooms, open : BOOLEAN, pipe : Seq([kind : Kinds, of : BridgeStreams])]
           /\ source'.open = source.open /\ source'.room = source.room
           /\ \A t \in BridgeStreams, c \in Kinds :
                /\ ComesAt(t, c) \subseteq Nat \ {0}
                /\ \A i : i \in ComesAt(t, c)' <=> i \in Nat \ {0} /\ i + 1 \in ComesAt(t, c)
                /\ 1 \in ComesAt(t, c) <=> t = Head(source.pipe).of /\ c = Head(source.pipe).kind
           /\ UNCHANGED roomOf /\ PipeOfRoom => PipeOfRoom'
<1> DEFINE E == [kind : Kinds, of : BridgeStreams]
           q == source.pipe
           k == Len(q)
<1>1. source \in [room : BridgeRooms, open : BOOLEAN, pipe : Seq(E)] /\ q \in Seq(E)
  BY DEF BridgeDataTypes
<1>2. source'.pipe = Tail(q) /\ source'.open = source.open /\ source'.room = source.room
  BY <1>1
<1>3. /\ k \in Nat \ {0} /\ DOMAIN q = 1 .. k /\ Head(q) = q[1] /\ q[1] \in E
      /\ Tail(q) \in Seq(E) /\ DOMAIN Tail(q) = 1 .. k - 1
      /\ \A i \in 1 .. k - 1 : Tail(q)[i] = q[i + 1]
  <2> HIDE DEF E
  <2> QED
    BY <1>1
<1>4. source' \in [room : BridgeRooms, open : BOOLEAN, pipe : Seq(E)]
  <2> HIDE DEF E
  <2> QED
    BY <1>1, <1>3
<1>5. ASSUME NEW t \in BridgeStreams, NEW c \in Kinds
      PROVE  /\ ComesAt(t, c) \subseteq Nat \ {0}
             /\ \A i : i \in ComesAt(t, c)' <=> i \in Nat \ {0} /\ i + 1 \in ComesAt(t, c)
             /\ 1 \in ComesAt(t, c) <=> t = Head(q).of /\ c = Head(q).kind
  <2> DEFINE r == Tail(q)
  <2>1. /\ ComesAt(t, c) = {i \in 1 .. k : q[i].kind = c /\ q[i].of = t}
        /\ ComesAt(t, c)' = {i \in 1 .. k - 1 : r[i].kind = c /\ r[i].of = t}
    BY <1>2, <1>3 DEF ComesAt
  <2>2. \A i \in 1 .. k - 1 : r[i] = q[i + 1]
    BY <1>3
  <2> HIDE DEF q, k, r
  <2>3. \A i : i \in ComesAt(t, c)' <=> i \in Nat \ {0} /\ i + 1 \in ComesAt(t, c)
    BY <1>3, <2>1, <2>2
  <2> QED
    BY <1>3, <2>1, <2>3
<1>6. UNCHANGED roomOf /\ PipeOfRoom => PipeOfRoom'
  <2> SUFFICES ASSUME UNCHANGED roomOf, PipeOfRoom, NEW n \in DOMAIN source'.pipe
               PROVE  roomOf'[source'.pipe[n].of] = source'.room
    BY DEF PipeOfRoom
  <2>1. n \in 1 .. k - 1 /\ source'.pipe[n] = q[n + 1] /\ n + 1 \in DOMAIN q
    BY <1>2, <1>3
  <2> QED
    BY <1>2, <2>1 DEF PipeOfRoom
<1> QED
  BY <1>2, <1>3, <1>4, <1>5, <1>6

\* What the invariant asks of a step that emits nothing: it may only move and forget.
LEMMA QuietInv ==
    ASSUME BridgeInv, UNCHANGED <<roomOf, emitted>>, BridgeDataTypes', PipeOfRoom',
           attended' \subseteq attended,
           \A s \in attended' : /\ source'.open /\ source'.room = source.room
                                 /\ \A kind \in Marks : Somewhere(s, kind) => Somewhere(s, kind)',
           \A s \in BridgeStreams, kind \in Marks : Somewhere(s, kind)' => Somewhere(s, kind),
           OnePlaceInv => \A s \in BridgeStreams, kind \in Marks :
             (/\ \A i, k \in ToldAt(s, kind) : i = k
              /\ \A i, k \in ComesAt(s, kind) : i = k
              /\ ToldAt(s, kind) # {} => ~IsStoring(s, kind) /\ ComesAt(s, kind) = {}
              /\ IsStoring(s, kind) => ComesAt(s, kind) = {})',
           StartFirstInv'
    PROVE  BridgeInv'
<1>1. \A s \in BridgeStreams, kind \in Marks : Emitted(s, kind)' <=> Emitted(s, kind)
  BY DEF Emitted
<1>2. EmittedInv'
  BY DEF BridgeInv, EmittedInv, Emitted
<1>3. OnePlaceInv'
  BY <1>1 DEF BridgeInv, OnePlaceInv
<1>4. AttendedInv'
  BY <1>1 DEF BridgeInv, AttendedInv, BridgeDataTypes
<1> QED
  BY <1>2, <1>3, <1>4 DEF BridgeInv

\* A delivered event goes from the pipe's head to where the page's engine was told last, an end
\* to the storage.
LEMMA DeliverInv ==
    ASSUME BridgeInv, UNCHANGED roomOf, SourceDelivers
    PROVE  BridgeInv'
<1> DEFINE event == Head(source.pipe)
           s == event.of
           last == Len(repeated[s]) + 1
<1>1. /\ source.pipe # <<>> /\ source' = [source EXCEPT !.pipe = Tail(@)]
      /\ UNCHANGED <<emitted, attended>>
      /\ \/ /\ event.kind = "end"
            /\ storing' = storing \cup {s} /\ UNCHANGED repeated
         \/ /\ event.kind # "end"
            /\ repeated' = [repeated EXCEPT ![s] = Append(@, event.kind)] /\ UNCHANGED storing
  BY DEF SourceDelivers
<1>2. BridgeDataTypes /\ OnePlaceInv /\ StartFirstInv /\ AttendedInv /\ PipeOfRoom
  BY DEF BridgeInv
<1>3. /\ event \in [kind : Kinds, of : BridgeStreams]
      /\ source' \in [room : BridgeRooms, open : BOOLEAN, pipe : Seq([kind : Kinds, of : BridgeStreams])]
      /\ source'.open = source.open /\ source'.room = source.room
      /\ \A t \in BridgeStreams, c \in Kinds :
           /\ ComesAt(t, c) \subseteq Nat \ {0}
           /\ \A i : i \in ComesAt(t, c)' <=> i \in Nat \ {0} /\ i + 1 \in ComesAt(t, c)
           /\ 1 \in ComesAt(t, c) <=> t = s /\ c = event.kind
      /\ PipeOfRoom'
  BY <1>1, <1>2, TailMoves
<1>4. s \in BridgeStreams /\ event.kind \in Kinds
  BY <1>3
<1>5. /\ repeated' \in [BridgeStreams -> Seq(Kinds)] /\ storing' \subseteq BridgeStreams
      /\ \A t \in BridgeStreams, c \in Kinds :
           \/ /\ ~(t = s /\ c = event.kind)
              /\ ToldAt(t, c)' = ToldAt(t, c) /\ (IsStoring(t, c)' <=> IsStoring(t, c))
           \/ /\ t = s /\ c = event.kind /\ c # "end"
              /\ ToldAt(t, c)' = ToldAt(t, c) \cup {last} /\ (IsStoring(t, c)' <=> IsStoring(t, c))
           \/ /\ t = s /\ c = event.kind /\ c = "end"
              /\ ToldAt(t, c)' = ToldAt(t, c) /\ IsStoring(t, c)'
      /\ \A c \in Kinds : \A i \in ToldAt(s, c) : i < last
  <2>1. CASE event.kind = "end" /\ storing' = storing \cup {s} /\ UNCHANGED repeated
    <3>1. \A c \in Kinds : \A i \in ToldAt(s, c) : i < last
      BY <1>2, <1>4 DEF BridgeDataTypes, ToldAt
    <3> QED
      BY <1>2, <1>4, <2>1, <3>1 DEF BridgeDataTypes, ToldAt, IsStoring
  <2>2. CASE event.kind # "end" /\ repeated' = [repeated EXCEPT ![s] = Append(@, event.kind)] /\ UNCHANGED storing
    <3>1. /\ repeated' \in [BridgeStreams -> Seq(Kinds)]
          /\ Len(repeated[s]) \in Nat
          /\ \A c \in Kinds : ToldAt(s, c) \subseteq 1 .. Len(repeated[s])
          /\ \A t \in BridgeStreams, c \in Kinds :
               \/ ~(t = s /\ c = event.kind) /\ ToldAt(t, c)' = ToldAt(t, c)
               \/ t = s /\ c = event.kind /\ ToldAt(t, c)' = ToldAt(t, c) \cup {Len(repeated[s]) + 1}
      <4>1. s \in BridgeStreams /\ event.kind \in Kinds /\ repeated' = [repeated EXCEPT ![s] = Append(@, event.kind)]
        BY <1>4, <2>2
      <4> HIDE DEF s, event, last
      <4> QED
        BY <1>2, <4>1, TellMoves
    <3>2. \A t, c : IsStoring(t, c)' <=> IsStoring(t, c)
      BY <2>2 DEF IsStoring
    <3>3. storing' \subseteq BridgeStreams
      BY <1>2, <2>2 DEF BridgeDataTypes
    <3>4. \A c \in Kinds : \A i \in ToldAt(s, c) : i < last
      BY <3>1
    <3> QED
      BY <2>2, <3>1, <3>2, <3>3, <3>4
  <2> QED
    BY <1>1, <2>1, <2>2
<1> HIDE DEF s, event, last
<1>6. Marks \subseteq Kinds /\ Stops \subseteq Marks /\ "start" \in Marks /\ "start" \notin Stops /\ "start" # "end"
  BY DEF Marks, Stops, Kinds
<1>7. BridgeDataTypes'
  BY <1>1, <1>2, <1>3, <1>5 DEF BridgeDataTypes
<1>8. ASSUME NEW t \in BridgeStreams, NEW c \in Marks
      PROVE  /\ Somewhere(t, c)' <=> Somewhere(t, c)
             /\ (/\ \A i, k \in ToldAt(t, c) : i = k
                 /\ \A i, k \in ComesAt(t, c) : i = k
                 /\ ToldAt(t, c) # {} => ~IsStoring(t, c) /\ ComesAt(t, c) = {}
                 /\ IsStoring(t, c) => ComesAt(t, c) = {})'
  <2>1. /\ \A i, k \in ToldAt(t, c) : i = k
        /\ \A i, k \in ComesAt(t, c) : i = k
        /\ ToldAt(t, c) # {} => ~IsStoring(t, c) /\ ComesAt(t, c) = {}
        /\ IsStoring(t, c) => ComesAt(t, c) = {}
    BY <1>2 DEF OnePlaceInv
  <2>2. /\ ComesAt(t, c) \subseteq Nat \ {0}
        /\ \A i : i \in ComesAt(t, c)' <=> i \in Nat \ {0} /\ i + 1 \in ComesAt(t, c)
        /\ 1 \in ComesAt(t, c) <=> t = s /\ c = event.kind
    BY <1>3, <1>6
  <2>3. CASE t = s /\ c = event.kind
    <3>1. ComesAt(t, c) = {1} /\ ComesAt(t, c)' = {} /\ ToldAt(t, c) = {} /\ ~IsStoring(t, c)
      BY <2>1, <2>2, <2>3
    <3>2. \/ ToldAt(t, c)' = {last} /\ ~IsStoring(t, c)'
          \/ ToldAt(t, c)' = {} /\ IsStoring(t, c)'
      BY <1>5, <1>6, <2>3, <3>1
    <3> QED
      BY <3>1, <3>2 DEF Somewhere
  <2>4. CASE ~(t = s /\ c = event.kind)
    <3>1. ToldAt(t, c)' = ToldAt(t, c) /\ (IsStoring(t, c)' <=> IsStoring(t, c))
      BY <1>5, <1>6, <2>4
    <3>2. \A i, k \in ComesAt(t, c)' : i = k
      BY <2>1, <2>2
    <3>3. ComesAt(t, c)' = {} <=> ComesAt(t, c) = {}
      <4>1. ASSUME NEW i \in ComesAt(t, c) PROVE i - 1 \in ComesAt(t, c)'
        BY <2>2, <2>4
      <4> QED
        BY <2>2, <4>1
    <3> QED
      BY <2>1, <3>1, <3>2, <3>3 DEF Somewhere
  <2> QED
    BY <2>3, <2>4
<1>9. StartFirstInv'
  <2> SUFFICES ASSUME NEW t \in BridgeStreams, NEW stop \in Stops
               PROVE  (/\ ComesAt(t, "start") # {} => ToldAt(t, stop) = {} /\ ~IsStoring(t, stop)
                       /\ \A i \in ComesAt(t, "start"), k \in ComesAt(t, stop) : i < k
                       /\ \A i \in ToldAt(t, "start"), k \in ToldAt(t, stop) : i < k)'
    BY DEF StartFirstInv
  <2>1. /\ ComesAt(t, "start") # {} => ToldAt(t, stop) = {} /\ ~IsStoring(t, stop)
        /\ \A i \in ComesAt(t, "start"), k \in ComesAt(t, stop) : i < k
        /\ \A i \in ToldAt(t, "start"), k \in ToldAt(t, stop) : i < k
    BY <1>2 DEF StartFirstInv
  <2>2. \A c \in {"start", stop} :
          /\ ComesAt(t, c) \subseteq Nat \ {0}
          /\ \A i : i \in ComesAt(t, c)' <=> i \in Nat \ {0} /\ i + 1 \in ComesAt(t, c)
          /\ 1 \in ComesAt(t, c) <=> t = s /\ c = event.kind
          /\ \A i, k \in ComesAt(t, c) : i = k
          /\ ComesAt(t, c)' # {} => ComesAt(t, c) # {}
    BY <1>2, <1>3, <1>6 DEF OnePlaceInv
  <2>3. CASE t = s /\ event.kind = stop
    <3>1. ComesAt(t, "start") = {} /\ ComesAt(t, "start")' = {} /\ stop # "start"
      <4>1. 1 \in ComesAt(t, stop)
        BY <2>2, <2>3
      <4>2. \A i \in ComesAt(t, "start") : i < 1 /\ i \in Nat \ {0}
        BY <2>1, <2>2, <4>1
      <4> QED
        BY <1>6, <2>2, <4>2
    <3>2. ToldAt(t, "start")' = ToldAt(t, "start")
      BY <1>5, <1>6, <2>3, <3>1
    <3>3. ToldAt(t, stop)' = ToldAt(t, stop) \/ ToldAt(t, stop)' = ToldAt(t, stop) \cup {last}
      BY <1>5, <1>6, <2>3
    <3>4. \A i \in ToldAt(t, "start") : i < last
      BY <1>5, <1>6, <2>3
    <3> QED
      BY <2>1, <3>1, <3>2, <3>3, <3>4
  <2>4. CASE t = s /\ event.kind = "start"
    <3>1. ComesAt(t, "start")' = {} /\ ToldAt(t, stop) = {}
      BY <2>1, <2>2, <2>4
    <3>2. ToldAt(t, stop)' = ToldAt(t, stop)
      BY <1>5, <1>6, <2>4
    <3> QED
      BY <3>1, <3>2
  <2>5. CASE ~(t = s /\ event.kind \in {"start", stop})
    <3>1. \A c \in {"start", stop} : ToldAt(t, c)' = ToldAt(t, c) /\ (IsStoring(t, c)' <=> IsStoring(t, c))
      BY <1>5, <1>6, <2>5
    <3>2. \A i \in ComesAt(t, "start")', k \in ComesAt(t, stop)' : i < k
      BY <2>1, <2>2
    <3> QED
      BY <2>1, <2>2, <3>1, <3>2
  <2> QED
    BY <2>3, <2>4, <2>5
<1>10. \A t \in attended' : source'.open /\ source'.room = source.room /\ t \in BridgeStreams
  BY <1>1, <1>2, <1>3 DEF AttendedInv, BridgeDataTypes
<1> QED
  BY <1>1, <1>3, <1>7, <1>8, <1>9, <1>10, QuietInv

\* The storage's answer moves an end behind all that the page's engine was told, or loses it.
LEMMA StoredInv ==
    ASSUME BridgeInv, UNCHANGED roomOf, NEW s \in BridgeStreams, EndIsStored(s) \/ EndIsNotStored(s)
    PROVE  BridgeInv'
<1> DEFINE last == Len(repeated[s]) + 1
<1>1. BridgeDataTypes /\ OnePlaceInv /\ StartFirstInv /\ AttendedInv /\ PipeOfRoom
  BY DEF BridgeInv
<1>2. /\ s \in storing /\ storing' = storing \ {s} /\ UNCHANGED <<emitted, source>>
      /\ \/ repeated' = [repeated EXCEPT ![s] = Append(@, "end")] /\ UNCHANGED attended
         \/ UNCHANGED repeated /\ attended' = attended \ {s}
  BY DEF EndIsStored, EndIsNotStored
<1>3. \A t, c : /\ ComesAt(t, c)' = ComesAt(t, c)
                /\ ~(t = s /\ c = "end") => (IsStoring(t, c)' <=> IsStoring(t, c))
  BY <1>2 DEF ComesAt, IsStoring
<1>4. IsStoring(s, "end") /\ ~IsStoring(s, "end")'
  BY <1>2 DEF IsStoring
<1>5. /\ repeated' \in [BridgeStreams -> Seq(Kinds)]
      /\ \A t \in BridgeStreams, c \in Kinds :
           \/ ToldAt(t, c)' = ToldAt(t, c) /\ ~(t = s /\ c = "end" /\ s \in attended')
           \/ t = s /\ c = "end" /\ ToldAt(t, c)' = ToldAt(t, c) \cup {last}
      /\ \A c \in Kinds : \A i \in ToldAt(s, c) : i < last
  <2>1. CASE repeated' = [repeated EXCEPT ![s] = Append(@, "end")]
    <3>1. /\ repeated' \in [BridgeStreams -> Seq(Kinds)]
          /\ Len(repeated[s]) \in Nat
          /\ \A c \in Kinds : ToldAt(s, c) \subseteq 1 .. Len(repeated[s])
          /\ \A t \in BridgeStreams, c \in Kinds :
               \/ ~(t = s /\ c = "end") /\ ToldAt(t, c)' = ToldAt(t, c)
               \/ t = s /\ c = "end" /\ ToldAt(t, c)' = ToldAt(t, c) \cup {Len(repeated[s]) + 1}
      <4>1. "end" \in Kinds
        BY DEF Kinds
      <4> QED
        BY <1>1, <2>1, <4>1, TellMoves
    <3>2. \A c \in Kinds : \A i \in ToldAt(s, c) : i < last
      BY <3>1
    <3> QED
      BY <3>1, <3>2
  <2>2. CASE UNCHANGED repeated /\ attended' = attended \ {s}
    <3>1. \A c \in Kinds : \A i \in ToldAt(s, c) : i < last
      BY <1>1 DEF BridgeDataTypes, ToldAt
    <3> QED
      BY <1>1, <2>2, <3>1 DEF BridgeDataTypes, ToldAt
  <2> QED
    BY <1>2, <2>1, <2>2
<1> HIDE DEF last
<1>6. Marks \subseteq Kinds /\ Stops \subseteq Marks /\ "start" \in Marks /\ "start" \notin Stops /\ "start" # "end"
      /\ "end" \in Marks
  BY DEF Marks, Stops, Kinds
<1>7. BridgeDataTypes' /\ attended' \subseteq attended
  BY <1>1, <1>2, <1>5 DEF BridgeDataTypes
<1>8. PipeOfRoom'
  BY <1>1, <1>2 DEF PipeOfRoom
<1>9. ASSUME NEW t \in BridgeStreams, NEW c \in Marks
      PROVE  /\ Somewhere(t, c)' => Somewhere(t, c)
             /\ t \in attended' /\ Somewhere(t, c) => Somewhere(t, c)'
             /\ (/\ \A i, k \in ToldAt(t, c) : i = k
                 /\ \A i, k \in ComesAt(t, c) : i = k
                 /\ ToldAt(t, c) # {} => ~IsStoring(t, c) /\ ComesAt(t, c) = {}
                 /\ IsStoring(t, c) => ComesAt(t, c) = {})'
  <2>1. /\ \A i, k \in ToldAt(t, c) : i = k
        /\ \A i, k \in ComesAt(t, c) : i = k
        /\ ToldAt(t, c) # {} => ~IsStoring(t, c) /\ ComesAt(t, c) = {}
        /\ IsStoring(t, c) => ComesAt(t, c) = {}
    BY <1>1 DEF OnePlaceInv
  <2>2. CASE t = s /\ c = "end"
    <3>1. ToldAt(t, c) = {} /\ ComesAt(t, c) = {} /\ IsStoring(t, c)
      BY <1>4, <2>1, <2>2
    <3>2. \/ ToldAt(t, c)' = {} /\ t \notin attended'
          \/ ToldAt(t, c)' = {last}
      BY <1>5, <1>6, <2>2, <3>1
    <3> QED
      BY <1>3, <1>4, <2>2, <3>1, <3>2 DEF Somewhere
  <2>3. CASE ~(t = s /\ c = "end")
    <3>1. ToldAt(t, c)' = ToldAt(t, c)
      BY <1>5, <1>6, <2>3
    <3> QED
      BY <1>3, <2>1, <2>3, <3>1 DEF Somewhere
  <2> QED
    BY <2>2, <2>3
<1>10. StartFirstInv'
  <2> SUFFICES ASSUME NEW t \in BridgeStreams, NEW stop \in Stops
               PROVE  (/\ ComesAt(t, "start") # {} => ToldAt(t, stop) = {} /\ ~IsStoring(t, stop)
                       /\ \A i \in ComesAt(t, "start"), k \in ComesAt(t, stop) : i < k
                       /\ \A i \in ToldAt(t, "start"), k \in ToldAt(t, stop) : i < k)'
    BY DEF StartFirstInv
  <2>1. /\ ComesAt(t, "start") # {} => ToldAt(t, stop) = {} /\ ~IsStoring(t, stop)
        /\ \A i \in ComesAt(t, "start"), k \in ComesAt(t, stop) : i < k
        /\ \A i \in ToldAt(t, "start"), k \in ToldAt(t, stop) : i < k
    BY <1>1 DEF StartFirstInv
  <2>2. ToldAt(t, "start")' = ToldAt(t, "start")
    BY <1>5, <1>6
  <2>3. CASE t = s /\ stop = "end"
    <3>1. ComesAt(t, "start") = {}
      BY <1>4, <2>1, <2>3
    <3>2. ToldAt(t, stop)' = ToldAt(t, stop) \/ ToldAt(t, stop)' = ToldAt(t, stop) \cup {last}
      BY <1>5, <1>6, <2>3
    <3>3. \A i \in ToldAt(t, "start") : i < last
      BY <1>5, <1>6, <2>3
    <3> QED
      BY <1>3, <2>1, <2>2, <3>1, <3>2, <3>3
  <2>4. CASE ~(t = s /\ stop = "end")
    <3>1. ToldAt(t, stop)' = ToldAt(t, stop)
      BY <1>5, <1>6, <2>4
    <3> QED
      BY <1>3, <2>1, <2>2, <2>4, <3>1
  <2> QED
    BY <2>3, <2>4
<1>11. \A t \in attended' : source'.open /\ source'.room = source.room /\ t \in BridgeStreams
  BY <1>1, <1>2, <1>7 DEF AttendedInv, BridgeDataTypes
<1> QED
  BY <1>2, <1>7, <1>8, <1>9, <1>10, <1>11, QuietInv

\* A source that is closed has nothing on its way and attends to nothing.
LEMMA ClosedInv ==
    ASSUME BridgeInv, UNCHANGED roomOf, NEW room \in BridgeRooms, source' = ClosedSource(room),
           attended' = {}, UNCHANGED <<emitted, repeated, storing>>
    PROVE  BridgeInv'
<1>1. source'.pipe = <<>> /\ source' \in [room : BridgeRooms, open : BOOLEAN, pipe : Seq([kind : Kinds, of : BridgeStreams])]
  <2>1. <<>> \in Seq([kind : Kinds, of : BridgeStreams])
    OBVIOUS
  <2> QED
    BY <2>1 DEF ClosedSource
<1>2. \A s, kind : /\ ComesAt(s, kind)' = {} /\ ToldAt(s, kind)' = ToldAt(s, kind)
                   /\ (IsStoring(s, kind)' <=> IsStoring(s, kind))
  BY <1>1 DEF ComesAt, ToldAt, IsStoring
<1>3. BridgeDataTypes' /\ PipeOfRoom'
  BY <1>1 DEF BridgeInv, BridgeDataTypes, PipeOfRoom
<1>4. StartFirstInv'
  BY <1>2 DEF BridgeInv, StartFirstInv
<1>5. \A s, kind : Somewhere(s, kind)' => Somewhere(s, kind)
  BY <1>2 DEF Somewhere
<1>6. ASSUME OnePlaceInv, NEW s \in BridgeStreams, NEW kind \in Marks
      PROVE  (/\ \A i, k \in ToldAt(s, kind) : i = k
              /\ \A i, k \in ComesAt(s, kind) : i = k
              /\ ToldAt(s, kind) # {} => ~IsStoring(s, kind) /\ ComesAt(s, kind) = {}
              /\ IsStoring(s, kind) => ComesAt(s, kind) = {})'
  BY <1>2, <1>6 DEF OnePlaceInv
<1> QED
  BY <1>3, <1>4, <1>5, <1>6, QuietInv

\* Opening the source moves nothing.
LEMMA OpenedInv ==
    ASSUME BridgeInv, UNCHANGED roomOf, SourceOpens
    PROVE  BridgeInv'
<1>1. /\ source'.pipe = source.pipe /\ source'.room = source.room /\ source'.open
      /\ source' \in [room : BridgeRooms, open : BOOLEAN, pipe : Seq([kind : Kinds, of : BridgeStreams])]
      /\ UNCHANGED <<emitted, repeated, storing, attended>>
  BY DEF SourceOpens, BridgeInv, BridgeDataTypes
<1>2. \A s, kind : /\ ComesAt(s, kind)' = ComesAt(s, kind) /\ ToldAt(s, kind)' = ToldAt(s, kind)
                   /\ (IsStoring(s, kind)' <=> IsStoring(s, kind))
                   /\ (Somewhere(s, kind)' <=> Somewhere(s, kind))
  BY <1>1 DEF ComesAt, ToldAt, IsStoring, Somewhere
<1>3. BridgeDataTypes' /\ PipeOfRoom'
  BY <1>1 DEF BridgeInv, BridgeDataTypes, PipeOfRoom
<1>4. StartFirstInv'
  BY <1>2 DEF BridgeInv, StartFirstInv
<1>6. ASSUME OnePlaceInv, NEW s \in BridgeStreams, NEW kind \in Marks
      PROVE  (/\ \A i, k \in ToldAt(s, kind) : i = k
              /\ \A i, k \in ComesAt(s, kind) : i = k
              /\ ToldAt(s, kind) # {} => ~IsStoring(s, kind) /\ ComesAt(s, kind) = {}
              /\ IsStoring(s, kind) => ComesAt(s, kind) = {})'
  BY <1>2, <1>6 DEF OnePlaceInv
<1> QED
  BY <1>1, <1>2, <1>3, <1>4, <1>6, QuietInv

\* The invariant holds initially.
LEMMA BridgeInitInv ==
    ASSUME BridgeInit
    PROVE  BridgeInv
<1>1. /\ roomOf \in [BridgeStreams -> BridgeRooms]
      /\ emitted = [s \in BridgeStreams |-> <<>>] /\ repeated = [s \in BridgeStreams |-> <<>>]
      /\ storing = {} /\ attended = {}
      /\ source \in [room : BridgeRooms, open : BOOLEAN, pipe : Seq([kind : Kinds, of : BridgeStreams])]
      /\ source.pipe = <<>>
  <2>1. <<>> \in Seq([kind : Kinds, of : BridgeStreams])
    OBVIOUS
  <2> QED
    BY <2>1 DEF BridgeInit, ClosedSource
<1>2. \A s \in BridgeStreams : \A kind : ToldAt(s, kind) = {} /\ ComesAt(s, kind) = {} /\ ~IsStoring(s, kind) /\ ~Emitted(s, kind)
  BY <1>1 DEF ToldAt, ComesAt, IsStoring, Emitted
<1>3. BridgeDataTypes
  BY <1>1 DEF BridgeDataTypes
<1>4. EmittedInv
  BY <1>1, <1>2 DEF EmittedInv
<1> QED
  BY <1>1, <1>2, <1>3, <1>4 DEF BridgeInv, OnePlaceInv, StartFirstInv, AttendedInv, PipeOfRoom, Somewhere

\* Every step keeps the invariant.
LEMMA BridgeStepInv ==
    ASSUME BridgeInv, [BridgeNext]_bridgeVars
    PROVE  BridgeInv'
<1>1. ASSUME NEW s \in BridgeStreams, UNCHANGED roomOf,
             \/ ReplyStarts(s) \/ ReplyGoesOn(s) \/ ReplyStops(s)
      PROVE  BridgeInv'
  BY <1>1, EmitInv
<1>2. ASSUME NEW s \in BridgeStreams, UNCHANGED roomOf, EndIsStored(s) \/ EndIsNotStored(s)
      PROVE  BridgeInv'
  BY <1>2, StoredInv
<1>3. CASE SourceBreaks /\ UNCHANGED roomOf
  <2>1. source.room \in BridgeRooms
    BY DEF BridgeInv, BridgeDataTypes
  <2> QED
    BY <1>3, <2>1, ClosedInv DEF SourceBreaks
<1>4. ASSUME NEW room \in BridgeRooms, UNCHANGED roomOf, ShowsOther(room) PROVE BridgeInv'
  BY <1>4, ClosedInv DEF ShowsOther
<1>5. CASE UNCHANGED bridgeVars
  <2>1. UNCHANGED <<roomOf, emitted, source, repeated, storing, attended>>
    BY <1>5 DEF bridgeVars
  <2>2. \A s, kind : /\ ToldAt(s, kind)' = ToldAt(s, kind) /\ ComesAt(s, kind)' = ComesAt(s, kind)
                     /\ (IsStoring(s, kind)' <=> IsStoring(s, kind)) /\ (Emitted(s, kind)' <=> Emitted(s, kind))
                     /\ (Somewhere(s, kind)' <=> Somewhere(s, kind))
    BY <2>1 DEF ToldAt, ComesAt, IsStoring, Emitted, Somewhere
  <2>3. BridgeDataTypes' /\ PipeOfRoom'
    BY <2>1 DEF BridgeInv, BridgeDataTypes, PipeOfRoom
  <2>4. EmittedInv'
    BY <2>1, <2>2 DEF BridgeInv, EmittedInv
  <2>5. OnePlaceInv'
    BY <2>2 DEF BridgeInv, OnePlaceInv
  <2>6. StartFirstInv'
    BY <2>2 DEF BridgeInv, StartFirstInv
  <2>7. AttendedInv'
    BY <2>1, <2>2 DEF BridgeInv, AttendedInv
  <2> QED
    BY <2>3, <2>4, <2>5, <2>6, <2>7 DEF BridgeInv
<1> QED
  BY <1>1, <1>2, <1>3, <1>4, <1>5, OpenedInv, DeliverInv DEF BridgeNext

\* For any streams, conversations and chunks, whatever breaks or overlaps: a source that stays
\* open tells the page's engine the start and the end of every stream it attends to, and no
\* source tells anything twice, out of order, or of another conversation.
THEOREM StreamsAreRepeated == BridgeSpec => []BridgeRepeats
  BY BridgeInitInv, BridgeStepInv, BridgeInvImplies, PTL DEF BridgeSpec

===============================================================================
