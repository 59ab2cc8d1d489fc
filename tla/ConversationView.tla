---------------------------- MODULE ConversationView ----------------------------
(***************************************************************************)
(* What a ChatSurface shows of the conversation it is given: useMessages   *)
(* merges the answers of getMessages() with the engine's events,           *)
(* useOptimisticMessages adds what is being sent, useStreamingMessage the  *)
(* reply being streamed.  The engine writes its storage first and tells    *)
(* its subscribers later, so a load may read either side of an event.      *)
(***************************************************************************)
EXTENDS Integers, FiniteSets

CONSTANTS
    Conversations,
    Own, Remote,   \* messages the user may send, and messages of others
    Streams,       \* replies that may be streamed
    ConvOf,        \* the conversation of each message and stream
    Mounted,       \* the conversation shown first
    None,
    MaxEffects, MaxLoads  \* bounds on conversation switches and on loads in flight

Ids == Own \cup Remote

ASSUME ViewAssumption ==
    /\ Own \cap Remote = {} /\ ConvOf \in [Ids \cup Streams -> Conversations]
    /\ Mounted \in Conversations
    /\ None \notin Ids \cup Streams \cup {"received", "updated", "deleted", "sent"}
    /\ MaxEffects \in Nat /\ MaxLoads \in Nat

VARIABLES
    stored,   \* what the storage holds of each message: nothing, or its current version
    news,     \* the event the engine is about to emit for each message, or None
    effect,   \* how often the hooks' effects ran: isMounted of a load tells them apart
    conv,     \* conversationId
    shown,    \* useMessages' snapshot: a conversation and a version of each message
    loads,    \* getMessages() calls in flight
    loaded,   \* history: has this effect merged a load?
    sending,  \* where sendUserMessage() stands for each own message
    entries,  \* useOptimisticMessages' entries
    nonces,   \* activeOptimisticNoncesRef
    stream,   \* each streamed reply: "idle", "running" or "over"
    preview,  \* useStreamingMessage's snapshot
    listening,\* activeMessageIdRef
    excused   \* history: messages a change of which the hook missed, see Announce

messageVars == <<stored, news, shown, loads, loaded, excused>>
sendVars == <<sending, entries, nonces>>
streamVars == <<stream, preview, listening>>
vars == <<effect, conv, messageVars, sendVars, streamVars>>

\* Versions of a message: an own one is pending, then sent; one of others may be edited.
Versions == {"absent", "pending", "sent", "edited"}
Nothing == [m \in Ids |-> "absent"]

Init ==
    /\ stored = Nothing /\ news = [m \in Ids |-> None]
    /\ effect = 1 /\ conv = Mounted
    /\ shown = [conv |-> Mounted, messages |-> Nothing]
    /\ loads = {[effect |-> 1, answer |-> None]} /\ loaded = FALSE
    /\ sending = [m \in Own |-> "no"] /\ entries = {} /\ nonces = {}
    /\ stream = [s \in Streams |-> "idle"]
    /\ preview = [conv |-> Mounted, of |-> None, effect |-> 1] /\ listening = None
    /\ excused = {}

\* The messages the hook returns.
Visible == IF shown.conv = conv THEN shown.messages ELSE Nothing

-------------------------------------------------------------------------------
(* The engine: a change of the storage, then the event about it. *)

Store(m, version, event) ==
    /\ stored' = [stored EXCEPT ![m] = version]
    /\ news' = [news EXCEPT ![m] = event]

Receive(m) ==
    /\ m \in Remote /\ stored[m] = "absent" /\ news[m] = None /\ m \notin excused
    /\ Store(m, "sent", "received")
    /\ UNCHANGED <<effect, conv, shown, loads, loaded, excused, sendVars, streamVars>>

Edit(m) ==
    /\ m \in Remote /\ stored[m] = "sent" /\ news[m] = None
    /\ Store(m, "edited", "updated")
    /\ UNCHANGED <<effect, conv, shown, loads, loaded, excused, sendVars, streamVars>>

Delete(m) ==
    /\ m \in Remote /\ stored[m] # "absent" /\ news[m] = None
    /\ Store(m, "absent", "deleted")
    /\ UNCHANGED <<effect, conv, shown, loads, loaded, excused, sendVars, streamVars>>

\* The subscribers' updateMessages(): upsertMessage() or removeMessageById().
Heard(m) == [Visible EXCEPT ![m] = stored[m]]

\* The event.  The hook listens for its own conversation only.  Two changes it can miss:
\* one of a message of the conversation whose snapshot it still holds, after a switch;
\* and a deletion that falls between a load's answer and its merge.
Announce(m) ==
    /\ news[m] # None
    /\ news' = [news EXCEPT ![m] = None]
    /\ shown' = IF ConvOf[m] = conv THEN [conv |-> conv, messages |-> Heard(m)] ELSE shown
    /\ excused' =
           IF \/ ConvOf[m] # conv /\ shown.conv = ConvOf[m] /\ shown.messages[m] # "absent"
              \/ news[m] = "deleted" /\ \E l \in loads : l.answer # None /\ l.answer[m] # "absent"
           THEN excused \cup {m} ELSE excused
    /\ UNCHANGED <<effect, conv, stored, loads, loaded, sendVars, streamVars>>

-------------------------------------------------------------------------------
(* useMessages. *)

\* A load is asked for when the engine reports 'connected' again.
Reconnected ==
    /\ Cardinality(loads) < MaxLoads
    /\ loads' = loads \cup {[effect |-> effect, answer |-> None]}
    /\ UNCHANGED <<effect, conv, stored, news, shown, loaded, excused, sendVars, streamVars>>

\* The storage answers with the conversation of the effect that asked; of an effect that
\* was cleaned up the answer does not matter.
LoadIsRead(l) ==
    /\ l.answer = None
    /\ LET answer == [m \in Ids |-> IF l.effect = effect /\ ConvOf[m] = conv THEN stored[m]
                                    ELSE "absent"]
       IN  loads' = (loads \ {l}) \cup {[l EXCEPT !.answer = answer]}
    /\ UNCHANGED <<effect, conv, stored, news, shown, loaded, excused, sendVars, streamVars>>

\* Mutant: what was loaded wins over what events have brought.
Merge_LoadedWins(old, loadedNow) ==
    [m \in Ids |-> IF loadedNow[m] # "absent" THEN loadedNow[m] ELSE old[m]]

\* mergeWithExisting(): what events have brought wins.
Merge(old, loadedNow) == [m \in Ids |-> IF old[m] # "absent" THEN old[m] ELSE loadedNow[m]]

LoadIsMerged(l) ==
    /\ l.answer # None
    /\ loads' = loads \ {l}
    /\ \/ /\ l.effect = effect /\ loaded' = TRUE
          /\ shown' = [conv |-> conv, messages |-> Merge(Visible, l.answer)]
       \/ l.effect # effect /\ UNCHANGED <<shown, loaded>>
    /\ UNCHANGED <<effect, conv, stored, news, excused, sendVars, streamVars>>

\* The user opens another conversation: cleanups, then the effects again.  Snapshots of
\* the conversation left stay until something is written for the new one.
Switch(c) ==
    /\ c # conv /\ effect < MaxEffects /\ Cardinality(loads) < MaxLoads
    /\ conv' = c /\ effect' = effect + 1 /\ loaded' = FALSE
    /\ loads' = loads \cup {[effect |-> effect + 1, answer |-> None]}
    /\ listening' = None
    /\ UNCHANGED <<stored, news, shown, excused, sendVars, stream, preview>>

-------------------------------------------------------------------------------
(* ChatSurface.sendUserMessage() and useOptimisticMessages. *)

IsSending == \E m \in Own : sending[m] \in {"saving", "out"}

SendStarts(m) ==
    /\ ~IsSending /\ ConvOf[m] = conv /\ sending[m] = "no"
    /\ sending' = [sending EXCEPT ![m] = "saving"]
    /\ entries' = entries \cup {m} /\ nonces' = nonces \cup {m}
    /\ UNCHANGED <<effect, conv, messageVars, streamVars>>

\* engine.sendMessage() has saved the pending message and calls the transport.
SendIsSaved(m) ==
    /\ sending[m] = "saving"
    /\ sending' = [sending EXCEPT ![m] = "out"]
    /\ stored' = [stored EXCEPT ![m] = "pending"]
    /\ UNCHANGED <<effect, conv, news, shown, loads, loaded, excused, entries, nonces, streamVars>>

\* The transport has accepted it; message:sent is next, and sendMessage() resolves.
SendIsOut(m) ==
    /\ sending[m] = "out"
    /\ sending' = [sending EXCEPT ![m] = "done"]
    /\ Store(m, "sent", "sent")
    /\ UNCHANGED <<effect, conv, shown, loads, loaded, excused, entries, nonces, streamVars>>

\* Storage or transport fail; what was saved stays pending.
SendFails(m) ==
    /\ sending[m] \in {"saving", "out"}
    /\ sending' = [sending EXCEPT ![m] = "failed"]
    /\ entries' = entries \ {m} /\ nonces' = nonces \ {m}
    /\ UNCHANGED <<effect, conv, messageVars, streamVars>>

\* Mutant: every nonce is reconciled as soon as any message is shown.
Reconciled_AnyMessage == {m \in nonces : \E n \in Ids : Visible[n] # "absent"}

\* The nonces that a message of the list carries.
Reconciled == {m \in nonces : Visible[m] # "absent"}

\* The reconcile effect.
Reconcile ==
    /\ Reconciled # {}
    /\ nonces' = nonces \ Reconciled /\ entries' = entries \ Reconciled
    /\ UNCHANGED <<effect, conv, messageVars, sending, streamVars>>

\* mergedMessages: a confirmed message hides its optimistic entry.
Displayed == {m \in Ids : Visible[m] # "absent"} \cup entries

-------------------------------------------------------------------------------
(* useStreamingMessage. *)

Preview(s) == [conv |-> conv, of |-> s, effect |-> effect]

StreamStarts(s) ==
    /\ stream[s] = "idle"
    /\ stream' = [stream EXCEPT ![s] = "running"]
    /\ \/ ConvOf[s] = conv /\ listening' = s /\ preview' = Preview(s)
       \/ ConvOf[s] # conv /\ UNCHANGED <<listening, preview>>
    /\ UNCHANGED <<effect, conv, messageVars, sendVars>>

\* Mutant: the end of any stream of the conversation clears the reference only.
EndIsHeard_KeepsPreview(s) == listening' = None /\ UNCHANGED preview

EndIsHeard(s) == listening' = None /\ preview' = Preview(None)

\* stream:end or stream:error; only the stream started last is followed.
StreamIsOver(s) ==
    /\ stream[s] = "running"
    /\ stream' = [stream EXCEPT ![s] = "over"]
    /\ \/ ConvOf[s] = conv /\ listening = s /\ EndIsHeard(s)
       \/ (ConvOf[s] # conv \/ listening # s) /\ UNCHANGED <<listening, preview>>
    /\ UNCHANGED <<effect, conv, messageVars, sendVars>>

-------------------------------------------------------------------------------
EngineNext == \E m \in Ids : Receive(m) \/ Edit(m) \/ Delete(m) \/ Announce(m)
LoadNext == Reconnected \/ \E l \in loads : LoadIsRead(l) \/ LoadIsMerged(l)
SendNext ==
    \/ \E m \in Own : SendStarts(m) \/ SendIsSaved(m) \/ SendIsOut(m) \/ SendFails(m)
    \/ Reconcile
StreamNext == \E s \in Streams : StreamStarts(s) \/ StreamIsOver(s)
Next == EngineNext \/ LoadNext \/ SendNext \/ StreamNext \/ \E c \in Conversations : Switch(c)

Spec == Init /\ [][Next]_vars

-------------------------------------------------------------------------------
(* Properties. *)

\* Once the list has loaded it shows every message of the conversation in its current
\* version, as soon as the event about the last change is out; a message whose send
\* failed stays pending whether or not it is shown.
ListFollowsStore ==
    loaded => \A m \in Ids :
        ConvOf[m] = conv /\ news[m] = None /\ m \notin excused =>
            \/ Visible[m] = stored[m]
            \/ m \in Own /\ sending[m] \in {"out", "failed"}

\* A message the user is sending or has sent never leaves the list, whatever is loaded,
\* reconciled or switched meanwhile.
OwnMessageStays ==
    loaded => \A m \in Own :
        ConvOf[m] = conv /\ sending[m] \in {"saving", "out", "done"} => m \in Displayed

\* The previews a mounted hook shows are of streams that still run.
PreviewRuns ==
    preview.of # None /\ preview.conv = conv /\ preview.effect = effect =>
        stream[preview.of] = "running"
===============================================================================
