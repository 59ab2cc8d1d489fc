------------------------------ MODULE WireFormat ------------------------------
(***************************************************************************)
(* What becomes of a message's fields between the caller of a ChatEngine,  *)
(* the transport, the server and the storage.  Five hand-written switches  *)
(* over the message types have to agree: the two that build messages, the  *)
(* one that edits them, the engine's check and the serializer's check.     *)
(* A value is one of a few kinds; of the many fields of a new message at   *)
(* most one is not of the usual kind, since every field is checked alone.  *)
(***************************************************************************)
EXTENDS Naturals, FiniteSets

CONSTANTS NoMessage, MaxEdits  \* MaxEdits bounds the exploration

VARIABLES
    setup,   \* which storage and which transport this page has
    stage,   \* how far the message has come
    given,   \* history: the message as the callers meant it
    held,    \* what the storage holds of it
    announced, \* what the last event announced
    server,  \* the text the server took, if any
    edits

wireVars == <<setup, stage, given, held, announced, server, edits>>

-------------------------------------------------------------------------------
(* The data. *)

\* "literal" is a member of a union of literals, "blank" is white space and "padded" a text
\* with white space around it, "high" lies between 90 and 180 and "huge" above; a "stray"
\* record holds a number that is not finite, and a "holed" one null in its place.
Strings == {"literal", "text", "padded", "blank", "empty"}
Finite == {"zero", "number", "negative", "high", "huge"}
Numbers == Finite \cup {"infinite", "nan"}
Stray == {"infinite", "nan", "stray"}

\* The fields of each message type, and how each is typed.
Fields ==
    [text |-> [content |-> "string", metadata |-> "optRecord"],
     image |-> [url |-> "string", alt |-> "optString", dimensions |-> "optNumbers",
                metadata |-> "optRecord"],
     audio |-> [url |-> "string", mimeType |-> "optString", title |-> "optString",
                durationSeconds |-> "optSize", size |-> "optSize", metadata |-> "optRecord"],
     video |-> [url |-> "string", mimeType |-> "optString", title |-> "optString",
                posterUrl |-> "optString", dimensions |-> "optNumbers",
                durationSeconds |-> "optSize", size |-> "optSize", metadata |-> "optRecord"],
     file |-> [url |-> "string", name |-> "string", mimeType |-> "string", size |-> "number",
               metadata |-> "optRecord"],
     location |-> [latitude |-> "latitude", longitude |-> "longitude", label |-> "optString",
                   address |-> "optString", url |-> "optString", metadata |-> "optRecord"],
     system |-> [eventKind |-> "literal", content |-> "string", metadata |-> "optRecord"],
     ai |-> [content |-> "string", aiMetadata |-> "optNumbers", metadata |-> "optRecord"],
     custom |-> [customType |-> "string", payload |-> "any", metadata |-> "optRecord"]]
Types == DOMAIN Fields
Optional == {"optString", "optSize", "optNumbers", "optRecord", "any"}

Values == Strings \cup Numbers \cup {"record", "stray", "holed", "null", "undefined"}
Messages(type) == [type : {type}, status : {"pending", "sent"}, fields : [DOMAIN Fields[type] -> Values]]

ASSUME WireAssumption == \A type \in Types : NoMessage \notin Messages(type)

\* What the compiler lets a caller put there.
Typed(check) ==
    CASE check = "string" -> Strings
      [] check = "optString" -> Strings \cup {"undefined"}
      [] check \in {"number", "latitude", "longitude"} -> Numbers
      [] check = "optSize" -> Numbers \cup {"undefined"}
      [] check = "literal" -> {"literal"}
      [] check \in {"optNumbers", "optRecord"} -> {"record", "stray", "undefined"}
      [] check = "any" -> {"text", "record", "nan", "stray", "undefined"}

Usual(check) ==
    CASE check \in {"string", "optString", "any"} -> "text"
      [] check \in {"number", "latitude", "longitude", "optSize"} -> "number"
      [] check = "literal" -> "literal"
      [] check \in {"optNumbers", "optRecord"} -> "record"

Contents(type) ==
    LET usual == [f \in DOMAIN Fields[type] |-> Usual(Fields[type][f])]
    IN  UNION {{[usual EXCEPT ![f] = v] : v \in Typed(Fields[type][f])} : f \in DOMAIN usual}

Message(type, content) == [type |-> type, status |-> "pending", fields |-> content]

\* JSON.stringify() writes a number that is not finite as null.
Json(v) == IF v \in {"infinite", "nan"} THEN "null" ELSE IF v = "stray" THEN "holed" ELSE v
OnWire(m) == [m EXCEPT !.fields = [f \in DOMAIN @ |-> Json(@[f])]]

-------------------------------------------------------------------------------
(* The switches. *)

Falsy == {"empty", "zero", "nan", "undefined"}
Without(content, names) ==
    [f \in DOMAIN content |-> IF f \in names /\ content[f] \in Falsy THEN "undefined" ELSE content[f]]

\* createOutgoingMessage(): an image's alt text is left out when it is falsy.
Created(type, content) ==
    Message(type, Without(content, IF type = "image" THEN {"alt"} ELSE {}))

\* buildMessage(): every optional field is.
Built(type, content) ==
    [Message(type, Without(content, {f \in DOMAIN content : Fields[type][f] \in Optional \ {"any"}}))
        EXCEPT !.status = "sent"]

\* What the checks of sizes and durations, latitudes and longitudes let through.
Sizes == (Finite \ {"negative"}) \cup {"undefined"}
Latitudes == Finite \ {"high", "huge"}
Longitudes == Finite \ {"huge"}

\* validateBuiltInMessagePayload(): of the numbers, those of three types are looked at.
Valid(m) ==
    /\ m.type \in {"audio", "video"} =>
        m.fields.durationSeconds \in Sizes /\ m.fields.size \in Sizes
    /\ m.type = "location" =>
        m.fields.latitude \in Latitudes /\ m.fields.longitude \in Longitudes

\* Mutant: a value the patch sets to undefined is not cleared.
Updated_KeepsUndefined(m, patch) ==
    [m EXCEPT !.fields = [f \in DOMAIN @ |->
        IF f \in DOMAIN patch /\ patch[f] \notin Falsy THEN patch[f] ELSE @[f]]]

\* applyMessageContentUpdate(): a required field takes only a value of its type, an
\* optional one any value the patch has, undefined too; fields of other types are ignored.
Updated(m, patch) ==
    [m EXCEPT !.fields = [f \in DOMAIN @ |->
        IF f \in DOMAIN patch /\ (Fields[m.type][f] \in Optional \/ patch[f] # "undefined")
        THEN patch[f] ELSE @[f]]]

\* The serializer's parsers of plain values and of records, on what JSON.parse() returns.
ParsesValue(check, v) ==
    CASE check = "string" -> v \in Strings
      [] check = "optString" -> v \in Strings \cup {"undefined"}
      [] check = "number" -> v \in Finite
      [] check = "optSize" -> v \in Sizes
      [] check = "latitude" -> v \in Latitudes
      [] check = "longitude" -> v \in Longitudes
      [] check = "literal" -> v = "literal"
      [] check = "any" -> TRUE

ParsesRecord(check, v) ==
    v \in {"record", "undefined"} \cup (IF check = "optRecord" THEN {"holed"} ELSE {})

Parses(check, v) ==
    IF check \in {"optNumbers", "optRecord"} THEN ParsesRecord(check, v) ELSE ParsesValue(check, v)

\* Mutant: a poster's URL must be there.
Parsed_NeedsPoster(m) ==
    \A f \in DOMAIN m.fields : Parses(IF f = "posterUrl" THEN "string" ELSE Fields[m.type][f], m.fields[f])

\* parseMessageValue() accepts a message, and returns it as it is.
Parsed(m) == \A f \in DOMAIN m.fields : Parses(Fields[m.type][f], m.fields[f])

\* IndexedDB keeps JSON and parses it when it is read; MemoryStorage, and an engine that
\* has no storage, keep the object.
Saved(m) == IF setup.storage = "indexeddb" THEN OnWire(m) ELSE m
Reads(m) == setup.storage = "indexeddb" => Parsed(m)

-------------------------------------------------------------------------------
(* An own message. *)

WireInit ==
    /\ setup \in [storage : {"indexeddb", "memory", "none"}, transport : {"polling", "websocket", "dit"}]
    /\ stage = "free" /\ server = "none" /\ edits = 0
    /\ given = NoMessage /\ held = NoMessage /\ announced = NoMessage

\* sendMessage() up to its saveMessage().
Compose ==
    /\ stage = "free"
    /\ \E type \in Types : \E content \in Contents(type) :
        /\ Valid(Created(type, content))
        /\ given' = Message(type, content)
        /\ held' = Saved(Created(type, content))
    /\ stage' = "saved"
    /\ UNCHANGED <<setup, announced, server, edits>>

\* The text of a message; the other types have none.
Text(m) == IF m.type \in {"text", "ai", "system"} THEN m.fields.content ELSE "empty"

\* The messages route trims the text and refuses what is empty then.
Trimmed(text) == CASE text = "padded" -> "text" [] text = "blank" -> "empty" [] OTHER -> text
RouteTakes(text) == Trimmed(text) # "empty"

\* The POST's answer is awaited.
SendByPolling ==
    /\ setup.transport = "polling" /\ stage = "saved"
    /\ IF RouteTakes(Text(held))
       THEN stage' = "taken" /\ server' = Trimmed(Text(held))
       ELSE stage' = "refused" /\ UNCHANGED server
    /\ UNCHANGED <<setup, given, held, announced, edits>>

\* The bridge behind a socket takes frames with a text and posts them to the route.
BridgeTakes(m) == m.type \in {"text", "ai", "system"} /\ RouteTakes(m.fields.content)

\* A frame is out once the socket has it: that the bridge refuses it, and closes the
\* socket, comes later.
SendByWebSocket ==
    /\ setup.transport = "websocket" /\ stage = "saved"
    /\ stage' = "taken"
    /\ server' = IF BridgeTakes(held) THEN Trimmed(Text(held)) ELSE server
    /\ UNCHANGED <<setup, given, held, announced, edits>>

\* sendToDit() returns at once when there is no text.
SendByDit ==
    /\ setup.transport = "dit" /\ stage = "saved"
    /\ stage' = "taken"
    /\ server' = IF Text(held) # "empty" THEN Text(held) ELSE server
    /\ UNCHANGED <<setup, given, held, announced, edits>>

\* storage.updateMessage() reads, merges, and keeps what the serializer accepts and
\* returns; an engine without a storage keeps what it is given.
CanUpdate(m) == Reads(held) /\ (setup.storage # "none" => Parsed(OnWire(m)))
StorageUpdates(m) == /\ CanUpdate(m)
                     /\ held' = IF setup.storage = "none" THEN m ELSE OnWire(m)

\* sendMessage() from there on; its last write may reject a message that is out.
MarkSent ==
    /\ stage = "taken"
    /\ LET sent == [Created(given.type, given.fields) EXCEPT !.status = "sent"]
       IN  \/ /\ StorageUpdates([held EXCEPT !.status = "sent"])
              /\ announced' = sent /\ stage' = "sent"
           \/ /\ ~CanUpdate(held)
              /\ stage' = "late" /\ UNCHANGED <<held, announced>>
    /\ UNCHANGED <<setup, given, server, edits>>

\* engine.updateMessage() of a message no call is busy with, one field at a time.
EditField ==
    /\ stage \in {"sent", "late", "refused", "received", "edited"} /\ edits < MaxEdits
    /\ \E f \in DOMAIN given.fields :
       \E v \in Typed(Fields[given.type][f]) \cup {"undefined"} :
        LET patch == [x \in {f} |-> v]
        IN  /\ Valid(Updated(held, patch))
            /\ StorageUpdates(Updated(held, patch))
            /\ announced' = Updated(held, patch)
            /\ given' = IF v = "undefined" /\ Fields[given.type][f] \notin Optional THEN given
                        ELSE [given EXCEPT !.fields[f] = v]
    /\ stage' = "edited" /\ edits' = edits + 1
    /\ UNCHANGED <<setup, server>>

-------------------------------------------------------------------------------
(* A message of the server's. *)

\* The contents of the demos' messages: no metadata, no sizes but a file's, and
\* dimensions of images only.
DemoContent(type) ==
    [f \in DOMAIN Fields[type] |->
        IF f = "metadata" \/ (f = "size" /\ type # "file") \/ (f = "dimensions" /\ type = "video")
        THEN "undefined"
        ELSE IF f = "payload" THEN "record" ELSE Usual(Fields[type][f])]
DemoMessages == {Built(type, DemoContent(type)) : type \in Types \ {"ai"}}

\* The message a stream ends with.
StreamedMessage == [Message("ai", DemoContent("ai")) EXCEPT !.status = "sent"]

\* A message as DIT sends it, which parseDitFetchMessage() takes or not.
DitRecords == [text : Strings \cup {"null"}, metadata : {"record", "undefined", "null"},
               speaker : {"chatbot", "system", "user", "undefined", "text"}]
DitParses(raw) == /\ raw.text # "null" /\ raw.metadata # "null"
                  /\ raw.speaker \in {"chatbot", "system", "user", "undefined"}

\* mapDitMessageToCoreMessage(): the chatbot's messages are of type ai, others text.
FromDit(raw) ==
    LET type == IF raw.speaker = "chatbot" THEN "ai" ELSE "text"
    IN  [Message(type, [f \in DOMAIN Fields[type] |->
                            CASE f = "content" -> raw.text
                              [] f = "metadata" -> raw.metadata
                              [] OTHER -> "undefined"]) EXCEPT !.status = "sent"]
DitMessages == {FromDit(raw) : raw \in {r \in DitRecords : DitParses(r)}}

\* A poll of the DitTransport: one message it cannot parse costs all of the answer.
DitBrings ==
    /\ setup.transport = "dit" /\ stage = "free"
    /\ \E raw, neighbour \in DitRecords :
        /\ DitParses(raw) /\ DitParses(neighbour)
        /\ given' = FromDit(raw) /\ held' = Saved(FromDit(raw)) /\ announced' = FromDit(raw)
    /\ stage' = "received"
    /\ UNCHANGED <<setup, server, edits>>

\* A message and the one before it, as the server sends them: one that does not parse
\* costs the whole answer.
Arrives(m, neighbour) ==
    IF Parsed(OnWire(m)) /\ Parsed(OnWire(neighbour))
    THEN stage' = "received" /\ given' = m /\ held' = Saved(OnWire(m))
    ELSE stage' = "stuck" /\ UNCHANGED <<given, held>>

\* parseDemoPollEventsResponse(); the engine keeps the message and announces it.
PollBrings ==
    /\ setup.transport = "polling" /\ stage = "free"
    /\ \E m, neighbour \in DemoMessages \cup DitMessages :
        /\ Arrives(m, neighbour)
        /\ announced' = IF stage' = "stuck" THEN announced ELSE OnWire(m)
    /\ UNCHANGED <<setup, server, edits>>

\* parseWebSocketFrame(), of a frame with a batch.
FrameBrings ==
    /\ setup.transport = "websocket" /\ stage = "free"
    /\ \E m, neighbour \in DemoMessages :
        /\ Arrives(m, neighbour)
        /\ announced' = IF stage' = "stuck" THEN announced ELSE OnWire(m)
    /\ UNCHANGED <<setup, server, edits>>

\* loadMessagesPage() saves the messages behind the engine's back.
PageBrings ==
    /\ stage = "free"
    /\ \E m, neighbour \in DemoMessages \cup DitMessages : Arrives(m, neighbour)
    /\ UNCHANGED <<setup, announced, server, edits>>

\* parseStreamEndEvent(), and emitStreamEnd().
StreamBrings ==
    /\ stage = "free" /\ Arrives(StreamedMessage, StreamedMessage)
    /\ announced' = IF stage' = "stuck" THEN announced ELSE OnWire(StreamedMessage)
    /\ UNCHANGED <<setup, server, edits>>

WireNext ==
    \/ Compose \/ SendByPolling \/ SendByWebSocket \/ SendByDit \/ MarkSent \/ EditField
    \/ DitBrings \/ PollBrings \/ FrameBrings \/ PageBrings \/ StreamBrings

WireSpec == WireInit /\ [][WireNext]_wireVars

-------------------------------------------------------------------------------
(* Properties. *)

\* Fields that the engine lets through and the serializer does not.
Unguarded == {"size", "dimensions", "aiMetadata"}
HasStray == \E f \in DOMAIN given.fields \cap Unguarded : given.fields[f] \in Stray

\* Whatever the engine took from its callers or the server can be read again, and no call
\* rejects a message that is already out, unless a caller gave a number that is not finite
\* in a field the engine does not look at.  One unreadable message costs the whole page.
StaysReadable ==
    /\ stage # "stuck"
    /\ held # NoMessage /\ (~Reads(held) \/ stage = "late") => HasStray

\* A settled message has every field as the callers or the server meant it, in the storage
\* and in the last event, but for numbers that are not finite and an empty alt text.
FieldsSurvive ==
    (stage \in {"sent", "edited", "received"} /\ Reads(held)) =>
        \A m \in {held, announced} \ {NoMessage} : \A f \in DOMAIN given.fields :
            \/ m.fields[f] = given.fields[f] \/ given.fields[f] \in Stray
            \/ f = "alt" /\ given.fields[f] = "empty" /\ m.fields[f] = "undefined"

\* What the server makes of a text: the messages route trims it, DIT takes it as it is.
ServerText(text) == IF setup.transport = "dit" THEN text ELSE Trimmed(text)

\* A message that says it was sent is on the server, but for white space around it.  Only
\* polling knows: over a socket and to DIT, messages without text say so too and are nowhere.
SentReachedServer ==
    (stage = "sent" /\ held.status = "sent") =>
        \/ server = ServerText(Text(given)) /\ server # "empty"
        \/ setup.transport # "polling" /\ ~RouteTakes(Text(given))

\* No hop of a message's way refuses, changes or loses what the hop before let through.
WireAgrees == StaysReadable /\ FieldsSurvive /\ SentReachedServer

===============================================================================
