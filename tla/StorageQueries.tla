---------------------------- MODULE StorageQueries ----------------------------
(***************************************************************************)
(* The three stores a ChatEngine may read from, written to alike: an       *)
(* IndexedDB database with its records and indexes, a MemoryStorage, and   *)
(* the engine's own maps when it is given no storage.  Which one answers   *)
(* depends on the browser (IndexedDBStorage falls back to memory), so they *)
(* have to give the same answers.  Ids are numbered in the order of an     *)
(* index's keys, which is not that of localeCompare(); it is taken to tell *)
(* any two of the engine's ids apart.                                      *)
(***************************************************************************)
EXTENDS Integers, Sequences, FiniteSets, SequencesExt

CONSTANTS
    MessageIds, ConversationIds, \* sets of numbers
    LocaleRank,                  \* the place of an id in the order of localeCompare()
    LastTime                     \* timestamps are 0 .. LastTime

ASSUME QueryAssumption ==
    /\ MessageIds \subseteq Nat \ {0} /\ ConversationIds \subseteq Nat \ {0} /\ LastTime \in Nat
    /\ LocaleRank \in [MessageIds \cup ConversationIds -> Nat] /\ IsInjective(LocaleRank)

VARIABLES
    messageStore, conversationStore,   \* IndexedDB: records with their key fields, by id
    messageMap, conversationMap,       \* MemoryStorage: Map objects
    ownMessages, ownConversations,     \* the engine's: the ids in order of insertion, with their values
    answersOf,                         \* the kind this behaviour writes, by its first write
    direct                             \* history: was a storage changed behind the engine's back?

queryVars == <<messageStore, conversationStore, messageMap, conversationMap, ownMessages,
               ownConversations, answersOf, direct>>

Times == 0 .. LastTime
Members == {{"user"}, {"user", "assistant"}}
NoBound == -1

\* What queries tell apart of a message and of a conversation.
StoredMessages == [conversationId : ConversationIds, timestamp : Times]
StoredConversations == [type : {"direct", "group"}, participants : Members, updatedAt : Times]

\* A sort: the n-th has n - 1 before it.  Keys are pairs, compared element by element.
KeyLess(k, l) == k[1] < l[1] \/ (k[1] = l[1] /\ k[2] < l[2])
Sorted(S, key) ==
    [n \in 1 .. Cardinality(S) |->
        CHOOSE i \in S : Cardinality({j \in S : KeyLess(key[j], key[i])}) = n - 1]

\* filter(): what is at some places of a sequence, in its order.
Filtered(seq, places) ==
    LET at == Sorted(places, [n \in places |-> <<0, n>>]) IN [k \in DOMAIN at |-> seq[at[k]]]

EmptyMap == [i \in {} |-> {}]
Put(map, i, v) == [j \in DOMAIN map \cup {i} |-> IF j = i THEN v ELSE map[j]]
MapWithout(map, i) == [j \in DOMAIN map \ {i} |-> map[j]]

\* A Map: set() of a new key appends it, set() of one it has leaves it in place.
MapSet(entries, i, v) ==
    IF \E n \in DOMAIN entries : entries[n].id = i
    THEN [n \in DOMAIN entries |-> IF entries[n].id = i THEN [id |-> i, value |-> v] ELSE entries[n]]
    ELSE Append(entries, [id |-> i, value |-> v])
MapDelete(entries, i) == Filtered(entries, {n \in DOMAIN entries : entries[n].id # i})

\* toMessageRecord() and toConversationRecord(): the fields the indexes are on are copied
\* beside the serialized value.
MessageRecord(m) == [conversationId |-> m.conversationId, timestamp |-> m.timestamp, payload |-> m]
ConversationRecord(c) ==
    [updatedAt |-> c.updatedAt, type |-> c.type, participantIds |-> c.participants, payload |-> c]

QueryInit ==
    /\ messageStore = EmptyMap /\ conversationStore = EmptyMap
    /\ messageMap = EmptyMap /\ conversationMap = EmptyMap
    /\ ownMessages = <<>> /\ ownConversations = <<>>
    /\ answersOf = "nothing" /\ direct = FALSE

-------------------------------------------------------------------------------
(* Writes, each to the three. *)

KeepMessage ==
    /\ answersOf \in {"nothing", "messages"} /\ answersOf' = "messages"
    /\ \E i \in MessageIds, m \in StoredMessages :
        /\ messageStore' = Put(messageStore, i, MessageRecord(m))
        /\ messageMap' = Put(messageMap, i, m)
        /\ ownMessages' = MapSet(ownMessages, i, m)
    /\ UNCHANGED <<conversationStore, conversationMap, ownConversations, direct>>

DropMessage ==
    /\ answersOf = "messages"
    /\ \E i \in DOMAIN messageMap :
        /\ messageStore' = MapWithout(messageStore, i)
        /\ messageMap' = MapWithout(messageMap, i)
        /\ ownMessages' = MapDelete(ownMessages, i)
    /\ UNCHANGED <<conversationStore, conversationMap, ownConversations, answersOf, direct>>

\* Mutant: the record keeps its key fields.
ChangeMessage_OldKey ==
    /\ answersOf = "messages"
    /\ \E i \in DOMAIN messageMap, t \in Times :
        LET m == [messageMap[i] EXCEPT !.timestamp = t]
        IN  /\ messageStore' = Put(messageStore, i, [messageStore[i] EXCEPT !.payload = m])
            /\ messageMap' = Put(messageMap, i, m)
    /\ direct' = TRUE
    /\ UNCHANGED <<conversationStore, conversationMap, ownMessages, ownConversations, answersOf>>

\* storage.updateMessage() of a field the index is on; the engine itself changes none.
ChangeMessage ==
    /\ answersOf = "messages"
    /\ \E i \in DOMAIN messageMap, t \in Times :
        LET m == [messageStore[i].payload EXCEPT !.timestamp = t]
        IN  /\ messageStore' = Put(messageStore, i, MessageRecord(m))
            /\ messageMap' = Put(messageMap, i, m)
    /\ direct' = TRUE
    /\ UNCHANGED <<conversationStore, conversationMap, ownMessages, ownConversations, answersOf>>

\* createConversation(), of an id nothing has yet.
CreateWithStorage ==
    /\ answersOf \in {"nothing", "conversations"} /\ answersOf' = "conversations"
    /\ \E i \in ConversationIds \ DOMAIN conversationMap, c \in StoredConversations :
        /\ conversationStore' = Put(conversationStore, i, ConversationRecord(c))
        /\ conversationMap' = Put(conversationMap, i, c)
        /\ ownConversations' = MapSet(ownConversations, i, c)
    /\ UNCHANGED <<messageStore, messageMap, ownMessages, direct>>

\* storage.saveConversation() over one that is there, or storage.updateConversation().
ChangeConversation ==
    /\ answersOf = "conversations"
    /\ \E i \in DOMAIN conversationMap, c \in StoredConversations :
        /\ conversationStore' = Put(conversationStore, i, ConversationRecord(c))
        /\ conversationMap' = Put(conversationMap, i, c)
    /\ direct' = TRUE
    /\ UNCHANGED <<messageStore, messageMap, ownMessages, ownConversations, answersOf>>

DropConversation ==
    /\ answersOf = "conversations"
    /\ \E i \in DOMAIN conversationMap :
        /\ conversationStore' = MapWithout(conversationStore, i)
        /\ conversationMap' = MapWithout(conversationMap, i)
    /\ direct' = TRUE
    /\ UNCHANGED <<messageStore, messageMap, ownMessages, ownConversations, answersOf>>

\* storage.clear()
ClearStorage ==
    /\ messageStore' = EmptyMap /\ conversationStore' = EmptyMap
    /\ messageMap' = EmptyMap /\ conversationMap' = EmptyMap
    /\ direct' = TRUE
    /\ UNCHANGED <<ownMessages, ownConversations, answersOf>>

QueryNext ==
    \/ KeepMessage \/ DropMessage \/ ChangeMessage
    \/ CreateWithStorage \/ ChangeConversation \/ DropConversation \/ ClearStorage

QuerySpec == QueryInit /\ [][QueryNext]_queryVars

-------------------------------------------------------------------------------
(* Queries: ids in the order of the answer. *)

Directed(ids, direction) == IF direction = "desc" THEN Reverse(ids) ELSE ids

\* Arrays compare element by element: below the key of the first message at `time`, or
\* above that of the last one.
OpenRange(q) == [low |-> IF q.after = NoBound THEN -1 ELSE q.after,
                 high |-> IF q.before = NoBound THEN LastTime + 2 ELSE q.before]

\* getMessagesFromDatabase(): bound() throws when the range is upside down.
IndexThrows(q) == OpenRange(q).low >= OpenRange(q).high
FromIndex(q) ==
    LET found == {i \in DOMAIN messageStore :
                    /\ messageStore[i].conversationId = q.conversationId
                    /\ messageStore[i].timestamp \in (OpenRange(q).low + 1) .. (OpenRange(q).high - 1)}
    IN  Directed(Sorted(found, [i \in found |-> <<messageStore[i].timestamp, i>>]), q.direction)

\* MemoryStorage.getMessages(), with compareMessagesAscending().
FromMap(q) ==
    LET found == {i \in DOMAIN messageMap :
                    /\ messageMap[i].conversationId = q.conversationId
                    /\ q.before # NoBound => messageMap[i].timestamp < q.before
                    /\ q.after # NoBound => messageMap[i].timestamp > q.after}
    IN  Directed(Sorted(found, [i \in found |-> <<messageMap[i].timestamp, LocaleRank[i]>>]), q.direction)

\* engine.getMessages() without a storage: a bound of 0 counts as none, and messages of
\* one time stay in the order they came in.
FromOwn(q) ==
    LET At(n) == ownMessages[n].value
        found == {n \in DOMAIN ownMessages :
                    /\ At(n).conversationId = q.conversationId
                    /\ q.before > 0 => At(n).timestamp < q.before
                    /\ q.after > 0 => At(n).timestamp > q.after}
        ordered == Sorted(found, [n \in found |-> <<At(n).timestamp, n>>])
    IN  Directed([k \in DOMAIN ordered |-> ownMessages[ordered[k]].id], q.direction)

Passes(q, type, members) ==
    /\ q.type # "any" => type = q.type
    /\ q.participantId # "any" => q.participantId \in members

\* getConversationsFromDatabase(): the index on updatedAt, then the filters.
ConversationsFromIndex(q) ==
    LET ids == DOMAIN conversationStore
        all == Sorted(ids, [i \in ids |-> <<conversationStore[i].updatedAt, i>>])
        passing == {n \in DOMAIN all :
                      Passes(q, conversationStore[all[n]].type, conversationStore[all[n]].participantIds)}
    IN  Directed(Filtered(all, passing), q.direction)

\* MemoryStorage.getConversations(): the filters, then a sort.
ConversationsFromMap(q) ==
    LET found == {i \in DOMAIN conversationMap :
                    Passes(q, conversationMap[i].type, conversationMap[i].participants)}
    IN  Directed(Sorted(found, [i \in found |-> <<conversationMap[i].updatedAt, LocaleRank[i]>>]),
                 q.direction)

\* engine.getConversations() without a storage looks at no query.
ConversationsFromOwn(q) == [n \in DOMAIN ownConversations |-> ownConversations[n].id]

\* paginateItems(), and the same in the engine.
Paginate(ids, cursor, limit) ==
    LET at == {n \in DOMAIN ids : ids[n] = cursor}
        rest == IF at = {} THEN ids ELSE SubSeq(ids, (CHOOSE n \in at : TRUE) + 1, Len(ids))
        page == SubSeq(rest, 1, IF Len(rest) < limit THEN Len(rest) ELSE limit)
    IN  [items |-> page, hasMore |-> Len(rest) > Len(page)]

\* Page after page, each behind the last id of those before it, as many as there are ids.
AllPages(ids, limit) ==
    LET read[n \in 0 .. Len(ids)] ==
            IF n = 0 THEN Paginate(ids, 0, limit)
            ELSE IF ~read[n - 1].hasMore THEN read[n - 1]
            ELSE LET before == read[n - 1].items
                     next == Paginate(ids, before[Len(before)], limit)
                 IN  [items |-> before \o next.items, hasMore |-> next.hasMore]
    IN  read[Len(ids)]

-------------------------------------------------------------------------------
(* Properties. *)

Bounds == NoBound .. LastTime + 1
MessageQueries == [conversationId : ConversationIds, direction : {"asc", "desc"},
                   before : Bounds, after : Bounds]
ConversationQueries == [direction : {"asc", "desc"}, type : {"any", "direct", "group"},
                        participantId : {"any", "user", "assistant"}]

\* Two messages of one conversation and time.
Tie == \E i, j \in DOMAIN messageMap : i # j /\ messageMap[i] = messageMap[j]

\* The order of the keys of an index and that of localeCompare() are one for ids of one time.
OneOrder(time) == \A i, j \in DOMAIN time : time[i] = time[j] /\ i < j => LocaleRank[i] < LocaleRank[j]

\* Two lists have the same ids, those of one time in any order.
SameByTime(ids, others, time) ==
    /\ ToSet(ids) = ToSet(others) /\ Len(ids) = Len(others)
    /\ \A n \in DOMAIN ids : time[ids[n]] = time[others[n]]

\* Page by page a list is read to its end, every id once.
ReadToTheEnd(ids) == \A limit \in 1 .. 2 : AllPages(ids, limit) = [items |-> ids, hasMore |-> FALSE]

\* Whatever was written, IndexedDB and its fallback list the same messages for every query
\* but the empty range the first rejects, in the same order but for messages of one time
\* whose ids the two compare differently; the engine's own map does too but for bounds of 0
\* and the order of messages of one time; and pages add up to the whole list.
MessagesAgree ==
    answersOf = "messages" =>
        LET time == [i \in DOMAIN messageMap |-> messageMap[i].timestamp]
            oneOrder == OneOrder(time)
        IN  \A q \in MessageQueries :
                LET index == FromIndex(q)
                    map == FromMap(q)
                IN  /\ ~IndexThrows(q) => SameByTime(index, map, time) /\ (oneOrder => index = map)
                    /\ IndexThrows(q) => map = <<>>
                    /\ (~direct /\ ~Tie /\ q.before # 0 /\ q.after # 0) => FromOwn(q) = map
                    /\ ReadToTheEnd(map)

\* The same of conversations; the engine's own map has the same ones but filters, orders
\* and limits nothing.
ConversationsAgree ==
    answersOf = "conversations" =>
        LET time == [i \in DOMAIN conversationMap |-> conversationMap[i].updatedAt]
        IN  \A q \in ConversationQueries :
                LET index == ConversationsFromIndex(q)
                    map == ConversationsFromMap(q)
                IN  /\ SameByTime(index, map, time) /\ (OneOrder(time) => index = map)
                    /\ ~direct => ToSet(map) \subseteq ToSet(ConversationsFromOwn(q))
                    /\ ReadToTheEnd(map)

\* The stores cannot be told apart by what they list.
StoresAgree == MessagesAgree /\ ConversationsAgree

===============================================================================
