----------------------------- MODULE MessageStorage -----------------------------
(***************************************************************************)
(* IndexedDBStorage: operations share one lazily opened database, fall     *)
(* back to memory for good when it cannot be opened, and read messages     *)
(* page by page while others write.  Messages are numbered in the order of *)
(* the index, by timestamp and id.                                         *)
(***************************************************************************)
EXTENDS Integers, Sequences, FiniteSets

CONSTANTS
    Writers, Reader,   \* callers, each with one operation at a time
    MaxMessages, PageLimit,
    MaxOpens, MaxRejections, MaxReads  \* bounds of the exploration

ASSUME StorageAssumption ==
    /\ Reader \notin Writers /\ PageLimit \in Nat \ {0}
    /\ {MaxMessages, MaxOpens, MaxRejections, MaxReads} \subseteq Nat

VARIABLES
    database, memory,  \* the messages in each
    opens,             \* the outcome of each openDB() call so far
    handle,            \* databasePromise: one of those calls, 0 if undefined
    fallbackActivated,
    calls,             \* the operation of each caller
    reader,            \* the paging: its cursor, what it has got
    kept,              \* history: saved in the storage in use, and not deleted
    steady,            \* history: there ever since the paging began
    rejections

storageVars == <<database, memory, opens, handle, fallbackActivated, calls, reader, kept,
                 steady, rejections>>

Callers == Writers \cup {Reader}
NoCall == [stage |-> "none"]
NotPaging == [stage |-> "no", cursor |-> 0, got |-> {}, twice |-> FALSE, gone |-> FALSE, pages |-> 0]

StorageInit ==
    /\ \E n \in 0 .. MaxMessages : database = 1 .. n
    /\ memory = {} /\ opens = <<>> /\ handle = 0 /\ fallbackActivated = FALSE
    /\ calls = [c \in Callers |-> NoCall] /\ reader = NotPaging
    /\ kept = {} /\ steady = {} /\ rejections = 0

InUse == IF fallbackActivated THEN memory ELSE database

-------------------------------------------------------------------------------
(* withStorage() and getDatabase(): every operation goes this way. *)

\* Up to the await of databasePromise, which the first operation creates.
Begin(caller, what, id) ==
    /\ calls[caller] = NoCall
    /\ \/ /\ fallbackActivated
          /\ calls' = [calls EXCEPT ![caller] = [stage |-> "memory", what |-> what, id |-> id]]
          /\ UNCHANGED <<opens, handle>>
       \/ /\ ~fallbackActivated /\ handle # 0
          /\ calls' = [calls EXCEPT ![caller] =
                          [stage |-> "opening", what |-> what, id |-> id, open |-> handle]]
          /\ UNCHANGED <<opens, handle>>
       \/ /\ ~fallbackActivated /\ handle = 0 /\ Len(opens) < MaxOpens
          /\ opens' = Append(opens, "pending") /\ handle' = Len(opens')
          /\ calls' = [calls EXCEPT ![caller] =
                          [stage |-> "opening", what |-> what, id |-> id, open |-> handle']]
    /\ UNCHANGED <<database, memory, fallbackActivated, kept, rejections>>

\* openDB() settles; an environment without IndexedDB is one that never opens any.
OpenSettles ==
    /\ \E i \in DOMAIN opens, outcome \in {"open", "failed"} :
        opens[i] = "pending" /\ opens' = [opens EXCEPT ![i] = outcome]
    /\ UNCHANGED <<database, memory, handle, fallbackActivated, calls, reader, kept, steady,
                   rejections>>

\* The browser closes the connection: the terminated callback.
Terminated ==
    /\ \E i \in DOMAIN opens : opens[i] = "open" /\ opens' = [opens EXCEPT ![i] = "closed"]
    /\ handle' = 0
    /\ UNCHANGED <<database, memory, fallbackActivated, calls, reader, kept, steady, rejections>>

\* Mutant: the next operation tries the database again.
ActivateFallback_Once == handle' = 0 /\ UNCHANGED <<fallbackActivated, kept, steady>>

\* activateFallback(): what the database holds is out of sight from here on.
ActivateFallback ==
    IF fallbackActivated THEN UNCHANGED <<fallbackActivated, handle, kept, steady>>
    ELSE fallbackActivated' = TRUE /\ handle' = 0 /\ kept' = {} /\ steady' = {}

\* The await of databasePromise returns.
Resume(caller) ==
    /\ calls[caller].stage = "opening" /\ opens[calls[caller].open] # "pending"
    /\ \/ /\ opens[calls[caller].open] = "failed" /\ ActivateFallback
          /\ calls' = [calls EXCEPT ![caller] = [stage |-> "memory", what |-> @.what, id |-> @.id]]
       \/ /\ opens[calls[caller].open] # "failed"
          /\ calls' = [calls EXCEPT ![caller].stage = "database"]
          /\ UNCHANGED <<fallbackActivated, handle, kept, steady>>
    /\ UNCHANGED <<database, memory, opens, reader, rejections>>

\* A caller that may now read or write `stage`.
At(caller, stage) ==
    /\ calls[caller].stage = stage
    /\ stage = "database" => opens[calls[caller].open] = "open"

\* The operation rejects: the connection is gone, or the transaction aborts (a quota,
\* a constraint).  Nothing falls back.
Reject(caller) ==
    /\ calls[caller].stage = "database"
    /\ \/ opens[calls[caller].open] = "closed" /\ UNCHANGED rejections
       \/ opens[calls[caller].open] = "open" /\ rejections < MaxRejections
          /\ rejections' = rejections + 1
    /\ calls' = [calls EXCEPT ![caller] = NoCall]
    /\ reader' = IF caller = Reader THEN NotPaging ELSE reader
    /\ UNCHANGED <<database, memory, opens, handle, fallbackActivated, kept, steady>>

-------------------------------------------------------------------------------
(* The operations. *)

SaveMessage(w, i) == Begin(w, "save", i) /\ UNCHANGED <<reader, steady>>
DeleteMessage(w, i) == Begin(w, "delete", i) /\ UNCHANGED <<reader, steady>>

\* put(), delete() or their MemoryStorage counterparts.
Write(w) ==
    /\ \/ /\ At(w, "database") /\ UNCHANGED memory
          /\ database' = IF calls[w].what = "save" THEN database \cup {calls[w].id}
                         ELSE database \ {calls[w].id}
       \/ /\ At(w, "memory") /\ UNCHANGED database
          /\ memory' = IF calls[w].what = "save" THEN memory \cup {calls[w].id}
                       ELSE memory \ {calls[w].id}
    /\ \/ calls[w].what = "save" /\ kept' = kept \cup {calls[w].id} /\ UNCHANGED <<steady, reader>>
       \/ calls[w].what = "delete" /\ kept' = kept \ {calls[w].id} /\ steady' = steady \ {calls[w].id}
          /\ reader' = IF reader.cursor = calls[w].id THEN [reader EXCEPT !.gone = TRUE] ELSE reader
    /\ calls' = [calls EXCEPT ![w] = NoCall]
    /\ UNCHANGED <<opens, handle, fallbackActivated, rejections>>

\* getMessages(): the first page, then the page after each nextCursor.
GetMessages ==
    /\ Begin(Reader, "page", 0) /\ reader.pages < MaxReads
    /\ \/ reader.stage \in {"no", "done"} /\ reader' = [NotPaging EXCEPT !.stage = "paging"]
          /\ steady' = InUse
       \/ reader.stage = "paging" /\ UNCHANGED <<reader, steady>>

\* Mutant: after the first page one message is skipped.
PageFrom_SkipsOne(messages, cursor) ==
    LET rest == IF cursor \in messages THEN {i \in messages : i > cursor + 1} ELSE messages
        page == {i \in rest : Cardinality({j \in rest : j < i}) < PageLimit}
    IN  [items |-> page, hasMore |-> page # rest]

\* paginateItems(): a cursor that is not among the messages starts over.
PageFrom(messages, cursor) ==
    LET rest == IF cursor \in messages THEN {i \in messages : i > cursor} ELSE messages
        page == {i \in rest : Cardinality({j \in rest : j < i}) < PageLimit}
    IN  [items |-> page, hasMore |-> page # rest]

\* getMessagesFromDatabase() or MemoryStorage.getMessages().
ReadPage ==
    /\ At(Reader, "database") \/ At(Reader, "memory")
    /\ LET source == IF calls[Reader].stage = "database" THEN database ELSE memory
           page == PageFrom(source, reader.cursor)
       IN  reader' = [reader EXCEPT
               !.got = @ \cup page.items, !.twice = @ \/ page.items \cap reader.got # {},
               !.stage = IF page.hasMore THEN "paging" ELSE "done",
               !.gone = @ \/ (reader.cursor # 0 /\ reader.cursor \notin source),
               !.cursor = IF page.hasMore THEN CHOOSE i \in page.items : \A j \in page.items : j <= i
                          ELSE 0,
               !.pages = @ + 1]
    /\ calls' = [calls EXCEPT ![Reader] = NoCall]
    /\ UNCHANGED <<database, memory, opens, handle, fallbackActivated, kept, steady, rejections>>

StorageNext ==
    \/ \E w \in Writers, i \in 1 .. MaxMessages : SaveMessage(w, i) \/ DeleteMessage(w, i)
    \/ \E w \in Writers : Write(w)
    \/ GetMessages \/ ReadPage
    \/ \E c \in Callers : Resume(c) \/ Reject(c)
    \/ OpenSettles \/ Terminated

StorageSpec == StorageInit /\ [][StorageNext]_storageVars

-------------------------------------------------------------------------------
(* Properties. *)

\* What was saved is found by the next read: however opens, terminations and failures
\* interleave with operations in flight, no write goes to a storage that is not, or no
\* longer, the one in use.
SavedIsFound == kept \subseteq InUse

\* Reading page after page to the end misses no message that was there all the time,
\* whatever is written meanwhile, and brings one twice only if the message its cursor
\* named was gone.
PagesMissNothing ==
    /\ reader.stage = "done" => steady \subseteq reader.got
    /\ reader.twice => reader.gone

\* What was saved is found, one at a time and page by page.
ReadsWhatWasSaved == SavedIsFound /\ PagesMissNothing

===============================================================================
