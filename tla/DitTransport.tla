------------------------------ MODULE DitTransport ------------------------------
(***************************************************************************)
(* DitTransport: polls a DIT chatroom through a PollingTransport.  The     *)
(* first poll of a connection pages backwards through the history, later   *)
(* ones ask for what follows a cursor.  The room is the service's: its     *)
(* messages are numbered in the order of created_at.                       *)
(***************************************************************************)
EXTENDS Integers, Sequences, FiniteSets, SequencesExt

CONSTANTS
    Limit,     \* messages in a page: initialHistoryLimit and DIT_PAGE_LIMIT
    MaxPages,  \* initialBackfillPageCount
    SeenMax,   \* SEEN_IDS_MAX
    MaxRoom, MaxFaults, MaxConnects  \* bounds of the exploration

ASSUME DitAssumption ==
    /\ {Limit, MaxPages} \subseteq Nat \ {0}
    /\ {MaxRoom, MaxFaults, MaxConnects} \subseteq Nat
    /\ SeenMax \in Nat /\ SeenMax >= Limit * MaxPages

VARIABLES
    room,          \* the last message of the chatroom, 0 if it is empty
    state,         \* the PollingTransport's state
    seen,          \* seenMessageIds, in insertion order
    cursor,        \* the last message read, 0 if undefined
    bootstrapped,  \* hasBootstrappedHistory
    poll,          \* the poll that is out
    got,           \* history: messages handed to subscribers since connect()
    floor,         \* history: the oldest message this connection asked for, 0 if unknown
    twice,         \* history: has one been handed over again?
    faults, connects

ditVars == <<room, state, seen, cursor, bootstrapped, poll, got, floor, twice, faults, connects>>

NoPoll == [stage |-> "none"]

DitInit ==
    /\ room \in 0 .. MaxRoom /\ state = "disconnected"
    /\ seen = <<>> /\ cursor = 0 /\ bootstrapped = FALSE /\ poll = NoPoll
    /\ got = {} /\ floor = 0 /\ twice = FALSE /\ faults = 0 /\ connects = 0

Largest(S) == CHOOSE i \in S : \A j \in S : j <= i
Smallest(S) == CHOOSE i \in S : \A j \in S : i <= j

\* fetchDitHistoryPage(): the messages next to a cursor.  What 'after' without a cursor
\* brings is the service's choice: the oldest or the newest page.
Before(c) == {i \in 1 .. room : i >= (IF c = 0 THEN room + 1 ELSE c) - Limit
                                /\ (c # 0 => i < c)}
After(c) == IF c # 0 THEN {{i \in 1 .. room : i > c /\ i <= c + Limit}}
            ELSE {{i \in 1 .. room : i <= Limit}, {i \in 1 .. room : i > room - Limit}}

\* Someone writes.
Post ==
    /\ room < MaxRoom /\ room' = room + 1
    /\ UNCHANGED <<state, seen, cursor, bootstrapped, poll, got, floor, twice, faults, connects>>

\* Mutant: a new connection goes on from the old cursor.
DitConnect_KeepsCursor ==
    /\ connects < MaxConnects /\ connects' = connects + 1
    /\ seen' = <<>> /\ got' = {}
    /\ state' = IF state = "disconnected" THEN "connected" ELSE state
    /\ UNCHANGED <<room, poll, twice, faults, cursor, bootstrapped, floor>>

\* connect() starts afresh even if the transport is connected, or still closing.
DitConnect ==
    /\ connects < MaxConnects /\ connects' = connects + 1
    /\ seen' = <<>> /\ cursor' = 0 /\ bootstrapped' = FALSE
    /\ got' = {} /\ floor' = 0
    /\ state' = IF state = "disconnected" THEN "connected" ELSE state
    /\ UNCHANGED <<room, poll, twice, faults>>

\* disconnect() waits for the poll that is out; what it brings is dropped.
DitDisconnect ==
    /\ state = "connected"
    /\ state' = IF poll = NoPoll THEN "disconnected" ELSE "disconnecting"
    /\ UNCHANGED <<room, seen, cursor, bootstrapped, poll, got, floor, twice, faults, connects>>

\* pollEvents() up to its first fetch.
PollStarts ==
    /\ state = "connected" /\ poll = NoPoll
    /\ poll' = IF bootstrapped THEN [stage |-> "after", from |-> cursor]
               ELSE [stage |-> "history", from |-> 0, pages |-> 0, collected |-> {}]
    /\ bootstrapped' = TRUE
    /\ UNCHANGED <<room, state, seen, cursor, got, floor, twice, faults, connects>>

\* The members of a set of numbers, in order.
InOrder(S) == [n \in 1 .. Cardinality(S) |-> CHOOSE i \in S : Cardinality({j \in S : j < i}) = n - 1]

\* Mutant: of a full batch the last message is not remembered, nor handed over.
ToTransportEvents_DropsLast(batch) ==
    IF Cardinality(batch) = Limit THEN InOrder(batch \ {Largest(batch)}) ELSE InOrder(batch)

\* toTransportEvents(): what was seen is left out, in the order of the batch.
ToTransportEvents(batch) == InOrder(batch \ ToSet(seen))

\* seenMessageIds with new ids, pruned to the last SeenMax.
Remember(new) ==
    LET all == seen \o new IN SubSeq(all, IF Len(all) > SeenMax THEN Len(all) - SeenMax + 1 ELSE 1, Len(all))

\* The poll ends with a batch.  After a disconnect() the PollingTransport drops it.
PollEnds(batch) ==
    LET new == ToTransportEvents(batch)
    IN  /\ seen' = Remember(new)
        /\ cursor' = IF batch = {} THEN cursor ELSE Largest(batch)
        /\ \/ state = "connected" /\ got' = got \cup ToSet(new)
              /\ twice' = (twice \/ ToSet(new) \cap got # {})
              /\ UNCHANGED state
           \/ state = "disconnecting" /\ state' = "disconnected" /\ UNCHANGED <<got, twice>>
        /\ poll' = NoPoll

\* A page of the history: the last one ends the poll.
HistoryPage ==
    /\ poll.stage = "history"
    /\ LET page == Before(poll.from)
           collected == poll.collected \cup page
       IN  \/ /\ Cardinality(page) < Limit \/ poll.pages + 1 = MaxPages
              /\ PollEnds(collected)
              /\ floor' = IF collected = {} THEN 0 ELSE Smallest(collected)
           \/ /\ Cardinality(page) = Limit /\ poll.pages + 1 < MaxPages
              /\ poll' = [poll EXCEPT !.from = Smallest(page), !.pages = @ + 1,
                                      !.collected = collected]
              /\ UNCHANGED <<state, seen, cursor, got, floor, twice>>
    /\ UNCHANGED <<room, bootstrapped, faults, connects>>

\* The page after the cursor the poll started with.
AfterPage ==
    /\ poll.stage = "after"
    /\ \E page \in After(poll.from) :
        /\ PollEnds(page)
        /\ floor' = IF floor = 0 /\ page # {} THEN Smallest(page) ELSE floor
    /\ UNCHANGED <<room, bootstrapped, faults, connects>>

\* The service answers with success: false, which reads as an empty page.
Unsuccessful ==
    /\ poll # NoPoll /\ faults < MaxFaults
    /\ faults' = faults + 1
    /\ PollEnds(IF poll.stage = "history" THEN poll.collected ELSE {})
    /\ floor' = IF poll.stage = "history" /\ poll.collected # {} THEN Smallest(poll.collected)
                ELSE floor
    /\ UNCHANGED <<room, bootstrapped, connects>>

\* A fetch fails: bootstrapped stays set, so this history is never asked for again.
PollFails ==
    /\ poll # NoPoll /\ faults < MaxFaults
    /\ poll' = NoPoll /\ faults' = faults + 1
    /\ state' = IF state = "disconnecting" THEN "disconnected" ELSE state
    /\ UNCHANGED <<room, seen, cursor, bootstrapped, got, floor, twice, connects>>

DitNext == Post \/ DitConnect \/ DitDisconnect \/ PollStarts \/ HistoryPage \/ AfterPage \/ Unsuccessful \/ PollFails

DitSpec == DitInit /\ [][DitNext]_ditVars

\* The polling loop goes on, and a page is answered or fails.
PollingFairness == WF_ditVars(PollStarts \/ HistoryPage \/ AfterPage)
FairDitSpec == DitSpec /\ PollingFairness

-------------------------------------------------------------------------------
(* Properties. *)

\* Between the oldest message a connection has asked for and its cursor nothing is
\* missing, and nothing was handed over twice since connect(), whatever was posted while
\* it paged, whichever polls failed and however often connect() was called on the way.
NoGapNoRepeat ==
    /\ state = "connected" /\ floor # 0 => floor .. cursor \subseteq got
    /\ ~twice

\* A connected transport hands over what is posted.
NewMessagesArrive ==
    \A i \in 1 .. MaxRoom :
        state = "connected" /\ i = room ~> i \in got \/ state # "connected" \/ i < floor \/ room > i
===============================================================================
