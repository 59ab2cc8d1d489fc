------------------------------- MODULE DitHistory -------------------------------
(***************************************************************************)
(* The DIT demo as a whole: a server process with one DitTransport and the *)
(* event broker, and a browser that keeps what it gets in IndexedDB, polls *)
(* the server and shows a window of the history, which grows upwards.      *)
(***************************************************************************)
EXTENDS DitTransport

CONSTANTS
    InitialVisible, Increment,  \* ChatSurface's historyWindow
    MaxOpened                   \* bound: how often the page is opened

ASSUME HistoryAssumption ==
    {InitialVisible, Increment} \subseteq Nat \ {0} /\ MaxOpened \in Nat

VARIABLES
    browserStore, \* messages in the browser's storage
    listed,     \* messages of useMessages(); {} while the page is closed
    olderLoaded, \* loadedHistoryMessages
    window,     \* visibleMessageCount, hasMoreRemoteHistory, pendingHistoryRestoreRef
    pageCursor, \* the poll cursor of the page, 0 if it has none
    older,      \* loadOlderHistoryPage() in progress
    whole,      \* history: the storage was empty when the page met this server process
    opened

browserVars == <<browserStore, listed, olderLoaded, window, pageCursor, older, whole, opened>>
historyVars == <<ditVars, browserVars>>

NoLoad == [stage |-> "none"]
Closed == [open |-> FALSE, count |-> 0, hasMore |-> TRUE, restore |-> FALSE]

HistoryInit ==
    /\ DitInit
    /\ browserStore = {} /\ listed = {} /\ olderLoaded = {} /\ window = Closed
    /\ pageCursor = 0 /\ older = NoLoad /\ whole = FALSE /\ opened = 0

\* The largest n members of S.
Newest(S, n) == {i \in S : Cardinality({j \in S : j > i}) < n}
AllMessages == listed \cup olderLoaded
VisibleOf(all, count) == Newest(all, IF count > InitialVisible THEN count ELSE InitialVisible)
WindowMessages == VisibleOf(AllMessages, window.count)

\* The layout effect: a change of the number of visible messages ends the restore.
Shown(all, w) ==
    window' = IF VisibleOf(all, w.count) = {} \/ Cardinality(VisibleOf(all, w.count)) # Cardinality(WindowMessages)
              THEN [w EXCEPT !.restore = FALSE] ELSE w

\* The process starts, for the first time or again: memory, broker and transport are new.
ServerStarts ==
    /\ connects < MaxConnects /\ connects' = connects + 1
    /\ state' = "connected" /\ poll' = NoPoll
    /\ seen' = <<>> /\ cursor' = 0 /\ bootstrapped' = FALSE /\ got' = {} /\ floor' = 0
    /\ whole' = FALSE
    /\ UNCHANGED <<room, twice, faults, browserStore, listed, olderLoaded, window, pageCursor,
                   older, opened>>

\* What the transport does, and the room.
ServerRuns ==
    /\ connects > 0 /\ UNCHANGED browserVars
    /\ Post \/ PollStarts \/ HistoryPage \/ AfterPage \/ Unsuccessful \/ PollFails

\* The page is opened, closed or reloaded: useMessages() loads what is stored.
OpenPage ==
    /\ opened < MaxOpened /\ opened' = opened + 1
    /\ listed' = browserStore /\ olderLoaded' = {} /\ older' = NoLoad /\ pageCursor' = 0
    /\ window' = [Closed EXCEPT !.open = TRUE, !.count = InitialVisible]
    /\ whole' = (whole \/ (connects > 0 /\ browserStore = {}))
    /\ UNCHANGED <<ditVars, browserStore>>

ClosePage ==
    /\ window.open
    /\ window' = Closed /\ listed' = {} /\ olderLoaded' = {} /\ older' = NoLoad /\ pageCursor' = 0
    /\ UNCHANGED <<ditVars, browserStore, whole, opened>>

\* Mutant: with a cursor the page always gets the newest event only.
EventsFor_NewestOnly(c) == IF c = 0 THEN got ELSE Newest(got, 1)

\* getDemoPollingResponse(): without a cursor what the engine has, else the events after
\* it.  The n-th message of this process is its n-th event.
EventsFor(c) == IF c = 0 THEN got ELSE {i \in got : Cardinality({j \in got : j <= i}) > c}

\* A poll of the page.
PagePolls ==
    /\ window.open /\ got # {}
    /\ LET new == EventsFor(pageCursor)
       IN  /\ browserStore' = browserStore \cup new /\ listed' = listed \cup new
           /\ pageCursor' = IF new = {} THEN pageCursor ELSE Cardinality(got)
           /\ Shown(listed' \cup olderLoaded, window)
    /\ UNCHANGED <<ditVars, olderLoaded, older, whole, opened>>

\* After a reconnect useMessages() loads again.
PageReloadsList ==
    /\ window.open /\ listed' = listed \cup browserStore
    /\ Shown(listed' \cup olderLoaded, window)
    /\ UNCHANGED <<ditVars, browserStore, olderLoaded, pageCursor, older, whole, opened>>

\* onScroll at the top, with messages in memory that are not visible.
ShowMore ==
    /\ window.open /\ ~window.restore /\ WindowMessages # AllMessages
    /\ Shown(AllMessages, [window EXCEPT !.count = @ + Increment, !.restore = TRUE])
    /\ UNCHANGED <<ditVars, browserStore, listed, olderLoaded, pageCursor, older, whole, opened>>

\* onScroll at the top, with none: loadOlderHistoryPage() up to its await.
LoadOlder ==
    /\ window.open /\ ~window.restore /\ WindowMessages = AllMessages /\ WindowMessages # {}
    /\ window.hasMore /\ older = NoLoad
    /\ older' = [stage |-> "asked", before |-> Smallest(WindowMessages)]
    /\ window' = [window EXCEPT !.restore = TRUE]
    /\ UNCHANGED <<ditVars, browserStore, listed, olderLoaded, pageCursor, whole, opened>>

\* getChatMessagesPage(): the page before a message.
PageBefore(i) == {j \in 1 .. room : j < i /\ j >= i - Increment}

\* Mutant: an empty page does not end the restore.
OlderArrives_KeepsRestore ==
    /\ older.stage = "asked"
    /\ LET items == PageBefore(older.before)
       IN  /\ browserStore' = browserStore \cup items /\ olderLoaded' = olderLoaded \cup items
           /\ Shown(AllMessages \cup items,
                    [window EXCEPT !.count = @ + Cardinality(items),
                                   !.hasMore = (Cardinality(items) = Increment)])
    /\ older' = NoLoad
    /\ UNCHANGED <<ditVars, listed, pageCursor, whole, opened>>

\* loadMessagesPage() stores the page; an empty one ends the restore.
OlderArrives ==
    /\ older.stage = "asked"
    /\ LET items == PageBefore(older.before)
       IN  /\ browserStore' = browserStore \cup items /\ olderLoaded' = olderLoaded \cup items
           /\ Shown(AllMessages \cup items,
                    [window EXCEPT !.count = @ + Cardinality(items),
                                   !.hasMore = (Cardinality(items) = Increment),
                                   !.restore = @ /\ items # {}])
    /\ older' = NoLoad
    /\ UNCHANGED <<ditVars, listed, pageCursor, whole, opened>>

OlderFails ==
    /\ older.stage = "asked" /\ faults < MaxFaults /\ faults' = faults + 1
    /\ older' = NoLoad /\ window' = [window EXCEPT !.restore = FALSE]
    /\ UNCHANGED <<room, state, seen, cursor, bootstrapped, poll, got, floor, twice, connects,
                   browserStore, listed, olderLoaded, pageCursor, whole, opened>>

HistoryNext ==
    \/ ServerStarts \/ ServerRuns \/ OpenPage \/ ClosePage \/ PagePolls \/ PageReloadsList
    \/ ShowMore \/ LoadOlder \/ OlderArrives \/ OlderFails

HistorySpec == HistoryInit /\ [][HistoryNext]_historyVars

-------------------------------------------------------------------------------
(* Properties. *)

\* Between two visible messages none is missing.
NoHole == \A i \in WindowMessages, j \in WindowMessages : i .. j \subseteq WindowMessages

\* So it is for a browser that had nothing stored when it met this server process,
\* however polls, pages of the history, reloads and failures interleave.
NoHoleIfWhole == whole => NoHole

\* Scrolling up is blocked only while a page of the history is on its way.
ScrollIsNotStuck == window.restore => older # NoLoad

\* The page's history has no hole it cannot fill by scrolling on, and can be scrolled.
HistoryIsWhole == NoHoleIfWhole /\ ScrollIsNotStuck

===============================================================================
