-------------------- MODULE EnginePartsProofs --------------------
(*****************************************************************************)
(* The storage, the queries of it, the event bus and the middleware pipeline *)
(* below the engine, for every value of the constants.                       *)
(*                                                                           *)
(* Middlewares: what a run has called stays out of its way, it is below the  *)
(* run's index or off the stack.  A run that was not bent is a chain: each   *)
(* call was made by the one before it, with the event of all those before    *)
(* it, and the stack begins with the middlewares called.                     *)
(*                                                                           *)
(* Queries: a sort is described by what it returns, a list of a set in the   *)
(* order of its keys, and there is one such list.  Two lists by the same     *)
(* times have the same time at every place, and pages are read to the end.   *)
(*****************************************************************************)
EXTENDS MessageStorage, EventBus, MiddlewarePipeline, StorageQueries, SequenceTheorems,
        FiniteSetTheorems, WellFoundedInduction, TLAPS

-------------------------------------------------------------------------------
(* MessageStorage *)

Numbers == 1 .. MaxMessages

StorageCalls ==
    {NoCall} \cup [stage : {"memory"}, what : {"save", "delete", "page"}, id : 0 .. MaxMessages]
             \cup [stage : {"opening", "database"}, what : {"save", "delete", "page"},
                   id : 0 .. MaxMessages, open : Nat \ {0}]

Readers == [stage : {"no", "paging", "done"}, cursor : Nat, got : SUBSET Numbers, twice : BOOLEAN,
            gone : BOOLEAN, pages : Nat]

Outcomes == {"pending", "open", "failed", "closed"}

StorageTypes ==
    /\ database \subseteq Numbers /\ memory \subseteq Numbers
    /\ opens \in Seq(Outcomes) /\ handle \in 0 .. Len(opens)
    /\ fallbackActivated \in BOOLEAN
    /\ calls \in [Callers -> StorageCalls]
    /\ \A w \in Writers : calls[w] # NoCall => calls[w].id \in Numbers

ReaderTypes == reader \in Readers /\ (calls[Reader] # NoCall => reader.stage = "paging")

\* The database that is being opened, or is open, is the one that new operations wait
\* for; one that failed is so until an operation that waited has fallen back.
HandleInv ==
    /\ \A i \in 1 .. Len(opens) : opens[i] \in {"pending", "open"} => handle = i
    /\ ~fallbackActivated => \A i \in 1 .. Len(opens) : opens[i] = "failed" => handle = i
    /\ fallbackActivated => handle = 0

\* Nobody uses the memory before the fallback, and whoever waits or writes does so on a
\* database that was asked for.
CallsInv ==
    \A c \in Callers :
        /\ calls[c].stage = "memory" => fallbackActivated
        /\ calls[c].stage \in {"opening", "database"} => calls[c].open \in 1 .. Len(opens)

UseInv == kept \subseteq InUse /\ steady \subseteq InUse

\* What was there all the time is behind the cursor, or among what was read.
PagingInv ==
    /\ reader.stage = "paging" => \A i \in steady : i <= reader.cursor => i \in reader.got
    /\ reader.stage = "paging" /\ ~reader.gone => \A i \in reader.got : i <= reader.cursor

StorageInv ==
    StorageTypes /\ ReaderTypes /\ HandleInv /\ CallsInv /\ UseInv /\ PagingInv /\ PagesMissNothing

\* Every set of numbers that is not empty has a least element (the library's induction, read
\* the other way round).
LEMMA LeastElement ==
    ASSUME NEW S, S \subseteq Nat, S # {}
    PROVE  \E x \in S : \A y \in S : x <= y
<1>1. PICK x \in S : \A y \in S : ~(<<y, x>> \in OpToRel(<, Nat))
  BY WFMin, NatLessThanWellFounded, Zenon
<1>2. ASSUME NEW y \in S PROVE x <= y
  <2>1. ~(<<y, x>> \in {ss \in Nat \X Nat : ss[1] < ss[2]}) BY <1>1, Zenon DEF OpToRel
  <2>2. <<y, x>> \in Nat \X Nat OBVIOUS
  <2>3. ~(y < x) BY <2>1, <2>2
  <2> QED BY <2>3
<1> QED BY <1>2

\* A bounded one has a greatest.
LEMMA GreatestElement ==
    ASSUME NEW n \in Nat, NEW S, S \subseteq 0 .. n, S # {}
    PROVE  \E x \in S : \A y \in S : y <= x
<1> DEFINE T == {n - y : y \in S}
<1>1. \A y \in S : n - y \in Nat OBVIOUS
<1>2. T \subseteq Nat /\ T # {} BY <1>1
<1>3. PICK t \in T : \A u \in T : t <= u
  <2> HIDE DEF T
  <2> QED BY <1>2, LeastElement
<1>4. PICK x \in S : t = n - x OBVIOUS
<1>5. ASSUME NEW y \in S PROVE y <= x
  <2>1. n - y \in T OBVIOUS
  <2>2. t <= n - y BY <2>1, <1>3
  <2> QED BY <2>2, <1>4
<1> QED BY <1>5

\* What paginateItems() takes of the messages behind the cursor.
Behind(messages, cursor) ==
    IF cursor \in messages THEN {i \in messages : i > cursor} ELSE messages

LastOf(S) == CHOOSE i \in S : \A j \in S : j <= i

\* A page is the beginning of what is behind the cursor, and all of it or not empty.
LEMMA PageIsBeginning ==
    ASSUME NEW messages, messages \subseteq Numbers, NEW cursor \in Nat
    PROVE  LET page == PageFrom(messages, cursor)
               rest == Behind(messages, cursor)
           IN  /\ page.items \subseteq rest /\ page.hasMore \in BOOLEAN
               /\ ~page.hasMore => page.items = rest
               /\ page.hasMore =>
                    /\ LastOf(page.items) \in page.items
                    /\ \A i \in page.items : i <= LastOf(page.items)
                    /\ \A i \in rest : i <= LastOf(page.items) => i \in page.items
<1> DEFINE rest == Behind(messages, cursor)
           items == {i \in rest : Cardinality({j \in rest : j < i}) < PageLimit}
<1>1. PageFrom(messages, cursor) = [items |-> items, hasMore |-> items # rest]
  BY DEF PageFrom, Behind
<1>2. MaxMessages \in Nat /\ PageLimit \in Nat \ {0} BY StorageAssumption
<1>3. rest \subseteq Numbers BY DEF Behind
<1>4. IsFiniteSet(rest)
  <2>1. IsFiniteSet(Numbers) BY <1>2, FS_Interval DEF Numbers
  <2> QED BY <1>3, <2>1, FS_Subset
<1>a. \A i \in rest : i \in Int BY <1>2, <1>3 DEF Numbers
<1> HIDE DEF rest
<1>5. ASSUME NEW i \in rest, NEW k \in items, i <= k PROVE i \in items
  <2> DEFINE below == {j \in rest : j < i}
             above == {j \in rest : j < k}
  <2>1. below \subseteq above 
    <3>1. k \in rest OBVIOUS
    <3>2. \A j \in rest : j < i => j < k BY <1>a, <1>5, <3>1
    <3> QED BY <3>2
  <2>2. IsFiniteSet(above) BY <1>4, FS_Subset
  <2>3. Cardinality(below) <= Cardinality(above) BY <2>1, <2>2, FS_Subset
  <2>4. IsFiniteSet(below) BY <2>1, <2>2, FS_Subset
  <2>5. Cardinality(below) \in Nat /\ Cardinality(above) \in Nat BY <2>2, <2>4, FS_CardinalityType
  <2>6. Cardinality(above) < PageLimit OBVIOUS
  <2> HIDE DEF below, above
  <2>7. Cardinality(below) < PageLimit BY <2>3, <2>5, <2>6, <1>2
  <2> QED BY <2>7 DEF below
<1>6. rest # {} => items # {}
  <2> SUFFICES ASSUME rest # {} PROVE items # {} OBVIOUS
  <2>1. rest \subseteq Nat BY <1>3 DEF Numbers
  <2>2. PICK x \in rest : \A y \in rest : x <= y BY <2>1, LeastElement
  <2>a. \A j \in rest : ~(j < x) BY <1>a, <2>2
  <2>3. {j \in rest : j < x} = {} BY <2>a
  <2>4. Cardinality({j \in rest : j < x}) = 0 BY <2>3, FS_EmptySet
  <2>5. x \in items BY <2>4, <1>2
  <2> QED BY <2>5
<1>7. items \subseteq rest OBVIOUS
<1> HIDE DEF items
<1>8. ASSUME items # rest
      PROVE  LastOf(items) \in items /\ \A i \in items : i <= LastOf(items)
  <2>1. items # {} BY <1>6, <1>8
  <2>2. items \subseteq 0 .. MaxMessages BY <1>3, <1>7 DEF Numbers
  <2>3. \E x \in items : \A y \in items : y <= x BY <1>2, <2>1, <2>2, GreatestElement
  <2> QED BY <2>3 DEF LastOf
<1>9. PICK page : page = PageFrom(messages, cursor) OBVIOUS
<1>10. page.items = items /\ page.hasMore = (items # rest) BY <1>1, <1>9
<1>11. page.hasMore =>
         /\ LastOf(items) \in items /\ \A i \in items : i <= LastOf(items)
         /\ \A i \in rest : i <= LastOf(items) => i \in items
  BY <1>5, <1>8, <1>10
<1>12. /\ page.items \subseteq rest /\ page.hasMore \in BOOLEAN
       /\ ~page.hasMore => page.items = rest
  BY <1>7, <1>10
<1> QED BY <1>9, <1>10, <1>11, <1>12 DEF rest

\* The kinds of an operation under way.
LEMMA CallKinds ==
    ASSUME NEW r \in StorageCalls
    PROVE  /\ r = NoCall <=> r.stage = "none"
           /\ r.stage \in {"none", "memory", "opening", "database"}
           /\ r # NoCall => r.what \in {"save", "delete", "page"} /\ r.id \in 0 .. MaxMessages
           /\ r.stage \in {"opening", "database"} => r.open \in Nat \ {0}
BY DEF StorageCalls, NoCall

\* An operation begins, with the database or with the memory.
LEMMA BeginKeeps ==
    ASSUME StorageTypes, HandleInv, CallsInv, NEW caller \in Callers,
           NEW what \in {"save", "delete", "page"}, NEW id \in 0 .. MaxMessages,
           caller \in Writers => id \in Numbers, Begin(caller, what, id)
    PROVE  /\ StorageTypes' /\ HandleInv' /\ CallsInv' /\ UNCHANGED <<database, memory, fallbackActivated, kept>>
           /\ \A c \in Callers \ {caller} : calls'[c] = calls[c]
<1>1. /\ opens \in Seq(Outcomes) /\ Len(opens) \in Nat /\ handle \in 0 .. Len(opens) /\ fallbackActivated \in BOOLEAN
      /\ calls \in [Callers -> StorageCalls]
  BY DEF StorageTypes
<1>2. UNCHANGED <<database, memory, fallbackActivated, kept>> BY DEF Begin
<1>3. ASSUME NEW rec \in StorageCalls, calls' = [calls EXCEPT ![caller] = rec], rec.id = id, rec # NoCall,
             opens' \in Seq(Outcomes), handle' \in 0 .. Len(opens'), Len(opens) <= Len(opens'),
             Len(opens') \in Nat,
             rec.stage = "memory" => fallbackActivated,
             rec.stage \in {"opening", "database"} => rec.open \in 1 .. Len(opens')
      PROVE  /\ StorageTypes' /\ CallsInv' /\ \A c \in Callers \ {caller} : calls'[c] = calls[c]
  <2>1. calls' \in [Callers -> StorageCalls] BY <1>1, <1>3
  <2>2. calls'[caller] = rec /\ \A c \in Callers \ {caller} : calls'[c] = calls[c] BY <1>1, <1>3
  <2>3. \A w \in Writers : calls'[w] # NoCall => calls'[w].id \in Numbers
    BY <1>3, <2>2 DEF StorageTypes, Callers
  <2>4. StorageTypes'
    <3>1. database' \subseteq Numbers' /\ memory' \subseteq Numbers' /\ fallbackActivated' \in BOOLEAN
      BY <1>2 DEF StorageTypes, Numbers
    <3>2. Callers' = Callers /\ StorageCalls' = StorageCalls /\ NoCall' = NoCall /\ Numbers' = Numbers
      BY DEF Callers, StorageCalls, NoCall, Numbers
    <3> QED BY <1>3, <2>1, <2>3, <3>1, <3>2 DEF StorageTypes
  <2>5. CallsInv' BY <1>1, <1>2, <1>3, <2>2 DEF CallsInv
  <2> QED BY <2>2, <2>4, <2>5
<1>4. CASE fallbackActivated /\ UNCHANGED <<opens, handle>>
           /\ calls' = [calls EXCEPT ![caller] = [stage |-> "memory", what |-> what, id |-> id]]
  <2> DEFINE rec == [stage |-> "memory", what |-> what, id |-> id]
  <2>1. rec \in StorageCalls /\ rec # NoCall /\ rec.id = id /\ rec.stage = "memory" BY DEF StorageCalls, NoCall
  <2> HIDE DEF rec
  <2>2. calls' = [calls EXCEPT ![caller] = rec] BY <1>4 DEF rec
  <2>3. HandleInv' BY <1>2, <1>4 DEF HandleInv
  <2>4. opens' \in Seq(Outcomes) /\ handle' \in 0 .. Len(opens') /\ Len(opens) <= Len(opens') /\ Len(opens') \in Nat
    BY <1>1, <1>4
  <2>5. rec.stage \notin {"opening", "database"} /\ fallbackActivated BY <1>4, <2>1
  <2>6. StorageTypes' /\ CallsInv' /\ \A c \in Callers \ {caller} : calls'[c] = calls[c]
    BY <1>3, <2>1, <2>2, <2>4, <2>5
  <2> QED BY <1>2, <2>3, <2>6
<1>5. CASE ~fallbackActivated /\ handle # 0 /\ UNCHANGED <<opens, handle>>
           /\ calls' = [calls EXCEPT ![caller] =
                           [stage |-> "opening", what |-> what, id |-> id, open |-> handle]]
  <2> DEFINE rec == [stage |-> "opening", what |-> what, id |-> id, open |-> handle]
  <2>1. /\ rec \in StorageCalls /\ rec # NoCall /\ rec.id = id /\ rec.stage = "opening"
        /\ rec.open = handle
    BY <1>1, <1>5 DEF StorageCalls, NoCall
  <2> HIDE DEF rec
  <2>2. calls' = [calls EXCEPT ![caller] = rec] BY <1>5 DEF rec
  <2>3. HandleInv' BY <1>2, <1>5 DEF HandleInv
  <2>4. handle \in 1 .. Len(opens) BY <1>1, <1>5 DEF StorageTypes
  <2>5. opens' \in Seq(Outcomes) /\ handle' \in 0 .. Len(opens') /\ Len(opens) <= Len(opens') /\ Len(opens') \in Nat
    BY <1>1, <1>5
  <2>6. rec.stage # "memory" /\ rec.open \in 1 .. Len(opens') BY <1>5, <2>1, <2>4
  <2>7. StorageTypes' /\ CallsInv' /\ \A c \in Callers \ {caller} : calls'[c] = calls[c]
    BY <1>3, <2>1, <2>2, <2>5, <2>6
  <2> QED BY <1>2, <2>3, <2>7
<1>6. CASE ~fallbackActivated /\ handle = 0
           /\ opens' = Append(opens, "pending") /\ handle' = Len(opens')
           /\ calls' = [calls EXCEPT ![caller] =
                           [stage |-> "opening", what |-> what, id |-> id, open |-> handle']]
  <2> DEFINE rec == [stage |-> "opening", what |-> what, id |-> id, open |-> handle']
  <2>1. /\ opens' \in Seq(Outcomes) /\ Len(opens') = Len(opens) + 1
        /\ opens'[Len(opens) + 1] = "pending" /\ \A i \in 1 .. Len(opens) : opens'[i] = opens[i]
    BY <1>1, <1>6 DEF Outcomes
  <2>2. handle' = Len(opens) + 1 BY <1>6, <2>1
  <2>3. /\ rec \in StorageCalls /\ rec # NoCall /\ rec.id = id /\ rec.stage = "opening"
        /\ rec.open = Len(opens) + 1
    BY <1>1, <2>2 DEF StorageCalls, NoCall
  <2> HIDE DEF rec
  <2>4. calls' = [calls EXCEPT ![caller] = rec] BY <1>6 DEF rec
  <2>5. \A i \in 1 .. Len(opens) : opens[i] \notin {"pending", "open", "failed"}
    BY <1>1, <1>6 DEF HandleInv
  <2>6. HandleInv' BY <1>1, <1>2, <1>6, <2>1, <2>2, <2>5 DEF HandleInv
  <2>7. opens' \in Seq(Outcomes) /\ handle' \in 0 .. Len(opens') /\ Len(opens) <= Len(opens') /\ Len(opens') \in Nat
    BY <1>1, <2>1, <2>2
  <2>8. rec.stage # "memory" /\ rec.open \in 1 .. Len(opens') BY <1>1, <2>1, <2>3
  <2>9. StorageTypes' /\ CallsInv' /\ \A c \in Callers \ {caller} : calls'[c] = calls[c]
    BY <1>3, <2>3, <2>4, <2>7, <2>8
  <2> QED BY <1>2, <2>6, <2>9
<1> QED BY <1>1, <1>2, <1>4, <1>5, <1>6 DEF Begin

\* The public operations begin.
LEMMA CallsBegin ==
    ASSUME StorageInv,
           \/ \E w \in Writers, i \in 1 .. MaxMessages : SaveMessage(w, i) \/ DeleteMessage(w, i)
           \/ GetMessages
    PROVE  StorageInv'
<1>1. /\ StorageTypes /\ ReaderTypes /\ HandleInv /\ CallsInv /\ UseInv /\ PagingInv /\ PagesMissNothing
  BY DEF StorageInv
<1>2. CASE \E w \in Writers, i \in 1 .. MaxMessages : SaveMessage(w, i) \/ DeleteMessage(w, i)
  <2>1. PICK w \in Writers, i \in 1 .. MaxMessages : SaveMessage(w, i) \/ DeleteMessage(w, i) BY <1>2
  <2>2. PICK what \in {"save", "delete", "page"} : Begin(w, what, i)
    BY <2>1 DEF SaveMessage, DeleteMessage
  <2>3. w \in Callers /\ i \in 0 .. MaxMessages /\ i \in Numbers /\ Reader \in Callers \ {w}
    BY StorageAssumption DEF Callers, Numbers
  <2>4. /\ StorageTypes' /\ HandleInv' /\ CallsInv' /\ UNCHANGED <<database, memory, fallbackActivated, kept>>
        /\ \A c \in Callers \ {w} : calls'[c] = calls[c]
    BY <1>1, <2>2, <2>3, BeginKeeps
  <2>5. UNCHANGED <<reader, steady>> BY <2>1 DEF SaveMessage, DeleteMessage
  <2>6. ReaderTypes' BY <1>1, <2>3, <2>4, <2>5 DEF ReaderTypes, NoCall, Readers, Numbers
  <2>7. UseInv' /\ PagingInv' /\ PagesMissNothing'
    BY <1>1, <2>4, <2>5 DEF UseInv, InUse, PagingInv, PagesMissNothing
  <2> QED BY <2>4, <2>6, <2>7 DEF StorageInv
<1>3. CASE GetMessages
  <2>1. Reader \in Callers /\ 0 \in 0 .. MaxMessages /\ Reader \notin Writers
    BY StorageAssumption DEF Callers
  <2>2. Begin(Reader, "page", 0) BY <1>3 DEF GetMessages
  <2>3. StorageTypes' /\ HandleInv' /\ CallsInv' /\ UNCHANGED <<database, memory, fallbackActivated, kept>>
    BY <1>1, <2>1, <2>2, BeginKeeps
  <2>4. CASE reader' = [NotPaging EXCEPT !.stage = "paging"] /\ steady' = InUse
    <3>1. /\ reader' \in Readers /\ reader'.stage = "paging" /\ reader'.got = {} /\ reader'.cursor = 0
          /\ ~reader'.twice
      BY <2>4 DEF Readers, NotPaging
    <3>2. InUse \subseteq Numbers BY <1>1 DEF InUse, StorageTypes
    <3>3. ReaderTypes' BY <3>1 DEF ReaderTypes, Readers, Numbers
    <3>4. UseInv' BY <1>1, <2>3, <2>4 DEF UseInv, InUse
    <3>5. PagingInv' BY <2>4, <3>1, <3>2 DEF PagingInv, Numbers
    <3>6. PagesMissNothing' BY <3>1 DEF PagesMissNothing
    <3> QED BY <2>3, <3>3, <3>4, <3>5, <3>6 DEF StorageInv
  <2>5. CASE reader.stage = "paging" /\ UNCHANGED <<reader, steady>>
    <3>1. ReaderTypes' BY <1>1, <2>5 DEF ReaderTypes, NoCall, Readers, Numbers
    <3>2. UseInv' /\ PagingInv' /\ PagesMissNothing'
      BY <1>1, <2>3, <2>5 DEF UseInv, InUse, PagingInv, PagesMissNothing
    <3> QED BY <2>3, <3>1, <3>2 DEF StorageInv
  <2> QED BY <1>3, <2>4, <2>5 DEF GetMessages
<1> QED BY <1>2, <1>3

\* The browser's database opens, fails to, or closes.
LEMMA DatabaseMoves == ASSUME StorageInv, OpenSettles \/ Terminated PROVE StorageInv'
<1>1. /\ StorageTypes /\ ReaderTypes /\ HandleInv /\ CallsInv /\ UseInv /\ PagingInv /\ PagesMissNothing
  BY DEF StorageInv
<1>2. opens \in Seq(Outcomes) /\ Len(opens) \in Nat /\ DOMAIN opens = 1 .. Len(opens)
  BY <1>1 DEF StorageTypes
<1>3. UNCHANGED <<database, memory, fallbackActivated, calls, reader, kept, steady>>
  BY DEF OpenSettles, Terminated
<1>4. ASSUME NEW i \in 1 .. Len(opens), NEW outcome \in Outcomes, opens' = [opens EXCEPT ![i] = outcome],
             handle' \in 0 .. Len(opens)
      PROVE  /\ StorageTypes' /\ CallsInv' /\ Len(opens') = Len(opens)
             /\ \A j \in 1 .. Len(opens) : opens'[j] = IF j = i THEN outcome ELSE opens[j]
  <2>1. opens' \in Seq(Outcomes) /\ Len(opens') = Len(opens) BY <1>2, <1>4
  <2>2. \A j \in 1 .. Len(opens) : opens'[j] = IF j = i THEN outcome ELSE opens[j] BY <1>2, <1>4
  <2>3. StorageTypes' BY <1>1, <1>3, <1>4, <2>1 DEF StorageTypes, Numbers, NoCall, StorageCalls
  <2>4. CallsInv' BY <1>1, <1>3, <2>1 DEF CallsInv
  <2> QED BY <2>1, <2>2, <2>3, <2>4
<1>5. StorageTypes' /\ CallsInv' /\ HandleInv'
  <2>1. CASE OpenSettles
    <3>1. PICK i \in 1 .. Len(opens), outcome \in {"open", "failed"} :
              opens[i] = "pending" /\ opens' = [opens EXCEPT ![i] = outcome]
      BY <1>2, <2>1 DEF OpenSettles
    <3>2. UNCHANGED handle /\ handle \in 0 .. Len(opens) /\ outcome \in Outcomes
      BY <1>1, <2>1 DEF OpenSettles, StorageTypes, Outcomes
    <3>3. /\ StorageTypes' /\ CallsInv' /\ Len(opens') = Len(opens)
          /\ \A j \in 1 .. Len(opens) : opens'[j] = IF j = i THEN outcome ELSE opens[j]
      BY <1>4, <3>1, <3>2
    <3>4. HandleInv' BY <1>1, <1>3, <3>1, <3>2, <3>3 DEF HandleInv
    <3> QED BY <3>3, <3>4
  <2>2. CASE Terminated
    <3>1. PICK i \in 1 .. Len(opens) : opens[i] = "open" /\ opens' = [opens EXCEPT ![i] = "closed"]
      BY <1>2, <2>2 DEF Terminated
    <3>2. handle' = 0 /\ handle' \in 0 .. Len(opens) /\ "closed" \in Outcomes
      BY <1>2, <2>2 DEF Terminated, Outcomes
    <3>3. /\ StorageTypes' /\ CallsInv' /\ Len(opens') = Len(opens)
          /\ \A j \in 1 .. Len(opens) : opens'[j] = IF j = i THEN "closed" ELSE opens[j]
      BY <1>4, <3>1, <3>2
    <3>4. HandleInv' BY <1>1, <1>3, <3>1, <3>2, <3>3 DEF HandleInv
    <3> QED BY <3>3, <3>4
  <2> QED BY <2>1, <2>2
<1>6. ReaderTypes' BY <1>1, <1>3 DEF ReaderTypes, NoCall, Readers, Numbers
<1>7. UseInv' /\ PagingInv' /\ PagesMissNothing'
  BY <1>1, <1>3 DEF UseInv, InUse, PagingInv, PagesMissNothing
<1> QED BY <1>5, <1>6, <1>7 DEF StorageInv

\* An operation that waited for the database has it.
LEMMA ResumeKeeps == ASSUME StorageInv, NEW c \in Callers, Resume(c) PROVE StorageInv'
<1>1. /\ StorageTypes /\ ReaderTypes /\ HandleInv /\ CallsInv /\ UseInv /\ PagingInv /\ PagesMissNothing
  BY DEF StorageInv
<1>2. /\ calls[c].stage = "opening" /\ opens[calls[c].open] # "pending"
      /\ UNCHANGED <<database, memory, opens, reader>>
  BY DEF Resume
<1>3. calls \in [Callers -> StorageCalls] /\ calls[c] \in StorageCalls BY <1>1 DEF StorageTypes
<1>4. /\ calls[c] # NoCall /\ calls[c].what \in {"save", "delete", "page"}
      /\ calls[c].id \in 0 .. MaxMessages /\ calls[c].open \in Nat \ {0}
  BY <1>2, <1>3, CallKinds
<1>5. calls[c].open \in 1 .. Len(opens) BY <1>1, <1>2 DEF CallsInv
<1>6. fallbackActivated \in BOOLEAN /\ handle \in 0 .. Len(opens) /\ Len(opens) \in Nat
  BY <1>1 DEF StorageTypes
<1>7. ASSUME NEW rec \in StorageCalls, calls' = [calls EXCEPT ![c] = rec], rec.id = calls[c].id,
             rec # NoCall, rec.stage = "memory" => fallbackActivated',
             rec.stage \in {"opening", "database"} => rec.open = calls[c].open,
             fallbackActivated => fallbackActivated', fallbackActivated' \in BOOLEAN,
             handle' \in 0 .. Len(opens)
      PROVE  StorageTypes' /\ ReaderTypes' /\ CallsInv'
  <2>1. calls' \in [Callers -> StorageCalls] BY <1>3, <1>7
  <2>2. calls'[c] = rec /\ \A d \in Callers \ {c} : calls'[d] = calls[d] BY <1>3, <1>7
  <2>3. \A w \in Writers : calls'[w] # NoCall => calls'[w].id \in Numbers
    BY <1>1, <1>4, <1>7, <2>2 DEF StorageTypes, Callers
  <2>4. StorageTypes'
    <3>1. Callers' = Callers /\ StorageCalls' = StorageCalls /\ NoCall' = NoCall /\ Numbers' = Numbers
      BY DEF Callers, StorageCalls, NoCall, Numbers
    <3> QED BY <1>1, <1>2, <1>7, <2>1, <2>3, <3>1 DEF StorageTypes
  <2>5. ReaderTypes' BY <1>1, <1>2, <1>4, <2>2 DEF ReaderTypes, NoCall, Readers, Numbers, Callers
  <2>6. CallsInv' BY <1>1, <1>2, <1>5, <1>7, <2>2 DEF CallsInv
  <2> QED BY <2>4, <2>5, <2>6
<1>8. CASE /\ opens[calls[c].open] = "failed" /\ ActivateFallback
           /\ calls' = [calls EXCEPT ![c] = [stage |-> "memory", what |-> @.what, id |-> @.id]]
  <2> DEFINE rec == [stage |-> "memory", what |-> calls[c].what, id |-> calls[c].id]
  <2>1. rec \in StorageCalls /\ rec # NoCall /\ rec.id = calls[c].id /\ rec.stage = "memory"
    BY <1>4 DEF StorageCalls, NoCall
  <2>2. calls' = [calls EXCEPT ![c] = rec] BY <1>8
  <2> HIDE DEF rec
  <2>3. /\ fallbackActivated' = TRUE /\ steady' \subseteq steady
        /\ IF fallbackActivated THEN UNCHANGED <<kept, steady, handle>>
           ELSE kept' = {} /\ steady' = {} /\ handle' = 0
    BY <1>6, <1>8 DEF ActivateFallback
  <2>4. handle' = 0
    BY <1>1, <2>3 DEF HandleInv
  <2>5. StorageTypes' /\ ReaderTypes' /\ CallsInv'
    <3>1. handle' \in 0 .. Len(opens) BY <2>4, <1>6
    <3> QED BY <1>7, <2>1, <2>2, <2>3, <3>1
  <2>6. HandleInv'
    <3>1. \A i \in 1 .. Len(opens) : opens[i] \notin {"pending", "open"}
      <4>1. CASE fallbackActivated BY <4>1, <1>1 DEF HandleInv
      <4>2. CASE ~fallbackActivated
        <5>1. handle = calls[c].open BY <4>2, <1>1, <1>5, <1>8 DEF HandleInv
        <5> QED BY <5>1, <1>1, <1>8 DEF HandleInv
      <4> QED BY <4>1, <4>2
    <3> QED BY <3>1, <1>2, <2>3, <2>4 DEF HandleInv
  <2>7. UseInv' BY <1>1, <1>2, <2>3 DEF UseInv, InUse
  <2>8. PagingInv' /\ PagesMissNothing' BY <1>1, <1>2, <2>3 DEF PagingInv, PagesMissNothing
  <2> QED BY <2>5, <2>6, <2>7, <2>8 DEF StorageInv
<1>9. CASE /\ calls' = [calls EXCEPT ![c].stage = "database"]
           /\ UNCHANGED <<fallbackActivated, handle, kept, steady>>
  <2> DEFINE rec == [calls[c] EXCEPT !.stage = "database"]
  <2>1. /\ rec \in StorageCalls /\ rec # NoCall /\ rec.id = calls[c].id /\ rec.stage = "database"
        /\ rec.open = calls[c].open
    <3>1. calls[c] \in [stage : {"opening", "database"}, what : {"save", "delete", "page"},
                        id : 0 .. MaxMessages, open : Nat \ {0}]
      BY <1>2, <1>3 DEF StorageCalls, NoCall
    <3> QED BY <3>1 DEF StorageCalls, NoCall
  <2>2. calls' = [calls EXCEPT ![c] = rec] BY <1>9
  <2> HIDE DEF rec
  <2>3. StorageTypes' /\ ReaderTypes' /\ CallsInv' BY <1>6, <1>7, <1>9, <2>1, <2>2
  <2>4. HandleInv' BY <1>1, <1>2, <1>9 DEF HandleInv
  <2>5. UseInv' /\ PagingInv' /\ PagesMissNothing'
    BY <1>1, <1>2, <1>9 DEF UseInv, InUse, PagingInv, PagesMissNothing
  <2> QED BY <2>3, <2>4, <2>5 DEF StorageInv
<1> QED BY <1>8, <1>9 DEF Resume

\* What the end of a caller's operation leaves of the types.
LEMMA CallEnds ==
    ASSUME StorageInv, NEW c \in Callers, calls' = [calls EXCEPT ![c] = NoCall],
           UNCHANGED <<opens, handle, fallbackActivated>>,
           database' \subseteq Numbers, memory' \subseteq Numbers
    PROVE  StorageTypes' /\ HandleInv' /\ CallsInv' /\ calls'[c] = NoCall
           /\ \A d \in Callers \ {c} : calls'[d] = calls[d]
<1>1. StorageTypes /\ HandleInv /\ CallsInv BY DEF StorageInv
<1>2. calls \in [Callers -> StorageCalls] /\ NoCall \in StorageCalls
  BY <1>1 DEF StorageTypes, StorageCalls
<1>3. calls'[c] = NoCall /\ \A d \in Callers \ {c} : calls'[d] = calls[d] BY <1>2
<1>4. calls' \in [Callers -> StorageCalls] BY <1>2
<1>5. StorageTypes'
  <2>1. \A w \in Writers : calls'[w] # NoCall => calls'[w].id \in Numbers
    BY <1>1, <1>3 DEF StorageTypes, Callers
  <2>2. Callers' = Callers /\ StorageCalls' = StorageCalls /\ NoCall' = NoCall /\ Numbers' = Numbers
    BY DEF Callers, StorageCalls, NoCall, Numbers
  <2> QED BY <1>1, <1>4, <2>1, <2>2 DEF StorageTypes
<1>6. NoCall.stage = "none" BY DEF NoCall
<1>7. CallsInv' BY <1>1, <1>3, <1>6 DEF CallsInv
<1>8. HandleInv' BY <1>1 DEF HandleInv
<1> QED BY <1>3, <1>5, <1>7, <1>8

\* An operation that waited for a failed open falls back to memory, or rejects.
LEMMA RejectKeeps == ASSUME StorageInv, NEW c \in Callers, Reject(c) PROVE StorageInv'
<1>1. /\ StorageTypes /\ ReaderTypes /\ HandleInv /\ CallsInv /\ UseInv /\ PagingInv /\ PagesMissNothing
  BY DEF StorageInv
<1>2. /\ calls' = [calls EXCEPT ![c] = NoCall]
      /\ reader' = IF c = Reader THEN NotPaging ELSE reader
      /\ UNCHANGED <<database, memory, opens, handle, fallbackActivated, kept, steady>>
  BY DEF Reject
<1>3. /\ StorageTypes' /\ HandleInv' /\ CallsInv' /\ calls'[c] = NoCall
      /\ \A d \in Callers \ {c} : calls'[d] = calls[d]
  BY <1>1, <1>2, CallEnds DEF StorageTypes
<1>4. /\ NotPaging \in Readers /\ NotPaging.stage = "no" /\ ~NotPaging.twice
  BY DEF NotPaging, Readers
<1>5. ReaderTypes' BY <1>1, <1>2, <1>3, <1>4 DEF ReaderTypes, NoCall, Readers, Numbers, Callers
<1>6. UseInv' BY <1>1, <1>2 DEF UseInv, InUse
<1>7. PagingInv' /\ PagesMissNothing'
  BY <1>1, <1>2, <1>4 DEF PagingInv, PagesMissNothing
<1> QED BY <1>3, <1>5, <1>6, <1>7 DEF StorageInv

\* Whoever may use a storage uses the one in use.
LEMMA OnlyTheOneInUse ==
    ASSUME StorageInv, NEW c \in Callers
    PROVE  /\ At(c, "database") => ~fallbackActivated
           /\ At(c, "memory") => fallbackActivated
<1>1. HandleInv /\ CallsInv BY DEF StorageInv
<1>2. ASSUME At(c, "database") PROVE ~fallbackActivated
  <2>1. calls[c].open \in 1 .. Len(opens) /\ opens[calls[c].open] = "open"
    BY <1>1, <1>2 DEF At, CallsInv
  <2> QED BY <1>1, <2>1 DEF HandleInv
<1>3. ASSUME At(c, "memory") PROVE fallbackActivated BY <1>1, <1>3 DEF At, CallsInv
<1> QED BY <1>2, <1>3

\* A save or a deletion is done.
LEMMA WriteKeeps == ASSUME StorageInv, NEW w \in Writers, Write(w) PROVE StorageInv'
<1> DEFINE id == calls[w].id
           saves == calls[w].what = "save"
<1>1. /\ StorageTypes /\ ReaderTypes /\ HandleInv /\ CallsInv /\ UseInv /\ PagingInv /\ PagesMissNothing
  BY DEF StorageInv
<1>2. w \in Callers /\ Reader \in Callers \ {w} BY StorageAssumption DEF Callers
<1>3. calls[w] # NoCall BY DEF Write, At, NoCall
<1>4. id \in Numbers BY <1>1, <1>3 DEF StorageTypes
<1>5. /\ calls' = [calls EXCEPT ![w] = NoCall] /\ UNCHANGED <<opens, handle, fallbackActivated>>
  BY DEF Write
<1>6. /\ \/ ~fallbackActivated /\ UNCHANGED memory
             /\ database' = IF saves THEN database \cup {id} ELSE database \ {id}
         \/ fallbackActivated /\ UNCHANGED database
             /\ memory' = IF saves THEN memory \cup {id} ELSE memory \ {id}
  <2>1. At(w, "database") => ~fallbackActivated BY <1>2, OnlyTheOneInUse
  <2>2. At(w, "memory") => fallbackActivated BY <1>2, OnlyTheOneInUse
  <2> QED BY <2>1, <2>2 DEF Write
<1>7. \/ saves /\ kept' = kept \cup {id} /\ UNCHANGED <<steady, reader>>
      \/ ~saves /\ kept' = kept \ {id} /\ steady' = steady \ {id}
          /\ reader' = IF reader.cursor = id THEN [reader EXCEPT !.gone = TRUE] ELSE reader
  BY DEF Write
<1> HIDE DEF id, saves
<1>8. database' \subseteq Numbers /\ memory' \subseteq Numbers
  BY <1>1, <1>4, <1>6 DEF StorageTypes
<1>9. /\ StorageTypes' /\ HandleInv' /\ CallsInv' /\ calls'[w] = NoCall
      /\ \A d \in Callers \ {w} : calls'[d] = calls[d]
  BY <1>2, <1>5, <1>8, CallEnds
<1>10. InUse' = IF saves THEN InUse \cup {id} ELSE InUse \ {id}
  BY <1>1, <1>5, <1>6 DEF InUse, StorageTypes
<1>11. UseInv' BY <1>1, <1>7, <1>10 DEF UseInv
<1>12. /\ reader' \in Readers /\ reader'.stage = reader.stage /\ reader'.cursor = reader.cursor
       /\ reader'.got = reader.got /\ reader'.twice = reader.twice
       /\ reader.gone => reader'.gone
  <2>1. reader \in Readers BY <1>1 DEF ReaderTypes
  <2>2. [reader EXCEPT !.gone = TRUE] \in Readers BY <2>1 DEF Readers
  <2> QED BY <1>7, <2>1, <2>2 DEF Readers
<1>13. ReaderTypes' BY <1>1, <1>2, <1>9, <1>12 DEF ReaderTypes, NoCall, Readers, Numbers
<1>14. steady' \subseteq steady BY <1>7
<1>15. PagingInv' BY <1>1, <1>12, <1>14 DEF PagingInv
<1>16. PagesMissNothing' BY <1>1, <1>12, <1>14 DEF PagesMissNothing
<1> QED BY <1>9, <1>11, <1>13, <1>15, <1>16 DEF StorageInv

\* A page is read: behind the cursor, in order.
LEMMA ReadPageKeeps == ASSUME StorageInv, ReadPage PROVE StorageInv'
<1>1. /\ StorageTypes /\ ReaderTypes /\ HandleInv /\ CallsInv /\ UseInv /\ PagingInv /\ PagesMissNothing
  BY DEF StorageInv
<1>2. Reader \in Callers BY DEF Callers
<1>3. PICK source : source = InUse OBVIOUS
<1>4. source = IF calls[Reader].stage = "database" THEN database ELSE memory
  BY <1>2, <1>3, OnlyTheOneInUse DEF ReadPage, At, InUse
<1>5. PICK page : page = PageFrom(source, reader.cursor) OBVIOUS
<1> DEFINE rest == Behind(source, reader.cursor)
           cursor == IF page.hasMore THEN LastOf(page.items) ELSE 0
           stage == IF page.hasMore THEN "paging" ELSE "done"
           twice == reader.twice \/ page.items \cap reader.got # {}
           gone == reader.gone \/ (reader.cursor # 0 /\ reader.cursor \notin source)
<1>6. /\ reader' = [reader EXCEPT !.got = reader.got \cup page.items, !.twice = twice,
                                  !.stage = stage, !.gone = gone, !.cursor = cursor,
                                  !.pages = reader.pages + 1]
      /\ calls' = [calls EXCEPT ![Reader] = NoCall]
      /\ UNCHANGED <<database, memory, opens, handle, fallbackActivated, kept, steady>>
  BY <1>4, <1>5 DEF ReadPage, LastOf
<1>7. calls[Reader] # NoCall BY DEF ReadPage, At, NoCall
<1>8. reader \in Readers /\ reader.stage = "paging" BY <1>1, <1>7 DEF ReaderTypes
<1>9. /\ source \subseteq Numbers /\ reader.cursor \in Nat /\ reader.got \subseteq Numbers
      /\ reader.pages \in Nat /\ reader.twice \in BOOLEAN /\ reader.gone \in BOOLEAN
  BY <1>1, <1>3, <1>8 DEF Readers, InUse, StorageTypes
<1>10. /\ page.items \subseteq rest /\ page.hasMore \in BOOLEAN
       /\ ~page.hasMore => page.items = rest
       /\ page.hasMore =>
             /\ LastOf(page.items) \in page.items
             /\ \A i \in page.items : i <= LastOf(page.items)
             /\ \A i \in rest : i <= LastOf(page.items) => i \in page.items
  BY <1>5, <1>9, PageIsBeginning
<1>11. rest \subseteq source /\ \A i \in source : i \in Nat \ {0} BY <1>9, StorageAssumption DEF Behind, Numbers
<1>12. /\ reader.cursor \in source => \A i \in source : i \in rest <=> i > reader.cursor
       /\ reader.cursor \notin source => rest = source
  BY DEF Behind
<1> HIDE DEF rest
<1>13. cursor \in Nat /\ page.items \subseteq Numbers BY <1>9, <1>10, <1>11
<1>14. /\ reader' \in Readers /\ reader'.got = reader.got \cup page.items /\ reader'.twice = twice
       /\ reader'.stage = stage /\ reader'.gone = gone /\ reader'.cursor = cursor
  <2>1. /\ twice \in BOOLEAN /\ gone \in BOOLEAN /\ stage \in {"no", "paging", "done"}
        /\ reader.got \cup page.items \subseteq Numbers
    BY <1>9, <1>13
  <2>2. reader.got \cup page.items \in SUBSET Numbers /\ reader.pages + 1 \in Nat BY <1>9, <1>13
  <2>3. cursor \in Nat BY <1>13
  <2> HIDE DEF twice, gone, stage, cursor
  <2>4. DEFINE got == reader.got \cup page.items
               pages == reader.pages + 1
  <2>5. got \in SUBSET Numbers /\ pages \in Nat BY <2>2
  <2>6. reader' = [reader EXCEPT !.got = got, !.twice = twice, !.stage = stage, !.gone = gone,
                                !.cursor = cursor, !.pages = pages]
    BY <1>6
  <2> HIDE DEF got, pages
  <2>7. /\ reader' \in Readers /\ reader'.got = got /\ reader'.twice = twice
        /\ reader'.stage = stage /\ reader'.gone = gone /\ reader'.cursor = cursor
    BY <1>8, <2>1, <2>3, <2>5, <2>6 DEF Readers
  <2> QED BY <2>7 DEF got
<1>15. /\ StorageTypes' /\ HandleInv' /\ CallsInv' /\ calls'[Reader] = NoCall
  BY <1>1, <1>2, <1>6, CallEnds DEF StorageTypes
<1>16. ReaderTypes' BY <1>14, <1>15 DEF ReaderTypes, NoCall, Readers, Numbers
<1>17. UseInv' BY <1>1, <1>6 DEF UseInv, InUse
<1>18. steady \subseteq source BY <1>1, <1>3 DEF UseInv
<1>19. \A i \in reader.got : i \in Nat \ {0} BY <1>9, StorageAssumption DEF Numbers
<1>20. PagingInv'
  <2>1. ASSUME page.hasMore, NEW i \in steady, i <= cursor PROVE i \in reader.got \cup page.items
    <3>1. i \in source /\ i \in Nat BY <1>11, <1>18
    <3>2. CASE i \in rest BY <2>1, <3>2, <1>10
    <3>3. CASE i \notin rest
      <4>1. i <= reader.cursor BY <3>1, <3>3, <1>9, <1>12
      <4> QED BY <4>1, <1>1, <1>8 DEF PagingInv
    <3> QED BY <3>2, <3>3
  <2>2. ASSUME page.hasMore, ~gone, NEW i \in reader.got \cup page.items PROVE i <= cursor
    <3>1. CASE i \in page.items BY <2>2, <3>1, <1>10
    <3>2. CASE i \in reader.got
      <4>1. i <= reader.cursor BY <2>2, <3>2, <1>1, <1>8 DEF PagingInv
      <4>2. reader.cursor # 0 BY <4>1, <3>2, <1>19
      <4>3. reader.cursor \in source BY <2>2, <4>2
      <4>4. cursor > reader.cursor
        <5>1. cursor \in page.items BY <2>2, <1>10
        <5>2. cursor \in rest /\ cursor \in source BY <5>1, <1>10, <1>11
        <5> HIDE DEF cursor
        <5> QED BY <5>2, <4>3, <1>12
      <4> QED BY <4>1, <4>4, <3>2, <1>9, <1>13, <1>19
    <3> QED BY <2>2, <3>1, <3>2
  <2>3. stage = "paging" <=> page.hasMore BY <1>10
  <2> HIDE DEF stage, gone, cursor, twice
  <2> QED BY <1>6, <1>14, <2>1, <2>2, <2>3 DEF PagingInv
<1>21. PagesMissNothing'
  <2>1. ASSUME ~page.hasMore, NEW i \in steady PROVE i \in reader.got \cup page.items
    <3>1. i \in source /\ i \in Nat BY <1>11, <1>18
    <3>2. CASE i \in rest BY <2>1, <3>2, <1>10
    <3>3. CASE i \notin rest
      <4>1. i <= reader.cursor BY <3>1, <3>3, <1>9, <1>12
      <4> QED BY <4>1, <1>1, <1>8 DEF PagingInv
    <3> QED BY <3>2, <3>3
  <2>2. ASSUME ~gone PROVE ~twice
    <3>1. ~reader.twice BY <2>2, <1>1 DEF PagesMissNothing
    <3>2. ASSUME NEW i \in page.items, i \in reader.got PROVE FALSE
      <4>1. i <= reader.cursor BY <2>2, <3>2, <1>1, <1>8 DEF PagingInv
      <4>2. reader.cursor # 0 BY <4>1, <3>2, <1>19
      <4>3. reader.cursor \in source BY <2>2, <4>2
      <4>4. i > reader.cursor BY <3>2, <4>3, <1>10, <1>11, <1>12
      <4> QED BY <4>1, <4>4, <3>2, <1>9, <1>19
    <3> QED BY <3>1, <3>2
  <2>3. stage = "done" <=> ~page.hasMore BY <1>10
  <2> HIDE DEF stage, gone, cursor, twice
  <2> QED BY <1>6, <1>14, <2>1, <2>2, <2>3 DEF PagesMissNothing
<1> QED BY <1>15, <1>16, <1>17, <1>20, <1>21 DEF StorageInv

\* The invariant holds of a storage nobody has used.
LEMMA StorageStarts == ASSUME StorageInit PROVE StorageInv
<1>1. PICK n \in 0 .. MaxMessages : database = 1 .. n BY DEF StorageInit
<1>2. MaxMessages \in Nat BY StorageAssumption
<1>3. /\ memory = {} /\ opens = <<>> /\ handle = 0 /\ fallbackActivated = FALSE
      /\ calls = [c \in Callers |-> NoCall] /\ reader = NotPaging
      /\ kept = {} /\ steady = {}
  BY DEF StorageInit
<1>4. database \subseteq Numbers BY <1>1, <1>2 DEF Numbers
<1>5. opens \in Seq(Outcomes) /\ Len(opens) = 0 BY <1>3
<1>6. NoCall \in StorageCalls /\ NoCall.stage = "none" BY DEF NoCall, StorageCalls
<1>7. StorageTypes
  <2>1. calls \in [Callers -> StorageCalls] /\ \A w \in Writers : calls[w] = NoCall
    BY <1>3, <1>6 DEF Callers
  <2>2. handle \in 0 .. Len(opens) BY <1>3, <1>5
  <2> QED BY <1>3, <1>4, <1>5, <2>1, <2>2 DEF StorageTypes
<1>8. NotPaging \in Readers /\ NotPaging.stage = "no" /\ ~NotPaging.twice BY DEF NotPaging, Readers
<1>9. ReaderTypes BY <1>3, <1>8 DEF ReaderTypes, Callers
<1>10. HandleInv BY <1>3, <1>5 DEF HandleInv
<1>11. CallsInv BY <1>3, <1>6 DEF CallsInv
<1>12. UseInv /\ PagingInv /\ PagesMissNothing BY <1>3, <1>8 DEF UseInv, PagingInv, PagesMissNothing
<1> QED BY <1>7, <1>9, <1>10, <1>11, <1>12 DEF StorageInv

\* Every step keeps the invariant.
LEMMA StorageKept == ASSUME StorageInv, [StorageNext]_storageVars PROVE StorageInv'
<1>1. CASE \/ \E w \in Writers, i \in 1 .. MaxMessages : SaveMessage(w, i) \/ DeleteMessage(w, i)
           \/ GetMessages
  BY <1>1, CallsBegin
<1>2. CASE \E w \in Writers : Write(w) BY <1>2, WriteKeeps
<1>3. CASE ReadPage BY <1>3, ReadPageKeeps
<1>4. CASE \E c \in Callers : Resume(c) \/ Reject(c) BY <1>4, ResumeKeeps, RejectKeeps
<1>5. CASE OpenSettles \/ Terminated BY <1>5, DatabaseMoves
<1>6. CASE UNCHANGED storageVars
  <2>1. Callers' = Callers /\ StorageCalls' = StorageCalls /\ NoCall' = NoCall /\ Numbers' = Numbers
        /\ Readers' = Readers
    BY DEF Callers, StorageCalls, NoCall, Numbers, Readers
  <2> QED BY <1>6, <2>1 DEF storageVars, StorageInv, StorageTypes, ReaderTypes, HandleInv, CallsInv, UseInv,
                           InUse, PagingInv, PagesMissNothing
<1> QED BY <1>1, <1>2, <1>3, <1>4, <1>5, <1>6 DEF StorageNext

\* indexeddb-storage.ts: what was saved is where operations look for it, over failing opens, the
\* fallback and a database that closes, and a reader that pages misses nothing that was there
\* all the time; for any number of writers and messages and any page size.
THEOREM StorageServesWhatWasSaved == StorageSpec => []ReadsWhatWasSaved
<1>1. StorageInv => ReadsWhatWasSaved
  BY DEF StorageInv, UseInv, ReadsWhatWasSaved, SavedIsFound
<1> QED BY <1>1, StorageStarts, StorageKept, PTL DEF StorageSpec

-------------------------------------------------------------------------------
(* EventBus *)

Dispatches == [topic : Topics, set : Nat, wild : BOOLEAN, running : BOOLEAN,
               rest : Seq(Handlers), owed : SUBSET Handlers]

BusTypes ==
    /\ sets \in Seq(Seq(Handlers)) /\ handlers \in [Topics -> 0 .. Len(sets)]
    /\ onceHandlers \subseteq Handlers
    /\ dispatches \in Seq(Dispatches)
    /\ \A i \in 1 .. Len(dispatches) : dispatches[i].set <= Len(sets)
    /\ asked \in [Topics -> [Handlers -> {"no", "on", "once"}]]

\* A Set belongs to one event, of the events and of the dispatches.
OwnSets ==
    /\ \A t \in Topics, u \in Topics : handlers[t] # 0 /\ handlers[t] = handlers[u] => t = u
    /\ \A i \in 1 .. Len(dispatches), u \in Topics :
          handlers[u] # 0 /\ handlers[u] = dispatches[i].set => u = dispatches[i].topic

\* A handler on which the once flag is set is not also subscribed with on().
FlagInv == \A t \in Topics, h \in onceHandlers : asked[t][h] = "on" => h \in mixed

\* A handler subscribed with on() is in the event's Set.
SubscribedInv ==
    \A t \in Topics \ wiped, h \in Handlers \ mixed :
        asked[t][h] = "on" => handlers[t] # 0 /\ h \in ToSet(sets[handlers[t]])

\* Handlers that are owed a call are still to be called.
OwedInv == \A i \in 1 .. Len(dispatches) : dispatches[i].owed \subseteq ToSet(dispatches[i].rest)

\* A dispatch that has something left to call was made of a Set.
RestInv == \A i \in 1 .. Len(dispatches) : dispatches[i].rest # <<>> => dispatches[i].set # 0

BusInv == BusTypes /\ OwnSets /\ FlagInv /\ SubscribedInv /\ OwedInv /\ RestInv /\ ~skipped

\* Set.delete() takes off no other handler.
LEMMA RemoveFirstKeeps ==
    ASSUME NEW S, NEW s \in Seq(S), NEW e
    PROVE  /\ RemoveFirst(s, e) \in Seq(S)
           /\ \A g \in ToSet(s) : g # e => g \in ToSet(RemoveFirst(s, e))
<1>1. CASE ~\E i \in 1 .. Len(s) : s[i] = e BY <1>1 DEF RemoveFirst
<1>2. CASE \E i \in 1 .. Len(s) : s[i] = e
  <2> DEFINE I == {i \in 1 .. Len(s) : s[i] = e}
  <2>1. Len(s) \in Nat /\ DOMAIN s = 1 .. Len(s) OBVIOUS
  <2>2. I \subseteq Nat /\ I # {} BY <1>2, <2>1
  <2>3. \E x \in I : \A y \in I : x <= y
    <3> HIDE DEF I
    <3> QED BY <2>2, LeastElement
  <2>4. PICK k : k = Min(I) OBVIOUS
  <2>5. k \in I
    <3> HIDE DEF I
    <3> QED BY <2>3, <2>4 DEF Min
  <2>6. k \in 1 .. Len(s) /\ s[k] = e BY <2>5
  <2>7. SelectInSeq(s, LAMBDA v : v = e) = k BY <2>2, <2>4 DEF SelectInSeq
  <2>8. RemoveFirst(s, e) = RemoveAt(s, SelectInSeq(s, LAMBDA v : v = e)) BY <1>2, Zenon DEF RemoveFirst
  <2> DEFINE a == SubSeq(s, 1, k - 1)
             b == SubSeq(s, k + 1, Len(s))
  <2>9. RemoveFirst(s, e) = a \o b BY <2>7, <2>8 DEF RemoveAt
  <2>10. a \in Seq(S) /\ Len(a) = k - 1 /\ \A i \in 1 .. k - 1 : a[i] = s[i] BY <2>1, <2>6
  <2>11. b \in Seq(S) /\ Len(b) = Len(s) - k /\ \A i \in 1 .. Len(s) - k : b[i] = s[k + i]
    <3>1. k + 1 \in Int /\ Len(s) \in Int /\ \A i \in k + 1 .. Len(s) : s[i] \in S BY <2>1, <2>6
    <3>2. /\ b \in Seq(S) /\ Len(b) = IF k + 1 <= Len(s) THEN Len(s) - (k + 1) + 1 ELSE 0
          /\ \A i \in 1 .. Len(s) - (k + 1) + 1 : b[i] = s[k + 1 + i - 1]
      BY <3>1, SubSeqProperties
    <3> HIDE DEF b
    <3>3. Len(b) = Len(s) - k
      <4>1. Len(s) \in Nat /\ k \in Nat /\ k <= Len(s) BY <2>1, <2>6
      <4>2. CASE k + 1 <= Len(s) BY <4>1, <4>2, <3>2
      <4>3. CASE ~(k + 1 <= Len(s))
        <5>1. Len(b) = 0 BY <4>3, <3>2
        <5>2. Len(s) - k = 0 BY <4>1, <4>3
        <5> QED BY <5>1, <5>2
      <4> QED BY <4>2, <4>3
    <3>4. \A i \in 1 .. Len(s) - k : b[i] = s[k + i]
      <4>1. Len(s) - (k + 1) + 1 = Len(s) - k BY <2>1, <2>6
      <4>2. \A i \in 1 .. Len(s) - k : k + 1 + i - 1 = k + i BY <2>1, <2>6
      <4> QED BY <4>1, <4>2, <3>2
    <3> QED BY <3>2, <3>3, <3>4
  <2> HIDE DEF a, b
  <2>12. a \o b \in Seq(S) /\ DOMAIN (a \o b) = 1 .. Len(s) - 1
    <3>1. a \o b \in Seq(S) /\ Len(a \o b) = Len(a) + Len(b) BY <2>10, <2>11
    <3>2. Len(a) + Len(b) = Len(s) - 1 BY <2>1, <2>6, <2>10, <2>11
    <3> QED BY <3>1, <3>2
  <2>13. ASSUME NEW g \in ToSet(s), g # e PROVE g \in ToSet(a \o b)
    <3>1. PICK i \in 1 .. Len(s) : s[i] = g BY <2>1 DEF ToSet
    <3>2. i # k BY <2>6, <2>13, <3>1
    <3>3. CASE i < k
      <4>1. i \in 1 .. k - 1 BY <2>6, <3>3
      <4>2. (a \o b)[i] = a[i] BY <4>1, <2>6, <2>10, <2>11
      <4>a. i \in 1 .. Len(s) - 1 BY <3>3, <2>1, <2>6
      <4>3. i \in DOMAIN (a \o b) BY <4>a, <2>12, Zenon
      <4>4. (a \o b)[i] = g BY <4>1, <4>2, <2>10, <3>1
      <4> QED BY <4>3, <4>4 DEF ToSet
    <3>4. CASE i > k
      <4>1. i - k \in 1 .. Len(s) - k BY <2>6, <3>4
      <4>2. (a \o b)[i - 1] = b[i - k] BY <4>1, <2>1, <2>6, <2>10, <2>11
      <4>3. b[i - k] = s[i] BY <4>1, <2>6, <2>11
      <4>a. i - 1 \in 1 .. Len(s) - 1 BY <3>4, <2>1, <2>6
      <4>4. i - 1 \in DOMAIN (a \o b) BY <4>a, <2>12, Zenon
      <4>5. (a \o b)[i - 1] = g BY <4>2, <4>3, <3>1
      <4> QED BY <4>4, <4>5 DEF ToSet
    <3> QED BY <3>2, <3>3, <3>4, <2>6
  <2> QED BY <2>9, <2>12, <2>13
<1> QED BY <1>1, <1>2

\* The handlers after the one that is called.
LEMMA TailKeeps ==
    ASSUME NEW S, NEW s \in Seq(S), s # <<>>
    PROVE  Tail(s) \in Seq(S) /\ Head(s) \in S /\ ToSet(s) \ {Head(s)} \subseteq ToSet(Tail(s))
<1>1. Len(s) \in Nat \ {0} /\ DOMAIN s = 1 .. Len(s) OBVIOUS
<1>2. /\ Tail(s) \in Seq(S) /\ Head(s) = s[1] /\ s[1] \in S
      /\ DOMAIN Tail(s) = 1 .. Len(s) - 1 /\ \A i \in 1 .. Len(s) - 1 : Tail(s)[i] = s[i + 1]
  BY <1>1
<1>3. ASSUME NEW g \in ToSet(s), g # s[1] PROVE g \in ToSet(Tail(s))
  <2>1. PICK i \in 1 .. Len(s) : s[i] = g BY <1>1 DEF ToSet
  <2>2. i - 1 \in 1 .. Len(s) - 1 BY <1>1, <1>3, <2>1
  <2>3. Tail(s)[i - 1] = g BY <1>2, <2>1, <2>2
  <2> QED BY <1>2, <2>2, <2>3 DEF ToSet
<1> QED BY <1>2, <1>3

\* What DropHandler() leaves, of the events' Sets and of those of the dispatches.
LEMMA DropKeeps ==
    ASSUME BusTypes, NEW t \in Topics, NEW set \in 1 .. Len(sets), NEW h \in Handlers, DropHandler(t, set, h)
    PROVE  /\ sets' \in Seq(Seq(Handlers)) /\ Len(sets') = Len(sets)
           /\ handlers' \in [Topics -> 0 .. Len(sets)]
           /\ \A u \in Topics \ {t} : handlers'[u] = handlers[u]
           /\ handlers'[t] \in {0, handlers[t]}
           /\ \A i \in 1 .. Len(sets), g \in Handlers :
                 g \in ToSet(sets[i]) /\ (i # set \/ g # h) => g \in ToSet(sets'[i])
           /\ \A g \in Handlers \ {h} : g \in ToSet(sets[set]) => handlers'[t] = handlers[t]
<1> DEFINE rest == RemoveFirst(sets[set], h)
<1>1. /\ sets' = [sets EXCEPT ![set] = rest]
      /\ handlers' = IF rest = <<>> THEN [handlers EXCEPT ![t] = 0] ELSE handlers
  BY DEF DropHandler
<1>2. sets \in Seq(Seq(Handlers)) /\ sets[set] \in Seq(Handlers) /\ handlers \in [Topics -> 0 .. Len(sets)]
      /\ Len(sets) \in Nat
  BY DEF BusTypes
<1>3. rest \in Seq(Handlers) /\ \A g \in ToSet(sets[set]) : g # h => g \in ToSet(rest)
  BY <1>2, RemoveFirstKeeps
<1> HIDE DEF rest
<1>4. sets' \in Seq(Seq(Handlers)) /\ Len(sets') = Len(sets) BY <1>1, <1>2, <1>3
<1>5. \A i \in 1 .. Len(sets) : sets'[i] = IF i = set THEN rest ELSE sets[i] BY <1>1, <1>2
<1>6. /\ handlers' \in [Topics -> 0 .. Len(sets)]
      /\ \A u \in Topics \ {t} : handlers'[u] = handlers[u]
      /\ handlers'[t] \in {0, handlers[t]}
  BY <1>1, <1>2
<1>7. ToSet(<<>>) = {} BY DEF ToSet
<1>8. ASSUME NEW g \in Handlers \ {h}, g \in ToSet(sets[set]) PROVE handlers'[t] = handlers[t]
  BY <1>1, <1>3, <1>7, <1>8
<1> QED BY <1>3, <1>4, <1>5, <1>6, <1>8

\* The Sets after on(): h is in the event's, nothing is lost.
LEMMA AddKeeps ==
    ASSUME BusTypes, NEW t \in Topics, NEW h \in Handlers, AddHandler(t, h)
    PROVE  /\ sets' \in Seq(Seq(Handlers)) /\ Len(sets) <= Len(sets') /\ Len(sets) \in Nat /\ Len(sets') \in Nat
           /\ handlers' \in [Topics -> 0 .. Len(sets')]
           /\ \A u \in Topics \ {t} : handlers'[u] = handlers[u]
           /\ handlers'[t] # 0 /\ h \in ToSet(sets'[handlers'[t]])
           /\ \/ handlers'[t] = handlers[t]
              \/ handlers[t] = 0 /\ handlers'[t] > Len(sets)
           /\ \A i \in 1 .. Len(sets), g \in Handlers : g \in ToSet(sets[i]) => g \in ToSet(sets'[i])
<1>1. sets \in Seq(Seq(Handlers)) /\ handlers \in [Topics -> 0 .. Len(sets)] /\ Len(sets) \in Nat
  BY DEF BusTypes
<1>2. CASE handlers[t] = 0
  <2> DEFINE new == <<h>>
  <2>1. sets' = Append(sets, new) /\ handlers' = [handlers EXCEPT ![t] = Len(sets')]
    BY <1>2 DEF AddHandler
  <2>2. new \in Seq(Handlers) /\ h \in ToSet(new)
    <3>1. new \in Seq(Handlers) /\ Len(new) = 1 /\ new[1] = h OBVIOUS
    <3>2. 1 \in DOMAIN new OBVIOUS
    <3> QED BY <3>1, <3>2 DEF ToSet
  <2> HIDE DEF new
  <2>3. /\ sets' \in Seq(Seq(Handlers)) /\ Len(sets') = Len(sets) + 1 /\ sets'[Len(sets) + 1] = new
        /\ \A i \in 1 .. Len(sets) : sets'[i] = sets[i]
    BY <1>1, <2>1, <2>2
  <2>4. /\ handlers' \in [Topics -> 0 .. Len(sets')] /\ handlers'[t] = Len(sets) + 1
        /\ \A u \in Topics \ {t} : handlers'[u] = handlers[u]
    BY <1>1, <2>1, <2>3
  <2> QED BY <1>1, <1>2, <2>2, <2>3, <2>4
<1>3. CASE handlers[t] # 0
  <2> DEFINE set == handlers[t]
             new == IF h \in ToSet(sets[set]) THEN sets[set] ELSE Append(sets[set], h)
  <2>1. sets' = [sets EXCEPT ![set] = new] /\ handlers' = handlers
    BY <1>3 DEF AddHandler
  <2>2. set \in 1 .. Len(sets) /\ sets[set] \in Seq(Handlers) BY <1>1, <1>3
  <2>3. new \in Seq(Handlers) /\ h \in ToSet(new) /\ ToSet(sets[set]) \subseteq ToSet(new)
    <3>1. CASE h \in ToSet(sets[set]) BY <2>2, <3>1
    <3>2. CASE h \notin ToSet(sets[set])
      <4>1. new = Append(sets[set], h) BY <3>2
      <4>2. /\ new \in Seq(Handlers) /\ DOMAIN new = 1 .. Len(sets[set]) + 1
            /\ new[Len(sets[set]) + 1] = h /\ Len(sets[set]) \in Nat
            /\ DOMAIN sets[set] = 1 .. Len(sets[set])
            /\ \A i \in 1 .. Len(sets[set]) : new[i] = sets[set][i]
        BY <4>1, <2>2
      <4> HIDE DEF new
      <4>3. Len(sets[set]) + 1 \in DOMAIN new BY <4>2
      <4>4. 1 .. Len(sets[set]) \subseteq DOMAIN new BY <4>2
      <4> QED BY <4>2, <4>3, <4>4 DEF ToSet
    <3> QED BY <3>1, <3>2
  <2> HIDE DEF new
  <2>4. sets' \in Seq(Seq(Handlers)) /\ Len(sets') = Len(sets) BY <1>1, <2>1, <2>2, <2>3
  <2>5. \A i \in 1 .. Len(sets) : sets'[i] = IF i = set THEN new ELSE sets[i] BY <1>1, <2>1, <2>2
  <2> QED BY <1>1, <1>3, <2>1, <2>2, <2>3, <2>4, <2>5
<1> QED BY <1>2, <1>3

\* on() and once().
LEMMA SubscribingKeeps ==
    ASSUME BusInv, NEW t \in Topics, NEW h \in Handlers, On(t, h) \/ Once(t, h)
    PROVE  BusInv'
<1>1. BusTypes /\ OwnSets /\ FlagInv /\ SubscribedInv /\ OwedInv /\ RestInv /\ ~skipped BY DEF BusInv
<1>2. PICK how \in {"on", "once"} :
          /\ AddHandler(t, h) /\ Asks(t, h, how)
          /\ onceHandlers' = IF how = "once" THEN onceHandlers \cup {h} ELSE onceHandlers
          /\ UNCHANGED <<dispatches, wiped, skipped>>
  BY DEF On, Once, Operation
<1>3. /\ sets' \in Seq(Seq(Handlers)) /\ Len(sets) <= Len(sets') /\ Len(sets) \in Nat /\ Len(sets') \in Nat
      /\ handlers' \in [Topics -> 0 .. Len(sets')]
      /\ \A u \in Topics \ {t} : handlers'[u] = handlers[u]
      /\ handlers'[t] # 0 /\ h \in ToSet(sets'[handlers'[t]])
      /\ \/ handlers'[t] = handlers[t]
         \/ handlers[t] = 0 /\ handlers'[t] > Len(sets)
      /\ \A i \in 1 .. Len(sets), g \in Handlers : g \in ToSet(sets[i]) => g \in ToSet(sets'[i])
  BY <1>1, <1>2, AddKeeps
<1>4. /\ handlers \in [Topics -> 0 .. Len(sets)] /\ asked \in [Topics -> [Handlers -> {"no", "on", "once"}]]
      /\ onceHandlers \subseteq Handlers /\ dispatches \in Seq(Dispatches)
      /\ \A i \in 1 .. Len(dispatches) : dispatches[i].set <= Len(sets) /\ dispatches[i].set \in Nat
  <2>1. \A i \in 1 .. Len(dispatches) : dispatches[i] \in Dispatches BY <1>1 DEF BusTypes
  <2> QED BY <1>1, <2>1 DEF BusTypes, Dispatches
<1>5. /\ asked' = [asked EXCEPT ![t][h] = how]
      /\ mixed' = IF \/ how # "once" /\ h \in onceHandlers
                     \/ how = "once" /\ \E u \in Topics : asked[u][h] # "no"
                  THEN mixed \cup {h} ELSE mixed
  BY <1>2 DEF Asks
<1>6. /\ asked' \in [Topics -> [Handlers -> {"no", "on", "once"}]] /\ asked'[t][h] = how
      /\ \A u \in Topics, g \in Handlers : u # t \/ g # h => asked'[u][g] = asked[u][g]
  BY <1>4, <1>5
<1>7. BusTypes'
  <2>1. \A i \in 1 .. Len(dispatches) : dispatches[i].set <= Len(sets') BY <1>3, <1>4
  <2>2. onceHandlers' \subseteq Handlers BY <1>2, <1>4
  <2> QED BY <1>2, <1>3, <1>4, <1>6, <2>1, <2>2 DEF BusTypes, Dispatches
<1>8. OwnSets'
  <2>1. \A u \in Topics, v \in Topics : handlers'[u] # 0 /\ handlers'[u] = handlers'[v] => u = v
    <3>1. \A u \in Topics : handlers[u] \in 0 .. Len(sets) BY <1>4
    <3>2. ASSUME NEW u \in Topics \ {t}, handlers'[u] # 0 PROVE handlers'[u] # handlers'[t]
      <4>1. handlers'[u] = handlers[u] /\ handlers[u] \in 1 .. Len(sets) BY <3>1, <3>2, <1>3
      <4>2. CASE handlers'[t] = handlers[t] BY <4>1, <4>2, <1>1 DEF OwnSets
      <4>3. CASE handlers'[t] > Len(sets)
        <5>1. handlers[u] <= Len(sets) /\ handlers[u] \in Nat BY <4>1, <1>3
        <5>2. handlers'[t] \in Nat BY <1>3
        <5> QED BY <4>1, <4>3, <5>1, <5>2, <1>3
      <4> QED BY <4>2, <4>3, <1>3
    <3>3. \A u \in Topics \ {t}, v \in Topics \ {t} : handlers'[u] # 0 /\ handlers'[u] = handlers'[v] => u = v
      <4> SUFFICES ASSUME NEW u \in Topics \ {t}, NEW v \in Topics \ {t}, handlers'[u] # 0,
                          handlers'[u] = handlers'[v]
                   PROVE  u = v
        OBVIOUS
      <4>1. handlers'[u] = handlers[u] /\ handlers'[v] = handlers[v]
        BY <1>3
      <4> QED
        BY <1>1, <4>1 DEF OwnSets
    <3> QED BY <3>2, <3>3
  <2>2. \A i \in 1 .. Len(dispatches), u \in Topics :
          handlers'[u] # 0 /\ handlers'[u] = dispatches[i].set => u = dispatches[i].topic
    <3> SUFFICES ASSUME NEW i \in 1 .. Len(dispatches), NEW u \in Topics,
                        handlers'[u] # 0, handlers'[u] = dispatches[i].set
                 PROVE  u = dispatches[i].topic
      OBVIOUS
    <3>1. handlers'[u] = handlers[u]
      <4>1. dispatches[i].set <= Len(sets) /\ dispatches[i].set \in Nat BY <1>4
      <4>2. CASE u = t BY <4>1, <4>2, <1>3
      <4>3. CASE u # t BY <4>3, <1>3
      <4> QED BY <4>2, <4>3
    <3> QED BY <3>1, <1>1 DEF OwnSets
  <2> QED BY <1>2, <2>1, <2>2 DEF OwnSets
<1>9. FlagInv'
  <2> SUFFICES ASSUME NEW u \in Topics, NEW g \in onceHandlers', asked'[u][g] = "on" PROVE g \in mixed'
    BY DEF FlagInv
  <2>1. CASE g # h BY <2>1, <1>1, <1>2, <1>4, <1>5, <1>6 DEF FlagInv
  <2>2. CASE g = h /\ how = "once"
    <3>1. u # t /\ asked[u][h] # "no" BY <2>2, <1>6
    <3> QED BY <2>2, <3>1, <1>5
  <2>3. CASE g = h /\ how = "on" BY <2>3, <1>2, <1>5
  <2> QED BY <2>1, <2>2, <2>3
<1>10. SubscribedInv'
  <2> SUFFICES ASSUME NEW u \in Topics \ wiped, NEW g \in Handlers \ mixed', asked'[u][g] = "on"
               PROVE  handlers'[u] # 0 /\ g \in ToSet(sets'[handlers'[u]])
    BY <1>2 DEF SubscribedInv
  <2>1. CASE u = t /\ g = h BY <2>1, <1>3
  <2>2. CASE u # t \/ g # h
    <3>1. handlers[u] # 0 /\ g \in ToSet(sets[handlers[u]])
      BY <2>2, <1>1, <1>5, <1>6 DEF SubscribedInv
    <3>2. handlers'[u] = handlers[u] /\ handlers[u] \in 1 .. Len(sets) BY <3>1, <1>3, <1>4
    <3> QED BY <3>1, <3>2, <1>3
  <2> QED BY <2>1, <2>2
<1>11. OwedInv' /\ RestInv' /\ ~skipped' BY <1>1, <1>2 DEF OwedInv, RestInv
<1> QED BY <1>7, <1>8, <1>9, <1>10, <1>11 DEF BusInv

\* off(), also of the handler that runs.
LEMMA OffKeeps == ASSUME BusInv, NEW t \in Topics, NEW h \in Handlers, Off(t, h) PROVE BusInv'
<1>1. BusTypes /\ OwnSets /\ FlagInv /\ SubscribedInv /\ OwedInv /\ RestInv /\ ~skipped BY DEF BusInv
<1>2. /\ handlers \in [Topics -> 0 .. Len(sets)] /\ asked \in [Topics -> [Handlers -> {"no", "on", "once"}]]
      /\ onceHandlers \subseteq Handlers /\ dispatches \in Seq(Dispatches) /\ sets \in Seq(Seq(Handlers))
      /\ Len(sets) \in Nat
  BY <1>1 DEF BusTypes
<1>3. /\ \/ handlers[t] = 0 /\ UNCHANGED <<sets, handlers>>
         \/ handlers[t] # 0 /\ DropHandler(t, handlers[t], h)
      /\ UNCHANGED <<onceHandlers, wiped, skipped>>
      /\ asked' = [asked EXCEPT ![t][h] = "no"] /\ mixed \subseteq mixed'
      /\ dispatches' = [i \in DOMAIN dispatches |->
           IF dispatches[i].topic = t THEN [dispatches[i] EXCEPT !.owed = @ \ {h}] ELSE dispatches[i]]
  BY DEF Off, Operation, Asks
<1>4. /\ sets' \in Seq(Seq(Handlers)) /\ Len(sets') = Len(sets)
      /\ handlers' \in [Topics -> 0 .. Len(sets)]
      /\ \A u \in Topics \ {t} : handlers'[u] = handlers[u]
      /\ handlers'[t] \in {0, handlers[t]}
      /\ \A i \in 1 .. Len(sets), g \in Handlers :
            g \in ToSet(sets[i]) /\ (i # handlers[t] \/ g # h) => g \in ToSet(sets'[i])
      /\ \A g \in Handlers \ {h} :
            handlers[t] # 0 /\ g \in ToSet(sets[handlers[t]]) => handlers'[t] = handlers[t]
  <2>1. CASE handlers[t] = 0 BY <2>1, <1>2, <1>3
  <2>2. CASE handlers[t] # 0
    <3>1. handlers[t] \in 1 .. Len(sets) /\ DropHandler(t, handlers[t], h) BY <2>2, <1>2, <1>3
    <3> QED BY <3>1, <1>1, DropKeeps
  <2> QED BY <2>1, <2>2
<1>5. /\ asked' \in [Topics -> [Handlers -> {"no", "on", "once"}]] /\ asked'[t][h] = "no"
      /\ \A u \in Topics, g \in Handlers : u # t \/ g # h => asked'[u][g] = asked[u][g]
  BY <1>2, <1>3
<1>6. \A i \in 1 .. Len(dispatches) : dispatches[i] \in Dispatches BY <1>2
<1>7. /\ dispatches' \in Seq(Dispatches) /\ Len(dispatches') = Len(dispatches)
      /\ \A i \in 1 .. Len(dispatches) :
            /\ dispatches'[i].topic = dispatches[i].topic /\ dispatches'[i].set = dispatches[i].set
            /\ dispatches'[i].rest = dispatches[i].rest /\ dispatches'[i].owed \subseteq dispatches[i].owed
  <2>1. ASSUME NEW i \in 1 .. Len(dispatches)
        PROVE  /\ dispatches'[i] \in Dispatches
               /\ dispatches'[i].topic = dispatches[i].topic /\ dispatches'[i].set = dispatches[i].set
               /\ dispatches'[i].rest = dispatches[i].rest /\ dispatches'[i].owed \subseteq dispatches[i].owed
    <3>1. dispatches[i].owed \ {h} \in SUBSET dispatches[i].owed OBVIOUS
    <3>2. PICK left \in SUBSET dispatches[i].owed : dispatches'[i] = [dispatches[i] EXCEPT !.owed = left]
      <4>1. DOMAIN dispatches = 1 .. Len(dispatches) BY <1>2
      <4>2. CASE dispatches[i].topic = t BY <4>1, <4>2, <3>1, <1>3
      <4>3. CASE dispatches[i].topic # t
        <5>1. dispatches'[i] = dispatches[i] BY <4>1, <4>3, <1>3
        <5>2. dispatches[i] = [dispatches[i] EXCEPT !.owed = dispatches[i].owed] BY <1>6 DEF Dispatches
        <5> QED BY <5>1, <5>2
      <4> QED BY <4>2, <4>3
    <3>3. PICK d \in Dispatches : d = dispatches[i] BY <1>6
    <3>4. PICK e : e = dispatches'[i] OBVIOUS
    <3>5. PICK o \in SUBSET d.owed : e = [d EXCEPT !.owed = o] BY <3>2, <3>3, <3>4
    <3>6. e \in Dispatches /\ e.topic = d.topic /\ e.set = d.set /\ e.rest = d.rest /\ e.owed = o
      <4>1. o \in SUBSET Handlers BY DEF Dispatches
      <4> QED BY <4>1, <3>5 DEF Dispatches
    <3> QED BY <3>3, <3>4, <3>5, <3>6
  <2>2. DOMAIN dispatches = 1 .. Len(dispatches) /\ Len(dispatches) \in Nat BY <1>2
  <2>3. dispatches' \in [1 .. Len(dispatches) -> Dispatches] BY <1>3, <2>1, <2>2
  <2> QED BY <2>1, <2>2, <2>3
<1>8. BusTypes' BY <1>1, <1>2, <1>3, <1>4, <1>5, <1>7 DEF BusTypes, Dispatches
<1>9. OwnSets'
  <2>1. \A u \in Topics : handlers'[u] # 0 => handlers'[u] = handlers[u] BY <1>4
  <2>2. \A u \in Topics, v \in Topics : handlers'[u] # 0 /\ handlers'[u] = handlers'[v] => u = v
    BY <2>1, <1>1 DEF OwnSets
  <2>3. \A i \in 1 .. Len(dispatches'), u \in Topics :
          handlers'[u] # 0 /\ handlers'[u] = dispatches'[i].set => u = dispatches'[i].topic
    BY <2>1, <1>1, <1>7 DEF OwnSets
  <2> QED BY <2>2, <2>3 DEF OwnSets
<1>10. FlagInv'
  <2> SUFFICES ASSUME NEW u \in Topics, NEW g \in onceHandlers, asked'[u][g] = "on" PROVE g \in mixed'
    BY <1>3 DEF FlagInv
  <2> QED BY <1>1, <1>2, <1>3, <1>5 DEF FlagInv
<1>11. SubscribedInv'
  <2> SUFFICES ASSUME NEW u \in Topics \ wiped, NEW g \in Handlers \ mixed', asked'[u][g] = "on"
               PROVE  handlers'[u] # 0 /\ g \in ToSet(sets'[handlers'[u]])
    BY <1>3 DEF SubscribedInv
  <2>1. (u # t \/ g # h) /\ asked[u][g] = "on" BY <1>5
  <2>2. handlers[u] # 0 /\ g \in ToSet(sets[handlers[u]]) /\ handlers[u] \in 1 .. Len(sets)
    BY <2>1, <1>1, <1>2, <1>3 DEF SubscribedInv
  <2>3. handlers'[u] = handlers[u] BY <2>1, <2>2, <1>4
  <2>4. handlers[u] # handlers[t] \/ g # h BY <2>1, <2>2, <1>1 DEF OwnSets
  <2> QED BY <2>2, <2>3, <2>4, <1>4
<1>12. OwedInv' BY <1>1, <1>7 DEF OwedInv
<1>13. RestInv' BY <1>1, <1>7 DEF RestInv
<1> QED BY <1>1, <1>3, <1>8, <1>9, <1>10, <1>11, <1>12, <1>13 DEF BusInv

\* clear().
LEMMA ClearKeeps == ASSUME BusInv, Clear PROVE BusInv'
<1>1. BusTypes /\ OwnSets /\ FlagInv /\ SubscribedInv /\ OwedInv /\ RestInv /\ ~skipped BY DEF BusInv
<1>2. onceHandlers \subseteq Handlers /\ dispatches \in Seq(Dispatches) /\ Len(sets) \in Nat
      /\ sets \in Seq(Seq(Handlers))
  BY <1>1 DEF BusTypes
<1>3. /\ handlers' = [t \in Topics |-> 0] /\ asked' = [t \in Topics |-> [h \in Handlers |-> "no"]]
      /\ dispatches' = [i \in DOMAIN dispatches |-> [dispatches[i] EXCEPT !.owed = {}]]
      /\ UNCHANGED <<sets, onceHandlers, wiped, skipped>>
  BY DEF Clear, Operation
<1>4. \A i \in 1 .. Len(dispatches) : dispatches[i] \in Dispatches BY <1>2
<1>5. /\ dispatches' \in Seq(Dispatches) /\ Len(dispatches') = Len(dispatches)
      /\ \A i \in 1 .. Len(dispatches) :
            /\ dispatches'[i].topic = dispatches[i].topic /\ dispatches'[i].set = dispatches[i].set
            /\ dispatches'[i].rest = dispatches[i].rest /\ dispatches'[i].owed = {}
  <2>1. ASSUME NEW i \in 1 .. Len(dispatches)
        PROVE  /\ dispatches'[i] \in Dispatches
               /\ dispatches'[i].topic = dispatches[i].topic /\ dispatches'[i].set = dispatches[i].set
               /\ dispatches'[i].rest = dispatches[i].rest /\ dispatches'[i].owed = {}
    <3>1. PICK d \in Dispatches : d = dispatches[i] BY <1>4
    <3>2. i \in DOMAIN dispatches BY <1>2
    <3>3. dispatches'[i] = [d EXCEPT !.owed = {}] BY <3>1, <3>2, <1>3
    <3>5. PICK e : e = dispatches'[i] OBVIOUS
    <3>6. e \in Dispatches /\ e.topic = d.topic /\ e.set = d.set /\ e.rest = d.rest /\ e.owed = {}
      BY <3>3, <3>5 DEF Dispatches
    <3> QED BY <3>1, <3>5, <3>6
  <2>2. DOMAIN dispatches = 1 .. Len(dispatches) /\ Len(dispatches) \in Nat BY <1>2
  <2>3. dispatches' \in [1 .. Len(dispatches) -> Dispatches] BY <1>3, <2>1, <2>2
  <2> QED BY <2>1, <2>2, <2>3
<1>6. BusTypes' BY <1>1, <1>2, <1>3, <1>5 DEF BusTypes, Dispatches
<1>7. OwnSets' /\ FlagInv' /\ SubscribedInv' BY <1>2, <1>3, <1>5 DEF OwnSets, FlagInv, SubscribedInv
<1>8. OwedInv' /\ RestInv' BY <1>1, <1>5 DEF OwedInv, RestInv
<1> QED BY <1>1, <1>3, <1>6, <1>7, <1>8 DEF BusInv

\* A delivery owes calls only to handlers it is about to make.
LEMMA DeliveryIsOwed ==
    ASSUME BusTypes, SubscribedInv, NEW t \in Topics, NEW wild \in BOOLEAN,
           NEW d, d = Delivery(t, wild)
    PROVE  /\ d \in Dispatches /\ d.topic = t /\ d.set = handlers[t]
           /\ d.owed \subseteq ToSet(d.rest) /\ (d.rest # <<>> => d.set # 0)
           /\ d.set <= Len(sets)
<1>2. /\ sets \in Seq(Seq(Handlers)) /\ handlers[t] \in 0 .. Len(sets) /\ Len(sets) \in Nat
  BY DEF BusTypes
<1> DEFINE rest == IF handlers[t] = 0 THEN <<>> ELSE sets[handlers[t]]
           owed == IF t \in wiped THEN {} ELSE {h \in Handlers : asked[t][h] = "on" /\ h \notin mixed}
<1>3. d = [topic |-> t, set |-> handlers[t], wild |-> wild, running |-> FALSE, rest |-> rest, owed |-> owed]
  BY DEF Delivery
<1>4. rest \in Seq(Handlers)
  <2>1. <<>> \in Seq(Handlers) OBVIOUS
  <2>2. CASE handlers[t] = 0 BY <2>1, <2>2
  <2>3. CASE handlers[t] # 0 BY <2>3, <1>2
  <2> QED BY <2>2, <2>3
<1>5. owed \in SUBSET Handlers OBVIOUS
<1>6. owed \subseteq ToSet(rest) BY DEF SubscribedInv
<1>7. rest # <<>> => handlers[t] # 0 OBVIOUS
<1> HIDE DEF rest, owed
<1>8. handlers[t] \in Nat /\ FALSE \in BOOLEAN BY <1>2
<1>9. d \in Dispatches BY <1>3, <1>4, <1>5, <1>8 DEF Dispatches
<1> QED BY <1>2, <1>3, <1>6, <1>7, <1>9

\* emit(), also from a handler that runs: a dispatch on top.
LEMMA EmitKeeps == ASSUME BusInv, NEW t \in Topics, Emit(t) PROVE BusInv'
<1>1. BusTypes /\ OwnSets /\ FlagInv /\ SubscribedInv /\ OwedInv /\ RestInv /\ ~skipped BY DEF BusInv
<1>2. PICK d : d = Delivery(t, t \in Customs) OBVIOUS
<1>3. /\ dispatches' = Append(dispatches, d)
      /\ UNCHANGED <<sets, handlers, onceHandlers, asked, mixed, wiped, skipped>>
  BY <1>2 DEF Emit
<1>4. /\ d \in Dispatches /\ d.topic = t /\ d.set = handlers[t]
      /\ d.owed \subseteq ToSet(d.rest) /\ (d.rest # <<>> => d.set # 0) /\ d.set <= Len(sets)
  <2>1. (t \in Customs) \in BOOLEAN OBVIOUS
  <2> QED BY <1>1, <1>2, <2>1, DeliveryIsOwed
<1>5. dispatches \in Seq(Dispatches) /\ Len(dispatches) \in Nat BY <1>1 DEF BusTypes
<1>6. /\ dispatches' \in Seq(Dispatches) /\ Len(dispatches') = Len(dispatches) + 1
      /\ dispatches'[Len(dispatches) + 1] = d
      /\ \A i \in 1 .. Len(dispatches) : dispatches'[i] = dispatches[i]
  BY <1>3, <1>4, <1>5
<1>7. BusTypes'
  <2>1. \A i \in 1 .. Len(dispatches') : dispatches'[i].set <= Len(sets) BY <1>1, <1>4, <1>5, <1>6 DEF BusTypes
  <2> QED BY <1>1, <1>3, <1>6, <2>1 DEF BusTypes, Dispatches
<1>8. OwnSets' BY <1>1, <1>3, <1>4, <1>5, <1>6 DEF OwnSets
<1>9. FlagInv' /\ SubscribedInv' BY <1>1, <1>3 DEF FlagInv, SubscribedInv
<1>10. OwedInv' BY <1>1, <1>4, <1>5, <1>6 DEF OwedInv
<1>11. RestInv' BY <1>1, <1>4, <1>5, <1>6 DEF RestInv
<1> QED BY <1>1, <1>3, <1>7, <1>8, <1>9, <1>10, <1>11 DEF BusInv

\* The dispatches below the topmost.
LEMMA BelowKeeps ==
    ASSUME dispatches \in Seq(Dispatches), dispatches # <<>>
    PROVE  /\ Below \in Seq(Dispatches) /\ Len(Below) = Len(dispatches) - 1
           /\ \A i \in 1 .. Len(dispatches) - 1 : Below[i] = dispatches[i]
<1>1. Len(dispatches) \in Nat \ {0} /\ 1 \in Int /\ Len(dispatches) - 1 \in Int OBVIOUS
<1>2. \A i \in 1 .. Len(dispatches) - 1 : dispatches[i] \in Dispatches BY <1>1
<1>3. /\ Below \in Seq(Dispatches)
      /\ Len(Below) = IF 1 <= Len(dispatches) - 1 THEN Len(dispatches) - 1 - 1 + 1 ELSE 0
      /\ \A i \in 1 .. Len(dispatches) - 1 - 1 + 1 : Below[i] = dispatches[1 + i - 1]
  BY <1>1, <1>2, SubSeqProperties DEF Below
<1>4. Len(dispatches) - 1 - 1 + 1 = Len(dispatches) - 1 BY <1>1
<1>5. \A i \in 1 .. Len(dispatches) - 1 : 1 + i - 1 = i BY <1>1
<1>6. Len(Below) = Len(dispatches) - 1
  <2>1. PICK n \in Nat \ {0} : n = Len(dispatches) BY <1>1
  <2>2. PICK m : m = Len(Below) OBVIOUS
  <2>3. m = IF 1 <= n - 1 THEN n - 1 - 1 + 1 ELSE 0 BY <2>1, <2>2, <1>3
  <2>4. m = n - 1 BY <2>1, <2>3
  <2> QED BY <2>1, <2>2, <2>4
<1> QED BY <1>3, <1>4, <1>5, <1>6

\* The topmost dispatch has called all its handlers.
LEMMA DeliveredKeeps == ASSUME BusInv, Delivered PROVE BusInv'
<1>1. BusTypes /\ OwnSets /\ FlagInv /\ SubscribedInv /\ OwedInv /\ RestInv /\ ~skipped BY DEF BusInv
<1>2. /\ dispatches # <<>> /\ Top.rest = <<>>
      /\ dispatches' = IF Top.wild THEN Append(Below, Delivery(Wildcard, FALSE)) ELSE Below
      /\ skipped' = (skipped \/ Top.owed # {})
      /\ UNCHANGED <<sets, handlers, onceHandlers, asked, mixed, wiped>>
  BY DEF Delivered
<1>3. /\ dispatches \in Seq(Dispatches) /\ Len(dispatches) \in Nat \ {0} BY <1>1, <1>2 DEF BusTypes
<1>4. /\ Below \in Seq(Dispatches) /\ Len(Below) = Len(dispatches) - 1
      /\ \A i \in 1 .. Len(dispatches) - 1 : Below[i] = dispatches[i]
  BY <1>3, BelowKeeps
<1>5. ~skipped'
  <2>1. Top.owed \subseteq ToSet(Top.rest) BY <1>1, <1>3 DEF OwedInv, Top
  <2>2. ToSet(<<>>) = {} BY DEF ToSet
  <2> QED BY <2>1, <2>2, <1>1, <1>2
<1>6. /\ dispatches' \in Seq(Dispatches)
      /\ \A i \in 1 .. Len(dispatches') :
            LET d == dispatches'[i]
            IN  \/ \E j \in 1 .. Len(dispatches) : d = dispatches[j]
                \/ /\ d.topic \in Topics /\ d.set = handlers[d.topic]
                   /\ d.owed \subseteq ToSet(d.rest) /\ (d.rest # <<>> => d.set # 0) /\ d.set <= Len(sets)
  <2>1. CASE ~Top.wild BY <2>1, <1>2, <1>3, <1>4
  <2>2. CASE Top.wild
    <3>1. PICK d : d = Delivery(Wildcard, FALSE) OBVIOUS
    <3>2. Wildcard \in Topics /\ FALSE \in BOOLEAN BY BusAssumption
    <3>3. /\ d \in Dispatches /\ d.topic = Wildcard /\ d.set = handlers[Wildcard]
          /\ d.owed \subseteq ToSet(d.rest) /\ (d.rest # <<>> => d.set # 0) /\ d.set <= Len(sets)
      BY <1>1, <3>1, <3>2, DeliveryIsOwed
    <3>4. dispatches' = Append(Below, d) BY <2>2, <1>2, <3>1
    <3>5. /\ dispatches' \in Seq(Dispatches) /\ Len(dispatches') = Len(dispatches)
          /\ dispatches'[Len(dispatches)] = d
          /\ \A i \in 1 .. Len(dispatches) - 1 : dispatches'[i] = dispatches[i]
      BY <3>3, <3>4, <1>3, <1>4
    <3>6. \A i \in 1 .. Len(dispatches) : i = Len(dispatches) \/ i \in 1 .. Len(dispatches) - 1 BY <1>3
    <3> QED BY <3>2, <3>3, <3>5, <3>6
  <2> QED BY <2>1, <2>2
<1>7. BusTypes'
  <2>1. \A i \in 1 .. Len(dispatches') : dispatches'[i].set <= Len(sets) BY <1>1, <1>6 DEF BusTypes
  <2> QED BY <1>1, <1>2, <1>6, <2>1 DEF BusTypes, Dispatches
<1>8. OwnSets'
  <2>1. \A i \in 1 .. Len(dispatches'), u \in Topics :
           handlers[u] # 0 /\ handlers[u] = dispatches'[i].set => u = dispatches'[i].topic
    BY <1>1, <1>6 DEF OwnSets
  <2> QED BY <2>1, <1>1, <1>2 DEF OwnSets
<1>9. FlagInv' /\ SubscribedInv' BY <1>1, <1>2 DEF FlagInv, SubscribedInv
<1>10. OwedInv' BY <1>1, <1>6 DEF OwedInv
<1>11. RestInv' BY <1>1, <1>6 DEF RestInv
<1> QED BY <1>5, <1>7, <1>8, <1>9, <1>10, <1>11 DEF BusInv

\* The topmost dispatch calls its next handler.
LEMMA CallKeeps == ASSUME BusInv, Call PROVE BusInv'
<1>1. BusTypes /\ OwnSets /\ FlagInv /\ SubscribedInv /\ OwedInv /\ RestInv /\ ~skipped BY DEF BusInv
<1>2. dispatches \in Seq(Dispatches) /\ Len(dispatches) \in Nat \ {0} /\ Top.rest # <<>>
      /\ dispatches # <<>>
  BY <1>1 DEF BusTypes, Call
<1> DEFINE n == Len(dispatches)
           t == Top.topic
           h == Head(Top.rest)
           tail == Tail(Top.rest)
           owed == Top.owed \ {h}
           new == [Top EXCEPT !.rest = tail, !.running = TRUE, !.owed = owed]
<1>3. /\ IF h \in onceHandlers THEN DropHandler(t, Top.set, h) ELSE UNCHANGED <<sets, handlers>>
      /\ wiped' = IF handlers'[t] = 0 /\ handlers[t] \notin {0, Top.set} THEN wiped \cup {t} ELSE wiped
      /\ onceHandlers' = onceHandlers \ {h}
      /\ dispatches' = Append(Below, new)
      /\ UNCHANGED <<asked, mixed, skipped>>
  BY DEF Call, Remaining
<1>4. /\ Top = dispatches[n] /\ Top \in Dispatches /\ t \in Topics /\ Top.rest \in Seq(Handlers)
      /\ Top.owed \subseteq Handlers
  <2>1. Top = dispatches[n] /\ n \in 1 .. Len(dispatches) BY <1>2 DEF Top
  <2>2. Top \in Dispatches BY <1>2, <2>1
  <2> QED BY <2>1, <2>2 DEF Dispatches
<1>5. /\ tail \in Seq(Handlers) /\ h \in Handlers /\ ToSet(Top.rest) \ {h} \subseteq ToSet(tail)
  BY <1>2, <1>4, TailKeeps
<1>6. Top.set # 0 /\ Top.set \in Nat /\ Top.set <= Len(sets) /\ Top.owed \subseteq ToSet(Top.rest)
  <2>1. n \in 1 .. Len(dispatches) BY <1>2
  <2>2. Top.set \in Nat BY <1>4 DEF Dispatches
  <2> QED BY <1>1, <1>2, <1>4, <2>1, <2>2 DEF RestInv, OwedInv, BusTypes
<1>7. owed \in SUBSET Handlers /\ owed \subseteq ToSet(tail) BY <1>4, <1>5, <1>6
<1> HIDE DEF owed, tail, h
<1>8. /\ new \in Dispatches /\ new.topic = t /\ new.set = Top.set /\ new.rest = tail /\ new.owed = owed
  <2>1. TRUE \in BOOLEAN OBVIOUS
  <2> QED BY <2>1, <1>4, <1>5, <1>7 DEF Dispatches
<1> HIDE DEF new
<1>9. /\ dispatches' \in Seq(Dispatches) /\ Len(dispatches') = n /\ dispatches'[n] = new
      /\ \A i \in 1 .. n - 1 : dispatches'[i] = dispatches[i]
  BY <1>2, <1>3, <1>8, BelowKeeps
<1>10. \A i \in 1 .. n :
          /\ dispatches'[i].topic = dispatches[i].topic /\ dispatches'[i].set = dispatches[i].set
          /\ dispatches'[i].owed \subseteq ToSet(dispatches'[i].rest)
          /\ dispatches'[i].rest # <<>> => dispatches'[i].set # 0
          /\ dispatches'[i].set <= Len(sets)
  <2>1. \A i \in 1 .. n : i = n \/ i \in 1 .. n - 1 BY <1>2
  <2>2. \A i \in 1 .. n - 1 : i \in 1 .. n BY <1>2
  <2> QED BY <2>1, <2>2, <1>1, <1>4, <1>6, <1>7, <1>8, <1>9 DEF OwedInv, RestInv, BusTypes
<1> HIDE DEF n
<1>11. /\ sets \in Seq(Seq(Handlers)) /\ handlers \in [Topics -> 0 .. Len(sets)] /\ Len(sets) \in Nat
       /\ onceHandlers \subseteq Handlers /\ asked \in [Topics -> [Handlers -> {"no", "on", "once"}]]
  BY <1>1 DEF BusTypes
<1>12. /\ sets' \in Seq(Seq(Handlers)) /\ Len(sets') = Len(sets)
       /\ handlers' \in [Topics -> 0 .. Len(sets)]
       /\ \A u \in Topics \ {t} : handlers'[u] = handlers[u]
       /\ handlers'[t] \in {0, handlers[t]}
       /\ \A i \in 1 .. Len(sets), g \in Handlers :
             g \in ToSet(sets[i]) /\ (i # Top.set \/ g # h \/ h \notin onceHandlers) => g \in ToSet(sets'[i])
       /\ \A g \in Handlers : g \in ToSet(sets[Top.set]) /\ (g # h \/ h \notin onceHandlers)
                                => handlers'[t] = handlers[t]
  <2>1. CASE h \notin onceHandlers BY <2>1, <1>3, <1>11
  <2>2. CASE h \in onceHandlers
    <3>1. Top.set \in 1 .. Len(sets) /\ DropHandler(t, Top.set, h) BY <2>2, <1>3, <1>6, <1>11
    <3>2. t \in Topics /\ h \in Handlers BY <1>4, <1>5
    <3> HIDE DEF t
    <3> QED BY <2>2, <3>1, <3>2, <1>1, DropKeeps
  <2> QED BY <2>1, <2>2
<1> HIDE DEF t
<1>13. BusTypes'
  <2>1. onceHandlers' \subseteq Handlers BY <1>3, <1>11
  <2>2. \A i \in 1 .. Len(dispatches') : dispatches'[i].set <= Len(sets') BY <1>9, <1>10, <1>12
  <2> QED BY <1>3, <1>9, <1>11, <1>12, <2>1, <2>2 DEF BusTypes, Dispatches
<1>14. OwnSets'
  <2>1. \A u \in Topics : handlers'[u] # 0 => handlers'[u] = handlers[u] BY <1>12
  <2>2. \A u \in Topics, v \in Topics : handlers'[u] # 0 /\ handlers'[u] = handlers'[v] => u = v
    BY <2>1, <1>1 DEF OwnSets
  <2>3. \A i \in 1 .. Len(dispatches'), u \in Topics :
          handlers'[u] # 0 /\ handlers'[u] = dispatches'[i].set => u = dispatches'[i].topic
    BY <2>1, <1>1, <1>9, <1>10 DEF OwnSets, n
  <2> QED BY <2>2, <2>3 DEF OwnSets
<1>15. FlagInv' BY <1>1, <1>3 DEF FlagInv
<1>16. SubscribedInv'
  <2> SUFFICES ASSUME NEW u \in Topics \ wiped', NEW g \in Handlers \ mixed', asked'[u][g] = "on"
               PROVE  handlers'[u] # 0 /\ g \in ToSet(sets'[handlers'[u]])
    BY DEF SubscribedInv
  <2>1. wiped \subseteq wiped' /\ g \notin mixed /\ asked[u][g] = "on" BY <1>3
  <2>2. handlers[u] # 0 /\ g \in ToSet(sets[handlers[u]]) /\ handlers[u] \in 1 .. Len(sets)
    BY <2>1, <1>1, <1>11 DEF SubscribedInv
  <2>3. g # h \/ h \notin onceHandlers BY <2>1, <1>1 DEF FlagInv
  <2>4. handlers'[u] = handlers[u]
    <3>1. CASE u # t BY <3>1, <1>12
    <3>2. CASE u = t /\ handlers[t] = Top.set BY <3>2, <2>2, <2>3, <1>12
    <3>3. CASE u = t /\ handlers[t] # Top.set
      <4>1. u \notin wiped' OBVIOUS
      <4>2. handlers'[t] # 0 BY <4>1, <3>3, <2>2, <1>3
      <4> QED BY <3>3, <4>2, <1>12
    <3> QED BY <3>1, <3>2, <3>3
  <2> QED BY <2>2, <2>3, <2>4, <1>12
<1>17. OwedInv' BY <1>9, <1>10 DEF OwedInv
<1>18. RestInv' BY <1>9, <1>10 DEF RestInv
<1> QED BY <1>1, <1>3, <1>13, <1>14, <1>15, <1>16, <1>17, <1>18 DEF BusInv

\* The invariant holds of an empty bus.
LEMMA BusInitially == BusInit => BusInv
<1> SUFFICES ASSUME BusInit PROVE BusInv OBVIOUS
<1>1. sets = <<>> /\ <<>> \in Seq(Seq(Handlers)) /\ dispatches = <<>> /\ <<>> \in Seq(Dispatches)
      /\ Len(sets) = 0 /\ Len(dispatches) = 0
  BY DEF BusInit
<1>2. /\ handlers = [t \in Topics |-> 0] /\ onceHandlers = {} /\ ~skipped
      /\ asked = [t \in Topics |-> [h \in Handlers |-> "no"]]
  BY DEF BusInit
<1>3. BusTypes BY <1>1, <1>2 DEF BusTypes
<1>4. OwnSets /\ FlagInv /\ SubscribedInv BY <1>1, <1>2 DEF OwnSets, FlagInv, SubscribedInv
<1>5. OwedInv /\ RestInv BY <1>1 DEF OwedInv, RestInv
<1> QED BY <1>2, <1>3, <1>4, <1>5 DEF BusInv

\* Every step keeps the invariant.
LEMMA BusStep == BusInv /\ [BusNext]_busVars => BusInv'
<1> SUFFICES ASSUME BusInv, [BusNext]_busVars PROVE BusInv' OBVIOUS
<1>1. CASE \E t \in Topics, h \in Handlers : On(t, h) \/ Once(t, h) BY <1>1, SubscribingKeeps
<1>2. CASE \E t \in Topics, h \in Handlers : Off(t, h) BY <1>2, OffKeeps
<1>3. CASE \E t \in Topics : Emit(t) BY <1>3, EmitKeeps
<1>4. CASE Clear BY <1>4, ClearKeeps
<1>5. CASE Call BY <1>5, CallKeeps
<1>6. CASE Delivered BY <1>6, DeliveredKeeps
<1>7. CASE UNCHANGED busVars
  BY <1>7 DEF busVars, BusInv, BusTypes, OwnSets, FlagInv, SubscribedInv, OwedInv, RestInv
<1> QED BY <1>1, <1>2, <1>3, <1>4, <1>5, <1>6, <1>7, Zenon DEF BusNext

\* event-bus.ts: an emit reaches every handler that stays subscribed with on() until it returns,
\* whatever the handlers before it do and however emits nest, unless a dispatch of an older Set
\* has thrown away the event's own; for any handlers and events.
THEOREM BusReachesSubscribers == BusSpec => []ReachesSubscribers
<1>1. BusInv => ReachesSubscribers BY DEF BusInv, ReachesSubscribers
<1> QED BY <1>1, BusInitially, BusStep, PTL DEF BusSpec

-------------------------------------------------------------------------------
(* MiddlewarePipeline *)

Events == Seq(Middlewares)

MiddlewareCalls ==
    [mw : Middlewares, event : Events, caller : Nat, nexts : Nat, handed : SUBSET Events, open : BOOLEAN]

RunRecords ==
    [index : Nat, calls : Seq(MiddlewareCalls), outcome : SUBSET Events, bent : BOOLEAN, missed : BOOLEAN]

\* The first n middlewares of the run, as an event carries them.
Carries(event, n, made) ==
    /\ event \in Events /\ Len(event) = n
    /\ \A k \in 1 .. n : event[k] = made[k].mw

StackOK(stk, un) ==
    /\ stk \in Events /\ un \subseteq Middlewares
    /\ \A i, j \in 1 .. Len(stk) : stk[i] = stk[j] => i = j
    /\ \A i \in 1 .. Len(stk) : stk[i] \notin un

\* Whatever a run's middlewares do.
BehindRun(run, stk, un) ==
    /\ \A i \in 1 .. Len(run.calls) :
         /\ run.calls[i].caller < i
         /\ run.calls[i].mw \notin un
         /\ \A p \in 1 .. Len(stk) : stk[p] = run.calls[i].mw => p <= run.index
    /\ \A i, j \in 1 .. Len(run.calls) : run.calls[i].mw = run.calls[j].mw => i = j

\* The calls of a run that was not bent.
Chain(run, stk) ==
    /\ run.index = Len(run.calls) /\ run.index <= Len(stk) /\ ~run.missed
    /\ \A i \in 1 .. Len(run.calls) :
         /\ stk[i] = run.calls[i].mw
         /\ run.calls[i].caller = i - 1
         /\ Carries(run.calls[i].event, i - 1, run.calls)

\* What the ends of its next() calls may have been given, and when they were given nothing.
Given(run) ==
    LET n == Len(run.calls)
        quiet == run.outcome = {} /\ \A i \in 1 .. n : run.calls[i].handed = {}
    IN  /\ \A e \in run.outcome : Carries(e, n, run.calls)
        /\ \A i \in 1 .. n : \A e \in run.calls[i].handed : Carries(e, n, run.calls)
        /\ \A i \in 1 .. n : i < n => run.calls[i].nexts > 0
        /\ n > 0 => (run.calls[n].nexts = 0 => quiet)

RunOK(run, stk, un) ==
    /\ run \in RunRecords
    /\ BehindRun(run, stk, un)
    /\ ~run.bent => Chain(run, stk) /\ Given(run)

PipelineInv ==
    /\ StackOK(stack, unused)
    /\ runs \in [Runs -> RunRecords]
    /\ \A r \in Runs : RunOK(runs[r], stack, unused)

-------------------------------------------------------------------------------
\* A run as it is when next() is called by its last call, which then has called it.
Ready(run, caller, event) ==
    /\ Chain(run, stack)
    /\ caller = Len(run.calls)
    /\ Carries(event, caller, run.calls)
    /\ run.outcome = {}
    /\ \A i \in 1 .. Len(run.calls) : run.calls[i].handed = {} /\ run.calls[i].nexts > 0

\* A run that is at its end resolves next() with the event.
LEMMA ResolvesKeeps ==
    ASSUME NEW run \in RunRecords, NEW caller \in 0 .. Len(run.calls), NEW event \in Events,
           BehindRun(run, stack, unused),
           ~run.bent => /\ Chain(run, stack)
                        /\ Given(run)
                        /\ Carries(event, Len(run.calls), run.calls)
                        /\ Len(run.calls) > 0 => run.calls[Len(run.calls)].nexts > 0
    PROVE  RunOK(Resolves(run, caller, event), stack, unused)
<1> DEFINE new == Resolves(run, caller, event)
<1>1. /\ run.calls \in Seq(MiddlewareCalls) /\ run.outcome \in SUBSET Events
      /\ run = [index |-> run.index, calls |-> run.calls, outcome |-> run.outcome,
                bent |-> run.bent, missed |-> run.missed]
  BY DEF RunRecords
<1>2. /\ new \in RunRecords /\ new.index = run.index /\ new.bent = run.bent
      /\ new.missed = run.missed /\ Len(new.calls) = Len(run.calls)
      /\ new.outcome \subseteq run.outcome \cup {event}
      /\ \A i \in 1 .. Len(run.calls) :
           /\ new.calls[i].mw = run.calls[i].mw /\ new.calls[i].caller = run.calls[i].caller
           /\ new.calls[i].event = run.calls[i].event /\ new.calls[i].nexts = run.calls[i].nexts
           /\ new.calls[i].handed \subseteq run.calls[i].handed \cup {event}
  <2>1. CASE caller = 0
    BY <1>1, <2>1 DEF Resolves, RunRecords
  <2>2. CASE caller # 0
    <3>1. run.calls[caller] \in MiddlewareCalls
      BY <1>1, <2>2
    <3> DEFINE call == [run.calls[caller] EXCEPT !.handed = @ \cup {event}]
    <3>2. call \in MiddlewareCalls
      BY <3>1 DEF MiddlewareCalls
    <3>3. /\ call.mw = run.calls[caller].mw /\ call.caller = run.calls[caller].caller
          /\ call.event = run.calls[caller].event /\ call.nexts = run.calls[caller].nexts
          /\ call.handed = run.calls[caller].handed \cup {event}
      BY <3>1 DEF MiddlewareCalls
    <3>4. new = [run EXCEPT !.calls = [run.calls EXCEPT ![caller] = call]]
      BY <1>1, <2>2 DEF Resolves
    <3> HIDE DEF call, new
    <3>5. /\ new.index = run.index /\ new.bent = run.bent /\ new.missed = run.missed
          /\ new.outcome = run.outcome /\ new.calls = [run.calls EXCEPT ![caller] = call]
      BY <1>1, <3>4
    <3>6. [run.calls EXCEPT ![caller] = call] \in Seq(MiddlewareCalls)
      BY <1>1, <2>2, <3>2
    <3>7. new \in RunRecords
      BY <3>4, <3>6 DEF RunRecords
    <3> QED
      BY <1>1, <2>2, <3>3, <3>5, <3>7
  <2> QED
    BY <2>1, <2>2
<1> HIDE DEF new
<1>3. BehindRun(new, stack, unused)
  BY <1>2 DEF BehindRun
<1>4. ASSUME ~new.bent PROVE Chain(new, stack) /\ Given(new)
  <2>1. Chain(run, stack)
    BY <1>2, <1>4
  <2>2. ASSUME NEW i \in 1 .. Len(run.calls)
        PROVE  /\ stack[i] = new.calls[i].mw
               /\ new.calls[i].caller = i - 1
               /\ Carries(new.calls[i].event, i - 1, new.calls)
    <3>1. /\ stack[i] = run.calls[i].mw /\ run.calls[i].caller = i - 1
          /\ Carries(run.calls[i].event, i - 1, run.calls)
      BY <2>1 DEF Chain
    <3>2. ASSUME NEW k \in 1 .. i - 1 PROVE new.calls[k].mw = run.calls[k].mw
      <4>1. k \in 1 .. Len(run.calls)
        BY <1>1
      <4> QED
        BY <1>2, <4>1
    <3>3. Carries(new.calls[i].event, i - 1, new.calls)
      BY <1>2, <3>1, <3>2 DEF Carries
    <3> QED
      BY <1>2, <3>1, <3>3
  <2>3. Chain(new, stack)
    BY <1>2, <2>1, <2>2 DEF Chain
  <2>4. Given(new)
    BY <1>2, <1>4 DEF Given, Carries
  <2> QED
    BY <2>3, <2>4
<1> QED
  BY <1>2, <1>3, <1>4 DEF RunOK, new

\* A run calls its next middleware.
LEMMA InvokeKeeps ==
    ASSUME StackOK(stack, unused),
           NEW run \in RunRecords, NEW caller \in 0 .. Len(run.calls), NEW event \in Events,
           BehindRun(run, stack, unused),
           ~run.bent => Ready(run, caller, event),
           run.index < Len(stack)
    PROVE  RunOK(Invoke(run, caller, event, stack[run.index + 1]), stack, unused)
<1> DEFINE m == stack[run.index + 1]
           new == Invoke(run, caller, event, m)
           call == [mw |-> m, event |-> event, caller |-> caller,
                    nexts |-> 0, handed |-> {}, open |-> TRUE]
           n == Len(run.calls)
<1>1. /\ run.calls \in Seq(MiddlewareCalls) /\ n \in Nat /\ run.index \in Nat
      /\ run = [index |-> run.index, calls |-> run.calls, outcome |-> run.outcome,
                bent |-> run.bent, missed |-> run.missed]
  BY DEF RunRecords
<1>2. m \in Middlewares /\ m \notin unused
  BY <1>1 DEF StackOK, Events
<1>3. call \in MiddlewareCalls /\ call.mw = m /\ call.event = event /\ call.caller = caller
      /\ call.nexts = 0 /\ call.handed = {}
  BY <1>2 DEF MiddlewareCalls
<1>4. new = [run EXCEPT !.index = run.index + 1, !.calls = Append(run.calls, call)]
  BY DEF Invoke
<1> HIDE DEF call, new, m
<1>5. /\ new.index = run.index + 1 /\ new.calls = Append(run.calls, call)
      /\ new.outcome = run.outcome /\ new.bent = run.bent /\ new.missed = run.missed
  BY <1>1, <1>4
<1>6. new \in RunRecords
  <2>1. Append(run.calls, call) \in Seq(MiddlewareCalls) /\ run.index + 1 \in Nat
    BY <1>1, <1>3
  <2> QED
    BY <1>4, <2>1 DEF RunRecords
<1>7. /\ Len(new.calls) = n + 1 /\ new.calls[n + 1] = call
      /\ \A i \in 1 .. n : new.calls[i] = run.calls[i]
  BY <1>1, <1>3, <1>5
<1>8. \A i \in 1 .. n : run.calls[i].mw # m
  BY <1>1 DEF BehindRun, m
<1>9. BehindRun(new, stack, unused)
  <2>1. ASSUME NEW i \in 1 .. n + 1
        PROVE  /\ new.calls[i].caller < i /\ new.calls[i].mw \notin unused
               /\ \A p \in 1 .. Len(stack) : stack[p] = new.calls[i].mw => p <= new.index
    <3>1. CASE i \in 1 .. n
      BY <1>1, <1>5, <1>7, <3>1 DEF BehindRun
    <3>2. CASE i = n + 1
      <4>1. \A p \in 1 .. Len(stack) : stack[p] = m => p = run.index + 1
        BY <1>1 DEF StackOK, m
      <4> QED
        BY <1>1, <1>2, <1>3, <1>5, <1>7, <3>2, <4>1
    <3> QED
      BY <1>1, <3>1, <3>2
  <2>2. ASSUME NEW i \in 1 .. n + 1, NEW j \in 1 .. n + 1, new.calls[i].mw = new.calls[j].mw
        PROVE  i = j
    <3>1. CASE i \in 1 .. n /\ j \in 1 .. n
      BY <1>7, <2>2, <3>1 DEF BehindRun
    <3>2. CASE i = n + 1 /\ j \in 1 .. n
      BY <1>3, <1>7, <1>8, <2>2, <3>2
    <3>3. CASE j = n + 1 /\ i \in 1 .. n
      BY <1>3, <1>7, <1>8, <2>2, <3>3
    <3> QED
      BY <1>1, <3>1, <3>2, <3>3
  <2> QED
    BY <1>7, <2>1, <2>2 DEF BehindRun
<1>10. ASSUME ~new.bent PROVE Chain(new, stack) /\ Given(new)
  <2>1. Ready(run, caller, event) /\ Chain(run, stack) /\ caller = n /\ run.index = n
        /\ Carries(event, n, run.calls)
    BY <1>5, <1>10 DEF Ready, Chain
  <2>2. \A e, k : k \in 0 .. n /\ Carries(e, k, run.calls) => Carries(e, k, new.calls)
    BY <1>1, <1>7 DEF Carries
  <2>3. ASSUME NEW i \in 1 .. n + 1
        PROVE  /\ stack[i] = new.calls[i].mw /\ new.calls[i].caller = i - 1
               /\ Carries(new.calls[i].event, i - 1, new.calls)
    <3>1. CASE i \in 1 .. n
      <4>1. /\ stack[i] = run.calls[i].mw /\ run.calls[i].caller = i - 1
            /\ Carries(run.calls[i].event, i - 1, run.calls)
        BY <2>1, <3>1 DEF Chain
      <4> QED
        BY <1>1, <1>7, <2>2, <3>1, <4>1
    <3>2. CASE i = n + 1
      BY <1>1, <1>3, <1>7, <2>1, <2>2, <3>2 DEF m
    <3> QED
      BY <1>1, <3>1, <3>2
  <2>4. Chain(new, stack)
    BY <1>1, <1>5, <1>7, <2>1, <2>3 DEF Chain
  <2>5. Given(new)
    BY <1>1, <1>3, <1>5, <1>7, <2>1 DEF Given, Ready
  <2> QED
    BY <2>4, <2>5
<1> QED
  BY <1>6, <1>9, <1>10 DEF RunOK, new, m

\* A run goes on, one way or the other.
LEMMA ProceedKeeps ==
    ASSUME StackOK(stack, unused),
           NEW run \in RunRecords, NEW caller \in 0 .. Len(run.calls), NEW event \in Events,
           BehindRun(run, stack, unused),
           ~run.bent => Ready(run, caller, event)
    PROVE  RunOK(Proceed(run, caller, event), stack, unused)
<1>1. run.index \in Nat /\ Len(stack) \in Nat
  BY DEF RunRecords, StackOK, Events
<1>2. CASE run.index < Len(stack)
  BY <1>1, <1>2, InvokeKeeps DEF Proceed
<1>3. CASE run.index >= Len(stack)
  <2> DEFINE over == [run EXCEPT !.missed = run.missed \/ event # stack]
  <2>1. /\ over \in RunRecords /\ over.index = run.index /\ over.calls = run.calls
        /\ over.outcome = run.outcome /\ (over.bent <=> run.bent)
        /\ over.missed <=> (run.missed \/ event # stack)
    BY DEF RunRecords
  <2>2. Proceed(run, caller, event) = Resolves(over, caller, event)
    BY <1>1, <1>3 DEF Proceed
  <2> HIDE DEF over
  <2>3. BehindRun(over, stack, unused)
    BY <2>1 DEF BehindRun
  <2>4. ASSUME ~over.bent
        PROVE  /\ Chain(over, stack) /\ Given(over)
               /\ Carries(event, Len(over.calls), over.calls)
               /\ Len(over.calls) > 0 => over.calls[Len(over.calls)].nexts > 0
    <3>1. Ready(run, caller, event)
      BY <2>1, <2>4
    <3>2. /\ Chain(run, stack) /\ Carries(event, Len(run.calls), run.calls)
          /\ run.index = Len(stack)
      BY <1>1, <1>3, <3>1 DEF Ready, Chain
    <3>3. event = stack
      BY SMTT(20), <3>2 DEF Chain, Carries, StackOK, Events
    <3>4. Chain(over, stack)
      BY <2>1, <3>2, <3>3 DEF Chain
    <3>5. Given(over)
      BY <2>1, <3>1 DEF Given, Ready
    <3>6. Len(over.calls) \in Nat
      BY <2>1 DEF RunRecords
    <3> QED
      BY <2>1, <3>1, <3>2, <3>4, <3>5, <3>6 DEF Ready
  <2> QED
    BY <2>1, <2>2, <2>3, <2>4, ResolvesKeeps
<1> QED
  BY <1>1, <1>2, <1>3

-------------------------------------------------------------------------------
\* A step of one run.
LEMMA RunsOn ==
    ASSUME PipelineInv, NEW r \in Runs, NEW run, RunOK(run, stack, unused),
           runs' = [runs EXCEPT ![r] = run], UNCHANGED <<stack, unused>>
    PROVE  PipelineInv'
<1>1. run \in RunRecords
  BY DEF RunOK
<1>2. runs' \in [Runs -> RunRecords]
  BY <1>1 DEF PipelineInv
<1>3. ASSUME NEW q \in Runs PROVE RunOK(runs'[q], stack, unused)
  BY DEF PipelineInv
<1> QED
  BY <1>2, <1>3 DEF PipelineInv

\* An event enters the pipeline.
LEMMA RunBegins ==
    ASSUME PipelineInv, NEW r \in Runs, Run(r)
    PROVE  PipelineInv'
<1> DEFINE run == runs[r]
<1>1. run \in RunRecords /\ RunOK(run, stack, unused) /\ StackOK(stack, unused)
  BY DEF PipelineInv
<1>2. run.calls = <<>> /\ run.outcome = {} /\ runs' = [runs EXCEPT ![r] = Proceed(run, 0, <<>>)]
      /\ UNCHANGED <<stack, unused>>
  BY DEF Run
<1> HIDE DEF run
<1>3. ~run.bent => Ready(run, 0, <<>>)
  BY <1>1, <1>2 DEF RunOK, Ready, Chain, Carries, Events
<1>4. RunOK(Proceed(run, 0, <<>>), stack, unused)
  <2>1. Len(run.calls) = 0 /\ <<>> \in Events
    BY <1>2 DEF Events
  <2> QED
    BY <1>1, <1>3, <2>1, ProceedKeeps DEF RunOK
<1> QED
  BY <1>2, <1>4, RunsOn

\* next() of a call: if the run is not bent by it, it was the last call and its first next().
LEMMA CallPassesOn ==
    ASSUME PipelineInv, NEW r \in Runs, NEW i \in DOMAIN runs[r].calls, PassesOn(r, i)
    PROVE  PipelineInv'
<1> DEFINE run == runs[r]
           call == run.calls[i]
           new == Asking(run, i)
           event == Append(call.event, call.mw)
<1>1. run \in RunRecords /\ RunOK(run, stack, unused) /\ StackOK(stack, unused)
  BY DEF PipelineInv
<1>2. runs' = [runs EXCEPT ![r] = Proceed(new, i, event)] /\ UNCHANGED <<stack, unused>>
  BY DEF PassesOn
<1>3. run.calls \in Seq(MiddlewareCalls) /\ i \in 1 .. Len(run.calls) /\ Len(run.calls) \in Nat
  BY <1>1 DEF RunRecords
<1>4. call \in MiddlewareCalls /\ call.nexts \in Nat /\ call.event \in Events /\ call.mw \in Middlewares
  <2>1. call \in MiddlewareCalls
    BY <1>3
  <2> HIDE DEF call
  <2> QED
    BY <2>1 DEF MiddlewareCalls
<1>5. event \in Events /\ Len(event) = Len(call.event) + 1 /\ event[Len(call.event) + 1] = call.mw
      /\ \A k \in 1 .. Len(call.event) : event[k] = call.event[k]
  BY <1>4 DEF Events
<1> DEFINE after == [call EXCEPT !.nexts = call.nexts + 1]
<1>6. /\ after \in MiddlewareCalls /\ after.nexts = call.nexts + 1 /\ after.mw = call.mw
      /\ after.event = call.event /\ after.caller = call.caller /\ after.handed = call.handed
  BY <1>4 DEF MiddlewareCalls
<1>7. /\ new.index = run.index /\ new.outcome = run.outcome /\ new.calls = [run.calls EXCEPT ![i] = after]
      /\ (new.bent <=> run.bent \/ call.nexts > 0 \/ ~call.open)
      /\ (new.missed <=> run.missed)
  BY <1>1 DEF RunRecords, Asking
<1>8. new \in RunRecords
  <2>1. [run.calls EXCEPT ![i] = after] \in Seq(MiddlewareCalls)
    BY <1>3, <1>6
  <2>2. new = [run EXCEPT !.calls = [run.calls EXCEPT ![i] = after],
                          !.bent = run.bent \/ call.nexts > 0 \/ ~call.open]
    BY <1>1 DEF RunRecords, Asking
  <2>3. (run.bent \/ call.nexts > 0 \/ ~call.open) \in BOOLEAN
    OBVIOUS
  <2> HIDE DEF after, new, call
  <2> QED
    BY <1>1, <2>1, <2>2, <2>3 DEF RunRecords
<1> HIDE DEF new, after, run
<1>9. /\ Len(new.calls) = Len(run.calls)
      /\ new.calls[i] = after
      /\ \A j \in 1 .. Len(run.calls) :
           /\ j # i => new.calls[j] = run.calls[j]
           /\ new.calls[j].mw = run.calls[j].mw /\ new.calls[j].caller = run.calls[j].caller
           /\ new.calls[j].event = run.calls[j].event /\ new.calls[j].handed = run.calls[j].handed
  BY <1>3, <1>6, <1>7
<1>10. BehindRun(new, stack, unused)
  BY <1>1, <1>7, <1>9 DEF RunOK, BehindRun
<1>11. ASSUME ~new.bent PROVE Ready(new, i, event)
  <2>1. ~run.bent /\ ~(call.nexts > 0) /\ Chain(run, stack) /\ Given(run)
    BY <1>1, <1>7, <1>11 DEF RunOK
  <2>2. i = Len(run.calls)
    BY <1>3, <2>1 DEF Given
  <2>3. run.outcome = {} /\ \A j \in 1 .. Len(run.calls) : run.calls[j].handed = {}
    BY <1>3, <1>4, <2>1, <2>2 DEF Given
  <2>4. Carries(call.event, i - 1, run.calls)
    BY <1>3, <2>1 DEF Chain
  <2>5. Carries(event, i, new.calls)
    BY <1>3, <1>5, <1>9, <2>2, <2>4 DEF Carries
  <2>6. \A e, k : k \in 0 .. Len(run.calls) /\ Carries(e, k, run.calls) => Carries(e, k, new.calls)
    BY <1>3, <1>9 DEF Carries
  <2>7. Chain(new, stack)
    <3>1. ASSUME NEW j \in 1 .. Len(run.calls)
          PROVE  /\ stack[j] = new.calls[j].mw /\ new.calls[j].caller = j - 1
                 /\ Carries(new.calls[j].event, j - 1, new.calls)
      <4>1. /\ stack[j] = run.calls[j].mw /\ run.calls[j].caller = j - 1
            /\ Carries(run.calls[j].event, j - 1, run.calls)
        BY <2>1 DEF Chain
      <4> QED
        BY <1>3, <1>9, <2>6, <4>1
    <3> QED
      BY <1>7, <1>9, <2>1, <3>1 DEF Chain
  <2>8. ASSUME NEW j \in 1 .. Len(run.calls) PROVE new.calls[j].handed = {} /\ new.calls[j].nexts > 0
    <3>1. CASE j = i
      BY <1>4, <1>6, <1>9, <2>3, <3>1
    <3>2. CASE j # i
      BY <1>3, <1>9, <2>1, <2>2, <2>3, <3>2 DEF Given
    <3> QED
      BY <3>1, <3>2
  <2> QED
    BY <1>7, <1>9, <2>2, <2>3, <2>5, <2>7, <2>8 DEF Ready
<1>12. RunOK(Proceed(new, i, event), stack, unused)
  <2>1. i \in 0 .. Len(new.calls)
    BY <1>3, <1>9
  <2> HIDE DEF event
  <2> QED
    BY <1>1, <1>5, <1>8, <1>10, <1>11, <2>1, ProceedKeeps
<1> QED
  BY <1>2, <1>12, RunsOn DEF run

\* The end of a call changes what is open, and bends the run unless all is well.
LEMMA EndKeeps ==
    ASSUME NEW run \in RunRecords, RunOK(run, stack, unused), NEW i \in 1 .. Len(run.calls),
           NEW well \in BOOLEAN
    PROVE  /\ RunOK(Ended(run, i, well), stack, unused)
           /\ Len(Ended(run, i, well).calls) = Len(run.calls)
           /\ (Ended(run, i, well).bent <=> run.bent \/ ~well)
           /\ \A j \in 1 .. Len(run.calls) :
                /\ Ended(run, i, well).calls[j].nexts = run.calls[j].nexts
                /\ Ended(run, i, well).calls[j].mw = run.calls[j].mw
<1> DEFINE new == Ended(run, i, well)
           call == run.calls[i]
           after == [call EXCEPT !.open = FALSE]
<1>1. run.calls \in Seq(MiddlewareCalls) /\ Len(run.calls) \in Nat
  BY DEF RunRecords
<1>2. call \in MiddlewareCalls
  BY <1>1
<1>3. /\ after \in MiddlewareCalls /\ after.mw = call.mw /\ after.event = call.event
      /\ after.caller = call.caller /\ after.nexts = call.nexts /\ after.handed = call.handed
  <2> HIDE DEF call
  <2> QED
    BY <1>2 DEF MiddlewareCalls
<1>4. new = [run EXCEPT !.calls = [run.calls EXCEPT ![i] = after], !.bent = run.bent \/ ~well]
  BY <1>1 DEF RunRecords, Ended
<1>5. /\ new.index = run.index /\ new.outcome = run.outcome
      /\ new.calls = [run.calls EXCEPT ![i] = after]
      /\ (new.bent <=> run.bent \/ ~well) /\ (new.missed <=> run.missed)
  BY <1>4 DEF RunRecords
<1>6. new \in RunRecords
  <2>1. [run.calls EXCEPT ![i] = after] \in Seq(MiddlewareCalls) /\ (run.bent \/ ~well) \in BOOLEAN
    BY <1>1, <1>3
  <2> HIDE DEF after, new
  <2> QED
    BY <1>4, <2>1 DEF RunRecords
<1> HIDE DEF new, after
<1>7. /\ Len(new.calls) = Len(run.calls)
      /\ \A j \in 1 .. Len(run.calls) :
           /\ new.calls[j].mw = run.calls[j].mw /\ new.calls[j].caller = run.calls[j].caller
           /\ new.calls[j].event = run.calls[j].event /\ new.calls[j].nexts = run.calls[j].nexts
           /\ new.calls[j].handed = run.calls[j].handed
  BY <1>1, <1>3, <1>5
<1>8. BehindRun(new, stack, unused)
  BY <1>5, <1>7 DEF RunOK, BehindRun
<1>9. ASSUME ~new.bent PROVE Chain(new, stack) /\ Given(new)
  <2>1. Chain(run, stack) /\ Given(run)
    BY <1>5, <1>9 DEF RunOK
  <2>2. \A e, k : k \in 0 .. Len(run.calls) /\ Carries(e, k, run.calls) => Carries(e, k, new.calls)
    BY <1>1, <1>7 DEF Carries
  <2>3. Chain(new, stack)
    <3>1. ASSUME NEW j \in 1 .. Len(run.calls)
          PROVE  /\ stack[j] = new.calls[j].mw /\ new.calls[j].caller = j - 1
                 /\ Carries(new.calls[j].event, j - 1, new.calls)
      <4>1. /\ stack[j] = run.calls[j].mw /\ run.calls[j].caller = j - 1
            /\ Carries(run.calls[j].event, j - 1, run.calls)
        BY <2>1 DEF Chain
      <4> QED
        BY <1>1, <1>7, <2>2, <4>1
    <3> QED
      BY <1>5, <1>7, <2>1, <3>1 DEF Chain
  <2>4. Given(new)
    BY SMTT(20), <1>1, <1>5, <1>7, <2>1, <2>2 DEF Given
  <2> QED
    BY <2>3, <2>4
<1> QED
  BY <1>5, <1>6, <1>7, <1>8, <1>9 DEF RunOK, new

\* A middleware throws.
LEMMA CallThrows ==
    ASSUME PipelineInv, NEW r \in Runs, NEW i \in DOMAIN runs[r].calls, Throws(r, i)
    PROVE  PipelineInv'
<1>1. runs[r] \in RunRecords /\ RunOK(runs[r], stack, unused)
  BY DEF PipelineInv
<1>2. i \in 1 .. Len(runs[r].calls)
  BY <1>1 DEF RunRecords
<1>3. RunOK(Ended(runs[r], i, FALSE), stack, unused)
  BY <1>1, <1>2, EndKeeps
<1> QED
  BY <1>3, RunsOn DEF Throws

\* A middleware returns.
LEMMA CallReturns ==
    ASSUME PipelineInv, NEW r \in Runs, NEW i \in DOMAIN runs[r].calls, Returns(r, i)
    PROVE  PipelineInv'
<1> DEFINE run == runs[r]
           call == run.calls[i]
<1>1. PICK event \in call.handed \cup {call.event} :
        runs' = [runs EXCEPT ![r] = Resolves(Ended(run, i, event \in call.handed), call.caller, event)]
  BY DEF Returns
<1>2. UNCHANGED <<stack, unused>>
  BY DEF Returns
<1> DEFINE well == event \in call.handed
           new == Ended(run, i, well)
<1>3. run \in RunRecords /\ RunOK(run, stack, unused)
  BY DEF PipelineInv
<1>4. run.calls \in Seq(MiddlewareCalls) /\ i \in 1 .. Len(run.calls) /\ Len(run.calls) \in Nat
  BY <1>3 DEF RunRecords
<1>5. call \in MiddlewareCalls
  BY <1>4
<1>6. event \in Events
  <2> HIDE DEF call
  <2> QED
    BY <1>1, <1>5 DEF MiddlewareCalls
<1>7. call.caller \in 0 .. Len(run.calls)
  <2>1. call.caller \in Nat
    <3> HIDE DEF call
    <3> QED
      BY <1>5 DEF MiddlewareCalls
  <2> QED
    BY <1>3, <1>4, <2>1 DEF RunOK, BehindRun
<1>8. /\ RunOK(new, stack, unused) /\ Len(new.calls) = Len(run.calls) /\ (new.bent <=> run.bent \/ ~well)
      /\ \A j \in 1 .. Len(run.calls) :
           new.calls[j].nexts = run.calls[j].nexts /\ new.calls[j].mw = run.calls[j].mw
  <2>1. well \in BOOLEAN
    OBVIOUS
  <2> HIDE DEF well
  <2> QED
    BY <1>3, <1>4, <2>1, EndKeeps
<1>9. ASSUME ~new.bent
      PROVE  /\ Chain(new, stack) /\ Given(new) /\ Carries(event, Len(new.calls), new.calls)
             /\ Len(new.calls) > 0 => new.calls[Len(new.calls)].nexts > 0
  <2>1. event \in call.handed /\ Chain(run, stack) /\ Given(run) /\ Chain(new, stack) /\ Given(new)
    BY <1>3, <1>8, <1>9 DEF RunOK
  <2>2. Carries(event, Len(run.calls), run.calls)
    BY <1>4, <2>1 DEF Given
  <2>3. Carries(event, Len(new.calls), new.calls)
    BY <1>4, <1>8, <2>2 DEF Carries
  <2>4. run.calls[Len(run.calls)].nexts # 0
    <3> SUFFICES ASSUME run.calls[Len(run.calls)].nexts = 0
                 PROVE  FALSE
      OBVIOUS
    <3>1. call.handed = {}
      <4> HIDE DEF run
      <4> QED
        BY <1>4, <2>1 DEF Given
    <3> QED
      BY <2>1, <3>1
  <2>5. run.calls[Len(run.calls)].nexts \in Nat
    <3>1. run.calls[Len(run.calls)] \in MiddlewareCalls
      BY <1>4
    <3> QED
      BY <3>1 DEF MiddlewareCalls
  <2>6. new.calls[Len(new.calls)].nexts > 0
    <3>1. Len(new.calls) = Len(run.calls) /\ Len(run.calls) \in 1 .. Len(run.calls)
      BY <1>4, <1>8
    <3>2. new.calls[Len(run.calls)].nexts = run.calls[Len(run.calls)].nexts
      BY <1>8, <3>1
    <3> HIDE DEF new, run
    <3> QED
      BY <2>4, <2>5, <3>1, <3>2
  <2> QED
    BY <2>1, <2>3, <2>6
<1> HIDE DEF new, call, well, run
<1>10. RunOK(Resolves(new, call.caller, event), stack, unused)
  BY <1>6, <1>7, <1>8, <1>9, ResolvesKeeps DEF RunOK
<1> QED
  BY <1>1, <1>2, <1>10, RunsOn DEF new, well, run

-------------------------------------------------------------------------------
\* use(), also while events are under way.
LEMMA UseKeeps ==
    ASSUME PipelineInv, NEW m \in Middlewares, Use(m)
    PROVE  PipelineInv'
<1>1. /\ m \in unused /\ unused' = unused \ {m} /\ stack' = Append(stack, m) /\ runs' = runs
      /\ StackOK(stack, unused) /\ stack \in Seq(Middlewares) /\ Len(stack) \in Nat
  BY DEF Use, PipelineInv, StackOK, Events
<1>2. /\ stack' \in Events /\ Len(stack') = Len(stack) + 1 /\ stack'[Len(stack) + 1] = m
      /\ \A p \in 1 .. Len(stack) : stack'[p] = stack[p]
  BY <1>1 DEF Events
<1>3. StackOK(stack', unused')
  BY <1>1, <1>2 DEF StackOK
<1>4. ASSUME NEW r \in Runs PROVE RunOK(runs[r], stack', unused')
  <2>1. runs[r] \in RunRecords /\ RunOK(runs[r], stack, unused)
    BY DEF PipelineInv
  <2>2. runs[r].index \in Nat /\ Len(runs[r].calls) \in Nat
    BY <2>1 DEF RunRecords
  <2>3. BehindRun(runs[r], stack', unused')
    BY <1>1, <1>2, <2>1, <2>2 DEF RunOK, BehindRun
  <2>4. Chain(runs[r], stack) => Chain(runs[r], stack')
    BY <1>1, <1>2, <2>2 DEF Chain
  <2> QED
    BY <2>1, <2>3, <2>4 DEF RunOK
<1> QED
  BY <1>1, <1>3, <1>4 DEF PipelineInv

\* What is taken off: all from some place on, or one.
LEMMA CutKeeps ==
    ASSUME PipelineInv, NEW cut \in Events, NEW first \in 1 .. Len(stack), Cut(cut, first),
           Len(cut) <= Len(stack), first <= Len(cut) + 1,
           \A p \in 1 .. Len(cut) : cut[p] = stack[p] \/ (p >= first /\ cut[p] = stack[p + 1]),
           \A p \in 1 .. first - 1 : cut[p] = stack[p],
           \A p, q \in 1 .. Len(cut) : cut[p] = cut[q] => p = q,
           \A p \in 1 .. Len(cut) : \E q \in 1 .. Len(stack) : q >= p /\ cut[p] = stack[q]
    PROVE  PipelineInv'
<1>1. /\ stack' = cut /\ unused' = unused /\ StackOK(stack, unused) /\ Len(cut) \in Nat
      /\ Len(stack) \in Nat
  BY DEF Cut, PipelineInv, StackOK, Events
<1>2. StackOK(stack', unused')
  BY <1>1 DEF StackOK
<1>3. ASSUME NEW r \in Runs PROVE runs'[r] \in RunRecords /\ RunOK(runs'[r], stack', unused')
  <2>1. runs[r] \in RunRecords /\ RunOK(runs[r], stack, unused)
    BY DEF PipelineInv
  <2>2. runs'[r] = [runs[r] EXCEPT !.bent = runs[r].bent \/ runs[r].index >= first]
    BY DEF Cut
  <2>3. /\ runs'[r] \in RunRecords /\ runs'[r].index = runs[r].index /\ runs'[r].calls = runs[r].calls
        /\ runs'[r].outcome = runs[r].outcome /\ runs'[r].missed = runs[r].missed
        /\ (runs'[r].bent <=> runs[r].bent \/ runs[r].index >= first)
    BY <2>1, <2>2 DEF RunRecords
  <2>4. runs[r].index \in Nat /\ Len(runs[r].calls) \in Nat
    BY <2>1 DEF RunRecords
  <2>5. BehindRun(runs'[r], stack', unused')
    <3>1. BehindRun(runs[r], stack, unused)
      BY <2>1 DEF RunOK
    <3>2. ASSUME NEW i \in 1 .. Len(runs[r].calls), NEW p \in 1 .. Len(cut), cut[p] = runs[r].calls[i].mw
          PROVE  p <= runs[r].index
      <4>1. PICK q \in 1 .. Len(stack) : q >= p /\ cut[p] = stack[q]
        OBVIOUS
      <4>2. q <= runs[r].index
        BY <3>1, <3>2, <4>1 DEF BehindRun
      <4> QED
        BY <1>1, <2>4, <4>1, <4>2
    <3>3. /\ \A i \in 1 .. Len(runs[r].calls) :
                runs[r].calls[i].caller < i /\ runs[r].calls[i].mw \notin unused
          /\ \A i, j \in 1 .. Len(runs[r].calls) : runs[r].calls[i].mw = runs[r].calls[j].mw => i = j
      BY <3>1 DEF BehindRun
    <3>4. stack' = cut /\ unused' = unused /\ runs'[r].calls = runs[r].calls /\ runs'[r].index = runs[r].index
      BY <1>1, <2>3
    <3> QED
      BY <3>2, <3>3, <3>4, Zenon DEF BehindRun
  <2>6. ASSUME ~runs'[r].bent PROVE Chain(runs'[r], stack') /\ Given(runs'[r])
    <3>1. Chain(runs[r], stack) /\ Given(runs[r]) /\ runs[r].index < first
      BY <2>1, <2>3, <2>4, <2>6 DEF RunOK
    <3>2. Chain(runs'[r], stack')
      BY <1>1, <2>3, <2>4, <3>1 DEF Chain
    <3>3. Given(runs'[r])
      BY <2>3, <3>1 DEF Given
    <3> QED
      BY <3>2, <3>3
  <2> QED
    BY <2>3, <2>5, <2>6 DEF RunOK
<1>4. runs' \in [Runs -> RunRecords]
  <2>1. runs' = [r \in Runs |-> runs'[r]]
    BY DEF Cut
  <2> QED
    BY <1>3, <2>1
<1> QED
  BY <1>1, <1>2, <1>3, <1>4 DEF PipelineInv

\* The function that use() returned.
LEMMA RemoveKeeps ==
    ASSUME PipelineInv, NEW i \in DOMAIN stack, RemoveMiddleware(i)
    PROVE  PipelineInv'
<1> DEFINE cut == RemoveAt(stack, i)
<1>1. /\ stack \in Seq(Middlewares) /\ i \in 1 .. Len(stack) /\ Len(stack) \in Nat
      /\ StackOK(stack, unused)
  BY DEF PipelineInv, StackOK, Events
<1> DEFINE low == SubSeq(stack, 1, i - 1)
           high == SubSeq(stack, i + 1, Len(stack))
<1>2. /\ low \in Seq(Middlewares) /\ Len(low) = i - 1
      /\ \A p \in 1 .. i - 1 : low[p] = stack[p]
  BY <1>1
<1>3. /\ high \in Seq(Middlewares) /\ Len(high) = Len(stack) - i
      /\ \A p \in 1 .. Len(stack) - i : high[p] = stack[p + i]
  BY <1>1
<1>4. cut = low \o high
  BY DEF RemoveAt
<1> HIDE DEF low, high, cut
<1>5. /\ cut \in Events /\ Len(cut) = Len(stack) - 1
      /\ \A p \in 1 .. i - 1 : cut[p] = stack[p]
      /\ \A p \in i .. Len(stack) - 1 : cut[p] = stack[p + 1]
  <2>1. cut \in Seq(Middlewares) /\ Len(cut) = Len(stack) - 1
    BY <1>1, <1>2, <1>3, <1>4
  <2>2. \A p \in 1 .. i - 1 : cut[p] = low[p]
    BY <1>1, <1>2, <1>3, <1>4
  <2>3. \A p \in i .. Len(stack) - 1 : cut[p] = high[p - (i - 1)]
    BY SMTT(20), <1>1, <1>2, <1>3, <1>4
  <2>4. \A p \in i .. Len(stack) - 1 : high[p - (i - 1)] = stack[p + 1]
    BY <1>1, <1>3
  <2> QED
    BY <1>2, <2>1, <2>2, <2>3, <2>4 DEF Events
<1>6. \A p, q \in 1 .. Len(cut) : cut[p] = cut[q] => p = q
  BY <1>1, <1>5 DEF StackOK
<1>7. \A p \in 1 .. Len(cut) : \E q \in 1 .. Len(stack) : q >= p /\ cut[p] = stack[q]
  BY <1>1, <1>5
<1>8. Cut(cut, i)
  BY DEF RemoveMiddleware, cut
<1> QED
  <2>1. \A p \in 1 .. Len(cut) : cut[p] = stack[p] \/ (p >= i /\ cut[p] = stack[p + 1])
    BY <1>1, <1>5
  <2>2. Len(cut) <= Len(stack) /\ i <= Len(cut) + 1
    BY <1>1, <1>5
  <2> QED
    BY <1>1, <1>5, <1>6, <1>7, <1>8, <2>1, <2>2, CutKeeps

\* clear().
LEMMA ClearMiddlewareKeeps ==
    ASSUME PipelineInv, ClearMiddleware
    PROVE  PipelineInv'
<1>1. stack \in Seq(Middlewares) /\ stack # <<>> /\ Cut(<<>>, 1)
  BY DEF PipelineInv, StackOK, Events, ClearMiddleware
<1>2. 1 \in 1 .. Len(stack) /\ <<>> \in Events /\ Len(<<>>) = 0
  BY <1>1 DEF Events
<1> QED
  BY <1>1, <1>2, CutKeeps

-------------------------------------------------------------------------------
\* pipeline.ts 16-59: each middleware is called at most once in a run, whatever it does with
\* next(), and the event of a run that is not bent has been through all of them.
THEOREM MiddlewaresRunOnce == PipelineSpec => []OncePerRun
<1>1. PipelineInit => PipelineInv
  <2> SUFFICES ASSUME PipelineInit PROVE PipelineInv
    OBVIOUS
  <2>1. StackOK(stack, unused)
    BY DEF PipelineInit, StackOK, Events
  <2> DEFINE fresh == [index |-> 0, calls |-> <<>>, outcome |-> {}, bent |-> FALSE, missed |-> FALSE]
  <2>2. fresh \in RunRecords
    BY DEF RunRecords
  <2>3. RunOK(fresh, stack, unused)
    BY <2>1, <2>2 DEF RunOK, BehindRun, Chain, Given, StackOK, Events
  <2>4. runs = [r \in Runs |-> fresh]
    BY DEF PipelineInit
  <2> HIDE DEF fresh
  <2> QED
    BY <2>1, <2>2, <2>3, <2>4 DEF PipelineInv
<1>2. PipelineInv /\ [PipelineNext]_pipelineVars => PipelineInv'
  <2> SUFFICES ASSUME PipelineInv, [PipelineNext]_pipelineVars PROVE PipelineInv'
    OBVIOUS
  <2>1. CASE UNCHANGED pipelineVars
    BY <2>1 DEF pipelineVars, PipelineInv
  <2> QED
    BY <2>1, UseKeeps, RemoveKeeps, ClearMiddlewareKeeps, RunBegins, CallPassesOn, CallReturns, CallThrows
       DEF PipelineNext
<1>3. PipelineInv => OncePerRun
  <2> SUFFICES ASSUME PipelineInv, NEW r \in Runs
               PROVE  LET ran == [i \in DOMAIN runs[r].calls |-> runs[r].calls[i].mw]
                      IN  /\ IsInjective(ran)
                          /\ ~runs[r].bent => ~runs[r].missed /\ runs[r].outcome \subseteq {ran}
    BY DEF OncePerRun
  <2> DEFINE ran == [i \in DOMAIN runs[r].calls |-> runs[r].calls[i].mw]
  <2>1. runs[r] \in RunRecords /\ RunOK(runs[r], stack, unused)
    BY DEF PipelineInv
  <2>2. DOMAIN runs[r].calls = 1 .. Len(runs[r].calls) /\ Len(runs[r].calls) \in Nat
    BY <2>1 DEF RunRecords
  <2>3. IsInjective(ran)
    BY <2>1, <2>2 DEF RunOK, BehindRun, IsInjective
  <2>4. ASSUME ~runs[r].bent, NEW e \in runs[r].outcome PROVE e = ran
    BY <2>1, <2>2, <2>4 DEF RunOK, Given, Carries, Events
  <2>5. ~runs[r].bent => ~runs[r].missed
    BY <2>1 DEF RunOK, Chain
  <2> QED
    BY <2>3, <2>4, <2>5
<1> QED
  BY <1>1, <1>2, <1>3, PTL DEF PipelineSpec

-------------------------------------------------------------------------------
(* The queries.  The stores hold the same, each in its own form. *)

\* The IndexedDB records are those of the messages and conversations that the Maps hold.
RecordsInv ==
    /\ IsFiniteSet(DOMAIN messageMap) /\ DOMAIN messageMap \subseteq MessageIds
    /\ DOMAIN messageStore = DOMAIN messageMap
    /\ \A i \in DOMAIN messageMap :
          messageMap[i] \in StoredMessages /\ messageStore[i] = MessageRecord(messageMap[i])
    /\ IsFiniteSet(DOMAIN conversationMap) /\ DOMAIN conversationMap \subseteq ConversationIds
    /\ DOMAIN conversationStore = DOMAIN conversationMap
    /\ \A i \in DOMAIN conversationMap :
          conversationMap[i] \in StoredConversations
          /\ conversationStore[i] = ConversationRecord(conversationMap[i])

\* The engine's own maps hold each id once, and the same ones until a storage is changed
\* behind its back.
OwnInv ==
    /\ direct \in BOOLEAN
    /\ ownMessages \in Seq([id : MessageIds, value : StoredMessages])
    /\ \A m, n \in 1 .. Len(ownMessages) : ownMessages[m].id = ownMessages[n].id => m = n
    /\ ~direct =>
          /\ \A n \in 1 .. Len(ownMessages) :
                /\ ownMessages[n].id \in DOMAIN messageMap
                /\ ownMessages[n].value = messageMap[ownMessages[n].id]
          /\ \A i \in DOMAIN messageMap : \E n \in 1 .. Len(ownMessages) : ownMessages[n].id = i
    /\ ownConversations \in Seq([id : ConversationIds, value : StoredConversations])
    /\ ~direct =>
          \A i \in DOMAIN conversationMap :
              \E n \in 1 .. Len(ownConversations) : ownConversations[n].id = i

QueryInv == RecordsInv /\ OwnInv

-------------------------------------------------------------------------------
(* Sorting. *)

\* Keys by which a set can be sorted: pairs of numbers, no two alike.
Keys(S, key) ==
    /\ \A i \in S : key[i] \in Int \X Int
    /\ \A i, j \in S : key[i] = key[j] => i = j

\* A list of a set in the order of its keys.
Lists(s, S, key) ==
    /\ s \in [1 .. Cardinality(S) -> S]
    /\ \A i \in S : \E n \in 1 .. Cardinality(S) : s[n] = i
    /\ \A m, n \in 1 .. Cardinality(S) : m < n => KeyLess(key[s[m]], key[s[n]])

\* Comparing keys is a strict order, and decides between any two.
LEMMA KeyOrder ==
    /\ \A k \in Int \X Int : ~KeyLess(k, k)
    /\ \A k, l \in Int \X Int : k # l => KeyLess(k, l) \/ KeyLess(l, k)
    /\ \A k, l, m \in Int \X Int : KeyLess(k, l) /\ KeyLess(l, m) => KeyLess(k, m)
BY DEF KeyLess

\* Sorting lists a set in order: nothing is lost, and nothing twice.
LEMMA SortedLists ==
    ASSUME NEW S, IsFiniteSet(S), NEW key, Keys(S, key)
    PROVE  Lists(Sorted(S, key), S, key)
<1> DEFINE n0 == Cardinality(S)
           Under(i) == {j \in S : KeyLess(key[j], key[i])}
           rank == [i \in S |-> Cardinality(Under(i)) + 1]
<1>1. n0 \in Nat BY FS_CardinalityType
<1>k. \A i \in S : key[i] \in Int \X Int BY DEF Keys
<1>2. ASSUME NEW i \in S PROVE IsFiniteSet(Under(i)) /\ Cardinality(Under(i)) \in 0 .. n0 - 1
  <2>1. IsFiniteSet(S \ {i}) /\ Cardinality(S \ {i}) = n0 - 1 BY FS_RemoveElement
  <2>2. Under(i) \in SUBSET (S \ {i}) BY <1>k, KeyOrder
  <2>3. IsFiniteSet(Under(i)) /\ Cardinality(Under(i)) <= n0 - 1 BY <2>1, <2>2, FS_Subset
  <2>4. Cardinality(Under(i)) \in Nat BY <2>3, FS_CardinalityType
  <2> HIDE DEF Under
  <2> QED BY <1>1, <2>3, <2>4
<1>3. ASSUME NEW i \in S, NEW k \in S, KeyLess(key[i], key[k]) PROVE rank[i] < rank[k]
  <2>1. ASSUME NEW j \in S, KeyLess(key[j], key[i]) PROVE KeyLess(key[j], key[k])
    BY <2>1, <1>3, <1>k, KeyOrder
  <2>2. i \in Under(k) /\ i \notin Under(i) BY <1>3, <1>k, KeyOrder
  <2>3. Cardinality(Under(i)) <= Cardinality(Under(k)) /\ Cardinality(Under(i)) # Cardinality(Under(k))
    <3>1. Under(i) \in SUBSET Under(k) BY <2>1
    <3> QED BY <3>1, <2>2, <1>2, FS_Subset
  <2> HIDE DEF Under
  <2>4. Cardinality(Under(i)) \in Int /\ Cardinality(Under(k)) \in Int BY <1>1, <1>2
  <2> QED BY <2>3, <2>4
<1>4. rank \in [S -> 1 .. n0]
  <2>1. \A i \in S : Cardinality(Under(i)) + 1 \in 1 .. n0
    <3> HIDE DEF Under
    <3> QED BY <1>1, <1>2
  <2> QED BY <2>1
<1>5. rank \in Injection(S, 1 .. n0)
  <2>1. \A i \in S, k \in S : rank[i] = rank[k] => i = k
    <3> SUFFICES ASSUME NEW i \in S, NEW k \in S, i # k PROVE rank[i] # rank[k] OBVIOUS
    <3>1. rank[i] \in Int /\ rank[k] \in Int BY <1>4
    <3>2. KeyLess(key[i], key[k]) \/ KeyLess(key[k], key[i]) BY <1>k, KeyOrder DEF Keys
    <3>3. rank[i] < rank[k] \/ rank[k] < rank[i] BY <1>3, <3>2
    <3> HIDE DEF rank
    <3> QED BY <3>1, <3>3
  <2> HIDE DEF rank
  <2> QED BY <1>4, <2>1 DEF Injection, IsInjective
<1>6. rank \in Surjection(S, 1 .. n0)
  <2>1. IsFiniteSet(1 .. n0) /\ Cardinality(1 .. n0) = n0 BY <1>1, FS_Interval
  <2> HIDE DEF rank
  <2> QED BY <1>5, <2>1, FS_Injection
<1> DEFINE nth(n) == CHOOSE i \in S : Cardinality({j \in S : KeyLess(key[j], key[i])}) = n - 1
           s == [n \in 1 .. n0 |-> nth(n)]
<1>7. Sorted(S, key) = s BY DEF Sorted
<1>8. ASSUME NEW n \in 1 .. n0 PROVE s[n] \in S /\ rank[s[n]] = n
  <2>1. PICK k \in S : rank[k] = n
    <3> HIDE DEF rank
    <3> QED BY <1>6 DEF Surjection
  <2>2. Cardinality(Under(k)) = n - 1 BY <2>1, <1>2
  <2>3. nth(n) \in S /\ Cardinality(Under(nth(n))) = n - 1 BY <2>2
  <2>4. s[n] = nth(n) OBVIOUS
  <2> HIDE DEF nth, s, Under
  <2> QED BY <2>3, <2>4
<1>9. DOMAIN s = 1 .. n0 OBVIOUS
<1> HIDE DEF nth
<1>10. s \in [1 .. n0 -> S] BY <1>8
<1> HIDE DEF s
<1>11. ASSUME NEW i \in S PROVE \E n \in 1 .. n0 : s[n] = i
  <2>1. rank[i] \in 1 .. n0 BY <1>4
  <2>2. s[rank[i]] \in S /\ rank[s[rank[i]]] = rank[i] BY <2>1, <1>8
  <2>3. s[rank[i]] = i
    <3> HIDE DEF rank
    <3> QED BY <2>2, <1>5 DEF Injection, IsInjective
  <2> QED BY <2>1, <2>3
<1>12. ASSUME NEW m \in 1 .. n0, NEW n \in 1 .. n0, m < n PROVE KeyLess(key[s[m]], key[s[n]])
  <2>1. s[m] \in S /\ s[n] \in S /\ rank[s[m]] = m /\ rank[s[n]] = n BY <1>8
  <2> HIDE DEF rank
  <2>2. s[m] # s[n] BY <2>1, <1>1, <1>12
  <2>3. key[s[m]] # key[s[n]] BY <2>1, <2>2 DEF Keys
  <2>4. ~KeyLess(key[s[n]], key[s[m]])
    <3>1. SUFFICES ASSUME KeyLess(key[s[n]], key[s[m]]) PROVE FALSE OBVIOUS
    <3>2. rank[s[n]] < rank[s[m]] BY <2>1, <3>1, <1>3
    <3> QED BY <3>2, <2>1, <1>1, <1>12
  <2> QED BY <2>1, <2>3, <2>4, <1>k, KeyOrder
<1> QED BY <1>7, <1>10, <1>11, <1>12 DEF Lists

\* Functions that agree are one.
LEMMA SameFunction ==
    ASSUME NEW D, NEW R, NEW f \in [D -> R], NEW g \in [D -> R], \A x \in D : f[x] = g[x]
    PROVE  f = g
<1>1. f = [x \in D |-> f[x]] /\ g = [x \in D |-> g[x]] OBVIOUS
<1> QED BY <1>1, Zenon

\* There is one list of a set in order.
LEMMA ListIsOne ==
    ASSUME NEW S, IsFiniteSet(S), NEW key, Keys(S, key), NEW s, NEW t, Lists(s, S, key), Lists(t, S, key)
    PROVE  s = t
<1> DEFINE n0 == Cardinality(S)
           odd == {n \in 1 .. n0 : s[n] # t[n]}
<1>1. n0 \in Nat BY FS_CardinalityType
<1>2. /\ s \in [1 .. n0 -> S] /\ t \in [1 .. n0 -> S]
      /\ \A i \in S : (\E n \in 1 .. n0 : s[n] = i) /\ (\E n \in 1 .. n0 : t[n] = i)
      /\ \A m, n \in 1 .. n0 : m < n => KeyLess(key[s[m]], key[s[n]]) /\ KeyLess(key[t[m]], key[t[n]])
  BY DEF Lists
<1>3. \A i \in S : key[i] \in Int \X Int BY DEF Keys
<1> HIDE DEF n0
<1>4. odd = {}
  <2> SUFFICES ASSUME odd # {} PROVE FALSE OBVIOUS
  <2>1. odd \subseteq Nat BY <1>1
  <2>2. PICK n \in odd : \A m \in odd : n <= m
    <3> HIDE DEF odd
    <3> QED BY <2>1, LeastElement
  <2>3. n \in 1 .. n0 /\ s[n] \in S /\ t[n] \in S /\ s[n] # t[n] BY <1>2
  <2>4. PICK m \in 1 .. n0 : t[m] = s[n] BY <1>2, <2>3
  <2>5. PICK k \in 1 .. n0 : s[k] = t[n] BY <1>2, <2>3
  <2>6. \A j \in 1 .. n0 : j < n => s[j] = t[j] BY <2>2, <2>3, <1>1
  <2>7. m > n
    <3>1. m # n BY <2>3, <2>4
    <3>2. ASSUME m < n PROVE FALSE
      <4>1. s[m] = s[n] BY <2>6, <2>4, <3>2
      <4>2. KeyLess(key[s[m]], key[s[n]]) BY <1>2, <2>3, <3>2
      <4> QED BY <4>1, <4>2, <1>3, <2>3, KeyOrder
    <3> QED BY <3>1, <3>2, <2>3, <1>1
  <2>8. k > n
    <3>1. k # n BY <2>3, <2>5
    <3>2. ASSUME k < n PROVE FALSE
      <4>1. t[k] = t[n] BY <2>6, <2>5, <3>2
      <4>2. KeyLess(key[t[k]], key[t[n]]) BY <1>2, <2>3, <3>2
      <4> QED BY <4>1, <4>2, <1>3, <2>3, KeyOrder
    <3> QED BY <3>1, <3>2, <2>3, <1>1
  <2>9. KeyLess(key[t[n]], key[s[n]]) BY <1>2, <2>3, <2>4, <2>7
  <2>10. KeyLess(key[s[n]], key[t[n]]) BY <1>2, <2>3, <2>5, <2>8
  <2>11. KeyLess(key[s[n]], key[s[n]]) BY <2>9, <2>10, <2>3, <1>3, KeyOrder
  <2> QED BY <2>11, <2>3, <1>3, KeyOrder
<1>5. \A n \in 1 .. n0 : s[n] = t[n] BY <1>4
<1>6. s \in [1 .. n0 -> S] /\ t \in [1 .. n0 -> S] BY <1>2
<1> HIDE DEF odd
<1> DEFINE D == 1 .. n0
<1>7. s \in [D -> S] /\ t \in [D -> S] /\ \A n \in D : s[n] = t[n] BY <1>5, <1>6
<1> HIDE DEF D
<1> QED BY <1>7, SameFunction

\* The places of a filter, in their order.
LEMMA PlacesInOrder ==
    ASSUME NEW P, P \subseteq Nat, IsFiniteSet(P)
    PROVE  LET at == Sorted(P, [n \in P |-> <<0, n>>])
           IN  /\ at \in [1 .. Cardinality(P) -> P] /\ Cardinality(P) \in Nat
               /\ \A n \in P : \E k \in 1 .. Cardinality(P) : at[k] = n
               /\ \A m, n \in 1 .. Cardinality(P) : m < n => at[m] < at[n]
<1> DEFINE key == [n \in P |-> <<0, n>>]
           at == Sorted(P, key)
<1>1. \A n \in P : key[n] = <<0, n>> OBVIOUS
<1>2. Keys(P, key)
  <2>1. \A n \in P : key[n] \in Int \X Int OBVIOUS
  <2>2. \A m, n \in P : key[m] = key[n] => m = n OBVIOUS
  <2> QED BY <2>1, <2>2 DEF Keys
<1>3. Cardinality(P) \in Nat BY FS_CardinalityType
<1> HIDE DEF key
<1>4. Lists(at, P, key) BY <1>2, SortedLists
<1> HIDE DEF at
<1>5. /\ at \in [1 .. Cardinality(P) -> P]
      /\ \A n \in P : \E k \in 1 .. Cardinality(P) : at[k] = n
  BY <1>4 DEF Lists
<1>6. ASSUME NEW m \in 1 .. Cardinality(P), NEW n \in 1 .. Cardinality(P), m < n PROVE at[m] < at[n]
  <2>1. KeyLess(key[at[m]], key[at[n]]) BY <1>4, <1>6 DEF Lists
  <2>2. at[m] \in P /\ at[n] \in P BY <1>5
  <2>3. KeyLess(<<0, at[m]>>, <<0, at[n]>>) BY <2>1, <2>2, <1>1
  <2> QED BY <2>2, <2>3 DEF KeyLess
<1> QED BY <1>3, <1>5, <1>6 DEF at, key

\* What a filter returns: the elements at those places, one after another.
LEMMA FilteredHas ==
    ASSUME NEW E, NEW seq \in Seq(E), NEW P, P \subseteq 1 .. Len(seq)
    PROVE  LET f == Filtered(seq, P)
           IN  /\ IsFiniteSet(P) /\ f \in Seq(E) /\ Len(f) = Cardinality(P)
               /\ \E at \in [1 .. Len(f) -> P] :
                     /\ \A k \in 1 .. Len(f) : f[k] = seq[at[k]]
                     /\ \A n \in P : \E k \in 1 .. Len(f) : at[k] = n
                     /\ \A j, k \in 1 .. Len(f) : j < k => at[j] < at[k]
<1> DEFINE at == Sorted(P, [n \in P |-> <<0, n>>])
           n0 == Cardinality(P)
           f == [k \in DOMAIN at |-> seq[at[k]]]
<1>1. Len(seq) \in Nat /\ \A n \in 1 .. Len(seq) : seq[n] \in E OBVIOUS
<1>2. IsFiniteSet(P)
  <2>1. IsFiniteSet(1 .. Len(seq)) BY <1>1, FS_Interval
  <2> QED BY <2>1, FS_Subset
<1>3. P \subseteq Nat BY <1>1
<1>4. /\ at \in [1 .. n0 -> P] /\ n0 \in Nat
      /\ \A n \in P : \E k \in 1 .. n0 : at[k] = n
      /\ \A m, n \in 1 .. n0 : m < n => at[m] < at[n]
  BY <1>2, <1>3, PlacesInOrder
<1>5. Filtered(seq, P) = f BY DEF Filtered
<1> HIDE DEF at, n0
<1>6. f = [k \in 1 .. n0 |-> seq[at[k]]] BY <1>4
<1>7. \A k \in 1 .. n0 : seq[at[k]] \in E BY <1>1, <1>4
<1>8. f \in Seq(E) /\ Len(f) = n0
  <2>1. f \in [1 .. n0 -> E] BY <1>6, <1>7
  <2> HIDE DEF f
  <2> QED BY <2>1, <1>4
<1>9. \A k \in 1 .. n0 : f[k] = seq[at[k]] BY <1>6
<1> HIDE DEF f
<1>10. IsFiniteSet(P) /\ f \in Seq(E) /\ Len(f) = Cardinality(P) BY <1>2, <1>8 DEF n0
<1> QED BY <1>4, <1>5, <1>8, <1>9, <1>10

\* Filtering a list leaves a list of what passes, in the same order.
LEMMA FilteredLists ==
    ASSUME NEW S, IsFiniteSet(S), NEW key, Keys(S, key), NEW s, Lists(s, S, key),
           NEW P, P \subseteq 1 .. Cardinality(S), NEW T, T = {s[n] : n \in P}
    PROVE  Lists(Filtered(s, P), T, key)
<1> DEFINE f == Filtered(s, P)
<1>1. Cardinality(S) \in Nat BY FS_CardinalityType
<1>2. s \in Seq(S) /\ Len(s) = Cardinality(S) /\ \A n \in 1 .. Cardinality(S) : s[n] \in S
  <2>1. s \in [1 .. Cardinality(S) -> S] BY DEF Lists
  <2> QED BY <1>1, <2>1
<1>3. /\ IsFiniteSet(P) /\ f \in Seq(S) /\ Len(f) = Cardinality(P)
      /\ \E at \in [1 .. Len(f) -> P] :
            /\ \A k \in 1 .. Len(f) : f[k] = s[at[k]]
            /\ \A n \in P : \E k \in 1 .. Len(f) : at[k] = n
            /\ \A j, k \in 1 .. Len(f) : j < k => at[j] < at[k]
  BY <1>2, FilteredHas
<1>4. PICK at \in [1 .. Len(f) -> P] :
            /\ \A k \in 1 .. Len(f) : f[k] = s[at[k]]
            /\ \A n \in P : \E k \in 1 .. Len(f) : at[k] = n
            /\ \A j, k \in 1 .. Len(f) : j < k => at[j] < at[k]
  BY <1>3
<1> HIDE DEF f
<1>5. \A m, n \in 1 .. Cardinality(S) : m < n => KeyLess(key[s[m]], key[s[n]]) BY DEF Lists
<1>6. \A m, n \in P : s[m] = s[n] => m = n
  <2> SUFFICES ASSUME NEW m \in P, NEW n \in P, m # n PROVE s[m] # s[n] OBVIOUS
  <2>1. m < n \/ n < m BY <1>1
  <2>2. KeyLess(key[s[m]], key[s[n]]) \/ KeyLess(key[s[n]], key[s[m]]) BY <1>5, <2>1
  <2>3. key[s[m]] \in Int \X Int BY <1>2 DEF Keys
  <2> QED BY <2>2, <2>3, KeyOrder
<1>7. Cardinality(T) = Cardinality(P)
  <2> DEFINE g == [n \in P |-> s[n]]
  <2>1. g \in Bijection(P, T)
    <3>1. g \in [P -> T] OBVIOUS
    <3>2. \A m, n \in P : g[m] = g[n] => m = n BY <1>6
    <3>3. \A i \in T : \E n \in P : g[n] = i OBVIOUS
    <3> HIDE DEF g
    <3> QED BY <3>1, <3>2, <3>3 DEF Bijection, Injection, Surjection, IsInjective
  <2>2. ExistsBijection(P, T) BY <2>1 DEF ExistsBijection
  <2> QED BY <2>2, <1>3, FS_Bijection
<1>8. f \in [1 .. Len(f) -> T]
  <2>1. \A k \in 1 .. Len(f) : f[k] \in T BY <1>4
  <2>2. f \in [1 .. Len(f) -> S] BY <1>3
  <2> QED BY <2>1, <2>2
<1>9. \A i \in T : \E k \in 1 .. Len(f) : f[k] = i BY <1>4
<1>10. \A j, k \in 1 .. Len(f) : j < k => KeyLess(key[f[j]], key[f[k]])
  <2> SUFFICES ASSUME NEW j \in 1 .. Len(f), NEW k \in 1 .. Len(f), j < k
               PROVE  KeyLess(key[f[j]], key[f[k]])
    OBVIOUS
  <2>1. at[j] \in 1 .. Cardinality(S) /\ at[k] \in 1 .. Cardinality(S) /\ at[j] < at[k] BY <1>4
  <2>2. KeyLess(key[s[at[j]]], key[s[at[k]]]) BY <2>1, <1>5
  <2>3. f[j] = s[at[j]] /\ f[k] = s[at[k]] BY <1>4
  <2> QED BY <2>2, <2>3
<1>11. Lists(f, T, key)
  <2>1. Cardinality(T) = Len(f) BY <1>3, <1>7
  <2> QED BY <2>1, <1>8, <1>9, <1>10 DEF Lists
<1> QED BY <1>11 DEF f

\* Of two lists by the same times the one is nowhere behind the other.
LEMMA NotEarlier ==
    ASSUME NEW S, IsFiniteSet(S), NEW key, Keys(S, key), NEW other, Keys(S, other),
           \A i \in S : key[i][1] = other[i][1],
           NEW s, NEW t, Lists(s, S, key), Lists(t, S, other), NEW n \in 1 .. Cardinality(S)
    PROVE  ~(key[s[n]][1] < key[t[n]][1])
<1> SUFFICES ASSUME key[s[n]][1] < key[t[n]][1] PROVE FALSE OBVIOUS
<1> DEFINE n0 == Cardinality(S)
           time(i) == key[i][1]
           place == [m \in 1 .. n |-> CHOOSE k \in 1 .. n0 : t[k] = s[m]]
<1>1. n0 \in Nat /\ n \in 1 .. n0 BY FS_CardinalityType
<1>2. \A i \in S : time(i) \in Int /\ key[i] \in Int \X Int /\ other[i] \in Int \X Int /\ other[i][1] = time(i)
  <2>1. \A i \in S : key[i] \in Int \X Int /\ other[i] \in Int \X Int BY DEF Keys
  <2> QED BY <2>1
<1>3. /\ s \in [1 .. n0 -> S] /\ t \in [1 .. n0 -> S]
      /\ \A i \in S : \E k \in 1 .. n0 : t[k] = i
      /\ \A m, k \in 1 .. n0 : m < k => KeyLess(key[s[m]], key[s[k]]) /\ KeyLess(other[t[m]], other[t[k]])
  BY DEF Lists
<1>a. time(s[n]) < time(t[n]) OBVIOUS
<1> HIDE DEF n0
<1>4. \A m, k \in 1 .. n0 : m < k => time(s[m]) <= time(s[k]) /\ time(t[m]) <= time(t[k])
  <2> SUFFICES ASSUME NEW m \in 1 .. n0, NEW k \in 1 .. n0, m < k
               PROVE  time(s[m]) <= time(s[k]) /\ time(t[m]) <= time(t[k])
    OBVIOUS
  <2>1. s[m] \in S /\ s[k] \in S /\ t[m] \in S /\ t[k] \in S BY <1>3
  <2>2. KeyLess(key[s[m]], key[s[k]]) /\ KeyLess(other[t[m]], other[t[k]]) BY <1>3
  <2>3. key[s[m]][1] <= key[s[k]][1] BY <2>1, <2>2, <1>2 DEF KeyLess
  <2>4. other[t[m]][1] <= other[t[k]][1] BY <2>1, <2>2, <1>2 DEF KeyLess
  <2> QED BY <2>1, <2>3, <2>4, <1>2
<1> HIDE DEF time
<1>5. ASSUME NEW m \in 1 .. n PROVE place[m] \in 1 .. n - 1 /\ t[place[m]] = s[m]
  <2>1. m \in 1 .. n0 /\ s[m] \in S BY <1>1, <1>3
  <2>2. place[m] = CHOOSE k \in 1 .. n0 : t[k] = s[m] OBVIOUS
  <2>3. place[m] \in 1 .. n0 /\ t[place[m]] = s[m] BY <2>1, <2>2, <1>3
  <2> HIDE DEF place
  <2>4. time(s[m]) <= time(s[n])
    <3>1. m = n \/ m < n BY <1>1
    <3>2. s[n] \in S BY <1>1, <1>3
    <3> QED BY <3>1, <3>2, <2>1, <1>1, <1>2, <1>4
  <2>5. time(t[place[m]]) < time(t[n])
    <3>1. s[m] \in S /\ s[n] \in S /\ t[n] \in S BY <1>1, <1>3, <2>1
    <3> QED BY <3>1, <1>2, <1>a, <2>3, <2>4
  <2>6. place[m] < n
    <3> SUFFICES ASSUME ~(place[m] < n) PROVE FALSE OBVIOUS
    <3>1. place[m] = n \/ n < place[m] BY <1>1, <2>3
    <3>2. t[n] \in S /\ t[place[m]] \in S BY <1>1, <1>3, <2>3
    <3>3. time(t[n]) <= time(t[place[m]]) BY <3>1, <3>2, <1>1, <1>2, <1>4, <2>3
    <3> QED BY <3>2, <3>3, <2>5, <1>2
  <2> QED BY <2>3, <2>6, <1>1
<1>6. place \in [1 .. n -> 1 .. n - 1]
  <2>1. \A m \in 1 .. n : place[m] \in 1 .. n - 1 BY <1>5
  <2> QED BY <2>1
<1> HIDE DEF place
<1>7. \E x, y \in 1 .. n : x # y /\ place[x] = place[y]
  <2>1. /\ IsFiniteSet(1 .. n) /\ Cardinality(1 .. n) = n
        /\ IsFiniteSet(1 .. n - 1) /\ Cardinality(1 .. n - 1) = n - 1
    BY <1>1, FS_Interval
  <2> DEFINE A == 1 .. n
             B == 1 .. n - 1
  <2>2. Cardinality(B) < Cardinality(A) BY <2>1, <1>1
  <2>3. IsFiniteSet(A) /\ IsFiniteSet(B) /\ place \in [A -> B] BY <2>1, <1>6
  <2> HIDE DEF A, B
  <2>4. \E x, y \in A : x # y /\ place[x] = place[y] BY <2>2, <2>3, FS_PigeonHole
  <2> QED BY <2>4 DEF A
<1>8. PICK x \in 1 .. n, y \in 1 .. n : x # y /\ place[x] = place[y] BY <1>7
<1>9. s[x] = s[y] BY <1>5, <1>8
<1>10. x \in 1 .. n0 /\ y \in 1 .. n0 BY <1>1
<1>11. x < y \/ y < x BY <1>8, <1>10
<1>12. KeyLess(key[s[x]], key[s[x]]) BY <1>3, <1>9, <1>10, <1>11
<1>13. key[s[x]] \in Int \X Int BY <1>2, <1>3, <1>10
<1> QED BY <1>12, <1>13, KeyOrder

\* Two lists by the same times have the same time at every place.
LEMMA ListsByTime ==
    ASSUME NEW S, IsFiniteSet(S), NEW key, Keys(S, key), NEW other, Keys(S, other),
           \A i \in S : key[i][1] = other[i][1],
           NEW s, NEW t, Lists(s, S, key), Lists(t, S, other)
    PROVE  \A n \in 1 .. Cardinality(S) : key[s[n]][1] = key[t[n]][1]
<1> SUFFICES ASSUME NEW n \in 1 .. Cardinality(S) PROVE key[s[n]][1] = key[t[n]][1] OBVIOUS
<1>1. s[n] \in S /\ t[n] \in S BY DEF Lists
<1>2. \A i \in S : key[i][1] \in Int
  <2>1. \A i \in S : key[i] \in Int \X Int BY DEF Keys
  <2> QED BY <2>1
<1>3. ~(key[s[n]][1] < key[t[n]][1]) BY NotEarlier
<1>4. ~(other[t[n]][1] < other[s[n]][1]) BY NotEarlier
<1> QED BY <1>1, <1>2, <1>3, <1>4

\* A list in one direction or the other.
LEMMA DirectedHas ==
    ASSUME NEW E, NEW s \in Seq(E), NEW d
    PROVE  /\ Directed(s, d) \in Seq(E) /\ Len(Directed(s, d)) = Len(s)
           /\ d = "desc" => \A n \in 1 .. Len(s) : Directed(s, d)[n] = s[Len(s) - n + 1]
           /\ d # "desc" => Directed(s, d) = s
           /\ ToSet(Directed(s, d)) = ToSet(s)
<1> DEFINE r == [n \in 1 .. Len(s) |-> s[(Len(s) - n) + 1]]
<1>1. Len(s) \in Nat /\ DOMAIN s = 1 .. Len(s) /\ \A n \in 1 .. Len(s) : s[n] \in E OBVIOUS
<1>2. \A n \in 1 .. Len(s) : (Len(s) - n) + 1 \in 1 .. Len(s) BY <1>1
<1>3. r \in [1 .. Len(s) -> E] BY <1>1, <1>2
<1>4. r \in Seq(E) /\ Len(r) = Len(s) /\ DOMAIN r = 1 .. Len(s)
  <2> HIDE DEF r
  <2> QED BY <1>1, <1>3
<1>5. \A n \in 1 .. Len(s) : r[n] = s[Len(s) - n + 1] OBVIOUS
<1> HIDE DEF r
<1>6. ToSet(r) = ToSet(s)
  <2>1. ASSUME NEW n \in 1 .. Len(s) PROVE r[n] \in ToSet(s) /\ s[n] \in ToSet(r)
    <3>1. r[n] = s[Len(s) - n + 1] BY <1>5
    <3>2. Len(s) - n + 1 \in 1 .. Len(s) BY <1>1
    <3>3. r[Len(s) - n + 1] = s[n] BY <3>2, <1>1, <1>5
    <3> QED BY <3>1, <3>2, <3>3, <1>1, <1>4 DEF ToSet
  <2> QED BY <2>1, <1>1, <1>4 DEF ToSet
<1>7. d = "desc" => Directed(s, d) = r BY DEF Directed, Reverse, r
<1>8. d # "desc" => Directed(s, d) = s BY DEF Directed
<1> QED BY <1>1, <1>4, <1>5, <1>6, <1>7, <1>8

\* No id twice.
Distinct(ids) == \A m, n \in 1 .. Len(ids) : ids[m] = ids[n] => m = n

\* The page behind the k-th id, or behind none: it goes on from there, and further unless it
\* is the last.
LEMMA PageHas ==
    ASSUME NEW E, 0 \notin E, NEW ids \in Seq(E), Distinct(ids), NEW limit \in Nat \ {0},
           NEW k \in 0 .. Len(ids), NEW cursor, cursor = IF k = 0 THEN 0 ELSE ids[k]
    PROVE  \E c \in k .. Len(ids), more \in BOOLEAN :
              /\ Paginate(ids, cursor, limit) = [items |-> SubSeq(ids, k + 1, c), hasMore |-> more]
              /\ more <=> c < Len(ids)
              /\ more => k < c
<1> DEFINE at == {n \in DOMAIN ids : ids[n] = cursor}
           rest == IF at = {} THEN ids ELSE SubSeq(ids, (CHOOSE n \in at : TRUE) + 1, Len(ids))
           size == IF Len(rest) < limit THEN Len(rest) ELSE limit
           page == SubSeq(rest, 1, size)
           n0 == Len(ids)
<1>1. n0 \in Nat /\ DOMAIN ids = 1 .. n0 /\ \A n \in 1 .. n0 : ids[n] \in E OBVIOUS
<1>b. k \in 0 .. n0 OBVIOUS
<1>2. rest = SubSeq(ids, k + 1, n0)
  <2>1. CASE k = 0
    <3>1. at = {} BY <2>1, <1>1
    <3> QED BY <3>1, <2>1, SubSeqFull
  <2>2. CASE k # 0
    <3>1. k \in 1 .. n0 /\ cursor = ids[k] BY <2>2, <1>1
    <3>2. at = {k} BY <3>1, <1>1 DEF Distinct
    <3>3. (CHOOSE n \in at : TRUE) = k BY <3>2
    <3> QED BY <3>2, <3>3
  <2> QED BY <2>1, <2>2
<1> HIDE DEF rest
<1>3. rest \in Seq(E) /\ Len(rest) = n0 - k /\ \A i \in 1 .. n0 - k : rest[i] = ids[k + i]
  <2>1. \A i \in k + 1 .. n0 : ids[i] \in E BY <1>1
  <2>2. /\ SubSeq(ids, k + 1, n0) \in Seq(E)
        /\ Len(SubSeq(ids, k + 1, n0)) = IF k + 1 <= n0 THEN n0 - (k + 1) + 1 ELSE 0
        /\ \A i \in 1 .. n0 - (k + 1) + 1 : SubSeq(ids, k + 1, n0)[i] = ids[k + 1 + i - 1]
    <3>1. k + 1 \in Int /\ n0 \in Int BY <1>1
    <3> HIDE DEF n0
    <3> QED BY <2>1, <3>1, SubSeqProperties
  <2> HIDE DEF n0
  <2>3. \A i \in 1 .. n0 - k : SubSeq(ids, k + 1, n0)[i] = ids[k + i]
    <3> SUFFICES ASSUME NEW i \in 1 .. n0 - k PROVE SubSeq(ids, k + 1, n0)[i] = ids[k + i] OBVIOUS
    <3>1. n0 - (k + 1) + 1 = n0 - k /\ k + 1 + i - 1 = k + i BY <1>1
    <3> QED BY <3>1, <2>2
  <2>4. Len(SubSeq(ids, k + 1, n0)) = n0 - k BY <2>2, <1>1, <1>b
  <2> QED BY <1>2, <2>2, <2>3, <2>4
<1> DEFINE c == k + size
<1>4. size \in 0 .. n0 - k /\ c \in k .. n0 /\ (c < n0 => k < c) /\ (Len(rest) > size <=> c < n0)
      /\ size \in Nat
  BY <1>1, <1>3
<1>5. page = SubSeq(ids, k + 1, c)
  <2> HIDE DEF size, n0
  <2>1. /\ SubSeq(rest, 1, size) \in Seq(E)
        /\ Len(SubSeq(rest, 1, size)) = IF 1 <= size THEN size - 1 + 1 ELSE 0
        /\ \A i \in 1 .. size - 1 + 1 : SubSeq(rest, 1, size)[i] = rest[1 + i - 1]
    <3>1. \A i \in 1 .. size : rest[i] \in E BY <1>1, <1>3, <1>4
    <3>2. size \in Int BY <1>4
    <3> QED BY <3>1, <3>2, SubSeqProperties
  <2>2. /\ SubSeq(ids, k + 1, c) \in Seq(E)
        /\ Len(SubSeq(ids, k + 1, c)) = IF k + 1 <= c THEN c - (k + 1) + 1 ELSE 0
        /\ \A i \in 1 .. c - (k + 1) + 1 : SubSeq(ids, k + 1, c)[i] = ids[k + 1 + i - 1]
    <3>1. \A i \in k + 1 .. c : ids[i] \in E BY <1>1, <1>4
    <3>2. k + 1 \in Int /\ c \in Int BY <1>4
    <3> HIDE DEF c
    <3> QED BY <3>1, <3>2, SubSeqProperties
  <2>3. Len(page) = size /\ Len(SubSeq(ids, k + 1, c)) = size BY <2>1, <2>2, <1>4
  <2>4. ASSUME NEW i \in 1 .. size PROVE page[i] = SubSeq(ids, k + 1, c)[i]
    <3>1. i \in 1 .. size - 1 + 1 /\ 1 + i - 1 = i /\ i \in 1 .. n0 - k BY <1>1, <1>4, <1>b
    <3>2. page[i] = rest[i] BY <3>1, <2>1
    <3>3. i \in 1 .. c - (k + 1) + 1 /\ k + 1 + i - 1 = k + i BY <1>4
    <3>4. SubSeq(ids, k + 1, c)[i] = ids[k + i] BY <3>3, <2>2
    <3> QED BY <3>1, <3>2, <3>4, <1>3
  <2> HIDE DEF c
  <2> QED BY <2>1, <2>2, <2>3, <2>4, SeqEqual
<1>6. Paginate(ids, cursor, limit) = [items |-> page, hasMore |-> Len(rest) > Len(page)]
  BY DEF Paginate, rest
<1>7. Len(page) = size
  <2> HIDE DEF size
  <2>1. \A i \in 1 .. size : rest[i] \in E BY <1>1, <1>3, <1>4
  <2>2. Len(SubSeq(rest, 1, size)) = IF 1 <= size THEN size - 1 + 1 ELSE 0
    BY <2>1, <1>4, SubSeqProperties
  <2> QED BY <2>2, <1>4
<1> HIDE DEF page, size, c
<1>8. \E more \in BOOLEAN :
         Paginate(ids, cursor, limit) = [items |-> page, hasMore |-> more] /\ (more <=> Len(rest) > Len(page))
  <2>1. CASE Len(rest) > Len(page) BY <1>6, <2>1
  <2>2. CASE ~(Len(rest) > Len(page))
    <3>1. (Len(rest) > Len(page)) = FALSE BY <2>2
    <3>2. Paginate(ids, cursor, limit) = [items |-> page, hasMore |-> FALSE] BY <1>6, <3>1
    <3> QED BY <3>2, <2>2
  <2> QED BY <2>1, <2>2
<1>9. PICK more \in BOOLEAN :
         Paginate(ids, cursor, limit) = [items |-> page, hasMore |-> more] /\ (more <=> Len(rest) > Len(page))
  BY <1>8
<1>10. (more <=> c < n0) /\ (more => k < c) BY <1>4, <1>7, <1>9
<1> HIDE DEF c, page, n0
<1> QED BY <1>4, <1>5, <1>9, <1>10 DEF n0

\* One page more, as AllPages reads them.
NextPage(ids, limit, read, n) ==
    IF n = 0 THEN Paginate(ids, 0, limit)
    ELSE IF ~read[n - 1].hasMore THEN read[n - 1]
    ELSE LET before == read[n - 1].items
             next == Paginate(ids, before[Len(before)], limit)
         IN  [items |-> before \o next.items, hasMore |-> next.hasMore]

\* The pages can be read one after another: the recursive function is there.
LEMMA PagesAreRead ==
    ASSUME NEW ids, NEW limit, NEW m \in Nat
    PROVE  \E read : read = [n \in 0 .. m |-> NextPage(ids, limit, read, n)]
<1> DEFINE Reads(g, k) == g = [n \in 0 .. k |-> NextPage(ids, limit, g, n)]
           unread == {k \in Nat : ~\E g : Reads(g, k)}
<1>1. unread = {}
  <2> SUFFICES ASSUME unread # {} PROVE FALSE OBVIOUS
  <2>1. PICK k \in unread : \A j \in unread : k <= j
    <3>1. unread \subseteq Nat OBVIOUS
    <3> HIDE DEF unread
    <3> QED BY <3>1, LeastElement
  <2>2. k \in Nat /\ ~\E g : Reads(g, k) OBVIOUS
  <2>3. CASE k = 0
    <3> DEFINE g == [n \in 0 .. 0 |-> Paginate(ids, 0, limit)]
    <3>1. \A n \in 0 .. 0 : NextPage(ids, limit, g, n) = Paginate(ids, 0, limit)
      <4> HIDE DEF g
      <4>1. NextPage(ids, limit, g, 0) = Paginate(ids, 0, limit) BY Zenon DEF NextPage
      <4>2. \A n \in 0 .. 0 : n = 0 OBVIOUS
      <4> QED BY <4>1, <4>2
    <3>2. g = [n \in 0 .. 0 |-> NextPage(ids, limit, g, n)]
      <4> HIDE DEF g
      <4>1. g = [n \in 0 .. 0 |-> Paginate(ids, 0, limit)] BY DEF g
      <4> QED BY <3>1, <4>1
    <3> QED BY <3>2, <2>2, <2>3
  <2>4. CASE k # 0
    <3>1. k - 1 \in Nat /\ k - 1 \notin unread BY <2>1, <2>2, <2>4
    <3>2. PICK g : Reads(g, k - 1) BY <3>1
    <3> DEFINE h == [n \in 0 .. k |-> IF n = k THEN NextPage(ids, limit, g, k) ELSE g[n]]
    <3>3. ASSUME NEW n \in 0 .. k PROVE h[n] = NextPage(ids, limit, h, n)
      <4>1. n # 0 => n - 1 \in 0 .. k - 1 /\ n - 1 # k BY <2>2
      <4>2. n # 0 => h[n - 1] = g[n - 1] BY <4>1, <2>2
      <4>3. NextPage(ids, limit, h, n) = NextPage(ids, limit, g, n)
        <5> HIDE DEF h
        <5> QED BY <4>2 DEF NextPage
      <4>4. CASE n = k BY <4>3, <4>4
      <4>5. CASE n # k
        <5>1. n \in 0 .. k - 1 BY <4>5, <2>2
        <5>2. g[n] = NextPage(ids, limit, g, n) BY <5>1, <3>2
        <5>3. h[n] = g[n] BY <4>5
        <5> QED BY <4>3, <5>2, <5>3
      <4> QED BY <4>4, <4>5
    <3>4. DOMAIN h = 0 .. k /\ h = [n \in 0 .. k |-> h[n]] OBVIOUS
    <3> HIDE DEF h
    <3>5. h = [n \in 0 .. k |-> NextPage(ids, limit, h, n)] BY <3>3, <3>4
    <3> QED BY <3>5, <2>2
  <2> QED BY <2>3, <2>4
<1> QED BY <1>1

\* A caller that follows the cursors of getMessages() or getConversations() page by page, of
\* whatever size, reads a list to its end and every id once.
THEOREM PagesAddUp ==
    ASSUME NEW E, 0 \notin E, NEW ids \in Seq(E), Distinct(ids), NEW limit \in Nat \ {0}
    PROVE  AllPages(ids, limit) = [items |-> ids, hasMore |-> FALSE]
<1> DEFINE n0 == Len(ids)
           read == CHOOSE f : f = [n \in 0 .. n0 |-> NextPage(ids, limit, f, n)]
<1>1. n0 \in Nat /\ \A n \in 1 .. n0 : ids[n] \in E OBVIOUS
<1>2. AllPages(ids, limit) = read[n0] BY DEF AllPages, NextPage
<1>3. read = [n \in 0 .. n0 |-> NextPage(ids, limit, read, n)] BY <1>1, PagesAreRead
<1> HIDE DEF read, n0
<1>4. \A n \in 0 .. n0 : read[n] = NextPage(ids, limit, read, n) BY <1>3
\* After n + 1 pages a beginning of the list is read: all of it, or more than n ids.
<1> DEFINE Got(n) == \E c \in 0 .. n0, more \in BOOLEAN :
                        /\ read[n] = [items |-> SubSeq(ids, 1, c), hasMore |-> more]
                        /\ more <=> c < n0
                        /\ more => n < c
           missed == {n \in 0 .. n0 : ~Got(n)}
<1>5. Got(0)
  <2>1. PICK c \in 0 .. n0, more \in BOOLEAN :
              /\ Paginate(ids, 0, limit) = [items |-> SubSeq(ids, 0 + 1, c), hasMore |-> more]
              /\ more <=> c < n0
              /\ more => 0 < c
    BY <1>1, PageHas DEF n0
  <2>2. read[0] = NextPage(ids, limit, read, 0) BY <1>1, <1>4
  <2>3. read[0] = Paginate(ids, 0, limit) BY <2>2, Zenon DEF NextPage
  <2> QED BY <2>1, <2>3
<1>6. ASSUME NEW n \in 1 .. n0, Got(n - 1) PROVE Got(n)
  <2>1. PICK k \in 0 .. n0, rest \in BOOLEAN :
              /\ read[n - 1] = [items |-> SubSeq(ids, 1, k), hasMore |-> rest]
              /\ rest <=> k < n0
              /\ rest => n - 1 < k
    BY <1>6
  <2>2. n \in 0 .. n0 /\ n # 0 /\ n \in Int BY <1>1
  <2>3. read[n] = NextPage(ids, limit, read, n) BY <1>4, <2>2
  <2>4. CASE k = n0
    <3>1. ~rest BY <2>1, <2>4, <1>1
    <3>2. read[n] = read[n - 1]
      <4>1. n # 0 /\ ~read[n - 1].hasMore BY <2>1, <2>2, <3>1
      <4> QED BY <2>3, <4>1, Zenon DEF NextPage
    <3> QED BY <2>1, <3>1, <3>2
  <2>5. CASE k # n0
    <3>1. k \in 1 .. n0 /\ n <= k /\ k < n0 BY <2>1, <2>2, <2>5, <1>1
    <3> DEFINE before == SubSeq(ids, 1, k)
    <3>2. before \in Seq(E) /\ Len(before) = k /\ before[k] = ids[k]
      <4>1. \A i \in 1 .. k : ids[i] \in E BY <1>1, <3>1
      <4>2. /\ SubSeq(ids, 1, k) \in Seq(E)
            /\ Len(SubSeq(ids, 1, k)) = IF 1 <= k THEN k - 1 + 1 ELSE 0
            /\ \A i \in 1 .. k - 1 + 1 : SubSeq(ids, 1, k)[i] = ids[1 + i - 1]
        BY <4>1, <3>1, SubSeqProperties
      <4>3. k \in 1 .. k - 1 + 1 /\ 1 + k - 1 = k BY <3>1
      <4> QED BY <4>2, <4>3, <3>1
    <3>3. PICK c \in k .. n0, more \in BOOLEAN :
              /\ Paginate(ids, ids[k], limit) = [items |-> SubSeq(ids, k + 1, c), hasMore |-> more]
              /\ more <=> c < n0
              /\ more => k < c
      <4>1. k \in 0 .. Len(ids) /\ ids[k] = IF k = 0 THEN 0 ELSE ids[k] BY <3>1 DEF n0
      <4> QED BY <4>1, PageHas DEF n0
    <3>4. read[n] = [items |-> before \o SubSeq(ids, k + 1, c), hasMore |-> more]
      <4>1. read[n - 1] = [items |-> before, hasMore |-> rest] /\ rest BY <2>1, <3>1
      <4> DEFINE next == Paginate(ids, before[Len(before)], limit)
      <4> HIDE DEF before
      <4>a. n # 0 BY <2>2
      <4>b. NextPage(ids, limit, read, n) = [items |-> before \o next.items, hasMore |-> next.hasMore]
        <5>1. read[n - 1].items = before /\ read[n - 1].hasMore BY <4>1
        <5> QED BY <4>a, <5>1, Zenon DEF NextPage
      <4>2. read[n] = [items |-> before \o next.items, hasMore |-> next.hasMore] BY <2>3, <4>b
      <4>3. next = [items |-> SubSeq(ids, k + 1, c), hasMore |-> more] BY <3>2, <3>3
      <4>4. next.items = SubSeq(ids, k + 1, c) /\ next.hasMore = more BY <4>3
      <4> HIDE DEF next
      <4> QED BY <4>2, <4>4
    <3>5. before \o SubSeq(ids, k + 1, c) = SubSeq(ids, 1, c)
      <4>1. 1 \in 1 .. Len(ids) + 1 /\ k \in 1 - 1 .. Len(ids) /\ c \in k .. Len(ids) BY <1>1, <3>1 DEF n0
      <4> QED BY <4>1, ConcatAdjacentSubSeq
    <3>6. c \in 0 .. n0 /\ (more <=> c < n0) /\ (more => n < c) BY <3>1, <3>3, <2>2
    <3> HIDE DEF before
    <3> QED BY <3>4, <3>5, <3>6
  <2> QED BY <2>4, <2>5
<1> HIDE DEF Got
<1>7. missed = {}
  <2> SUFFICES ASSUME missed # {} PROVE FALSE OBVIOUS
  <2>1. PICK n \in missed : \A j \in missed : n <= j
    <3>1. missed \subseteq Nat BY <1>1
    <3> HIDE DEF missed
    <3> QED BY <3>1, LeastElement
  <2>2. n # 0 BY <1>5
  <2>3. n \in 1 .. n0 /\ n - 1 \in 0 .. n0 /\ n - 1 \notin missed BY <2>1, <2>2, <1>1
  <2> QED BY <2>3, <1>6
<1>8. Got(n0) BY <1>7, <1>1
<1>9. read[n0] = [items |-> SubSeq(ids, 1, n0), hasMore |-> FALSE]
  <2>1. PICK c \in 0 .. n0, more \in BOOLEAN :
              /\ read[n0] = [items |-> SubSeq(ids, 1, c), hasMore |-> more]
              /\ more <=> c < n0
              /\ more => n0 < c
    BY <1>8 DEF Got
  <2>2. ~more /\ c = n0 BY <2>1, <1>1
  <2> QED BY <2>1, <2>2
<1> QED BY <1>2, <1>9, SubSeqFull DEF n0

-------------------------------------------------------------------------------
(* Writing. *)

IsPut(new, map, i, v) ==
    DOMAIN new = DOMAIN map \cup {i} /\ \A j \in DOMAIN new : new[j] = IF j = i THEN v ELSE map[j]
IsWithout(new, map, i) ==
    DOMAIN new = DOMAIN map \ {i} /\ \A j \in DOMAIN new : new[j] = map[j]

\* What Put, MapWithout and the engine's maps do to what is there.
LEMMA PutHas ==
    ASSUME NEW map, IsFiniteSet(DOMAIN map), NEW i, NEW v, NEW new, new = Put(map, i, v)
    PROVE  IsFiniteSet(DOMAIN new) /\ IsPut(new, map, i, v)
<1>1. IsPut(new, map, i, v) BY DEF Put, IsPut
<1>2. IsFiniteSet(DOMAIN map \cup {i}) BY FS_AddElement
<1> QED BY <1>1, <1>2 DEF IsPut

LEMMA MapWithoutHas ==
    ASSUME NEW map, IsFiniteSet(DOMAIN map), NEW i, NEW new, new = MapWithout(map, i)
    PROVE  IsFiniteSet(DOMAIN new) /\ IsWithout(new, map, i)
<1>1. IsWithout(new, map, i) BY DEF MapWithout, IsWithout
<1>2. IsFiniteSet(DOMAIN map \ {i}) BY FS_RemoveElement
<1> QED BY <1>1, <1>2 DEF IsWithout

\* The entries of a Map: their ids once each.
IdsOnce(entries) == \A m, n \in 1 .. Len(entries) : entries[m].id = entries[n].id => m = n

\* What set() and delete() make of the entries of a Map.
HasSet(new, entries, i, v) ==
    /\ IdsOnce(entries) => IdsOnce(new)
    /\ \A n \in 1 .. Len(new) :
          \/ new[n].id = i /\ new[n].value = v
          \/ new[n].id # i /\ \E m \in 1 .. Len(entries) : new[n] = entries[m]
    /\ \E n \in 1 .. Len(new) : new[n].id = i
    /\ \A m \in 1 .. Len(entries) : \E n \in 1 .. Len(new) : new[n].id = entries[m].id
HasDeleted(new, entries, i) ==
    /\ IdsOnce(entries) => IdsOnce(new)
    /\ \A n \in 1 .. Len(new) : new[n].id # i /\ \E m \in 1 .. Len(entries) : new[n] = entries[m]
    /\ \A m \in 1 .. Len(entries) : entries[m].id # i => \E n \in 1 .. Len(new) : new[n] = entries[m]

\* A Map after set(): the id is there once, with its value, and every other as before.
LEMMA MapSetHas ==
    ASSUME NEW E, NEW entries \in Seq(E), NEW i, NEW v, [id |-> i, value |-> v] \in E,
           NEW new, new = MapSet(entries, i, v)
    PROVE  new \in Seq(E) /\ HasSet(new, entries, i, v)
<1> DEFINE n0 == Len(entries)
           e == [id |-> i, value |-> v]
           put == [n \in DOMAIN entries |-> IF entries[n].id = i THEN e ELSE entries[n]]
           app == Append(entries, e)
<1>1. n0 \in Nat /\ DOMAIN entries = 1 .. n0 /\ e \in E /\ \A n \in 1 .. n0 : entries[n] \in E OBVIOUS
<1>2. e.id = i /\ e.value = v OBVIOUS
<1>3. CASE \E n \in 1 .. n0 : entries[n].id = i
  <2>1. MapSet(entries, i, v) = put BY <1>1, <1>3 DEF MapSet
  <2>2. \A n \in 1 .. n0 : put[n] = IF entries[n].id = i THEN e ELSE entries[n] BY <1>1
  <2>3. put \in [1 .. n0 -> E] BY <1>1
  <2> HIDE DEF put, e, n0
  <2>4. put \in Seq(E) /\ Len(put) = n0 BY <1>1, <2>3
  <2>5. \A n \in 1 .. n0 : put[n].id = entries[n].id BY <2>2, <1>2
  <2>6. IdsOnce(entries) => IdsOnce(put) BY <2>4, <2>5 DEF IdsOnce, n0
  <2>7. \A n \in 1 .. n0 : \/ put[n].id = i /\ put[n].value = v
                           \/ put[n].id # i /\ \E m \in 1 .. n0 : put[n] = entries[m]
    BY <2>2, <2>5, <1>2
  <2> QED BY <1>3, <2>1, <2>4, <2>5, <2>6, <2>7 DEF n0, HasSet
<1>4. CASE ~\E n \in 1 .. n0 : entries[n].id = i
  <2>1. MapSet(entries, i, v) = app BY <1>1, <1>4 DEF MapSet
  <2> HIDE DEF e
  <2>2. /\ app \in Seq(E) /\ Len(app) = n0 + 1
        /\ \A n \in 1 .. n0 : app[n] = entries[n]
        /\ app[n0 + 1] = e
    BY <1>1, AppendProperties
  <2> HIDE DEF app, n0
  <2>3. \A n \in 1 .. n0 + 1 : n \in 1 .. n0 \/ n = n0 + 1 BY <1>1
  <2>4. IdsOnce(entries) => IdsOnce(app)
    <3> SUFFICES ASSUME IdsOnce(entries), NEW m \in 1 .. n0 + 1, NEW n \in 1 .. n0 + 1, app[m].id = app[n].id
                 PROVE  m = n
      BY <2>2 DEF IdsOnce
    <3>1. CASE m \in 1 .. n0 /\ n \in 1 .. n0 BY <3>1, <2>2 DEF IdsOnce, n0
    <3>2. CASE m = n0 + 1 /\ n \in 1 .. n0 BY <3>2, <2>2, <1>2, <1>4
    <3>3. CASE m \in 1 .. n0 /\ n = n0 + 1 BY <3>3, <2>2, <1>2, <1>4
    <3> QED BY <3>1, <3>2, <3>3, <2>3
  <2>5. \A n \in 1 .. n0 + 1 : \/ app[n].id = i /\ app[n].value = v
                               \/ app[n].id # i /\ \E m \in 1 .. n0 : app[n] = entries[m]
    BY <2>2, <2>3, <1>2, <1>4
  <2>6. n0 + 1 \in 1 .. n0 + 1 /\ \A m \in 1 .. n0 : m \in 1 .. n0 + 1 BY <1>1
  <2> QED BY <2>1, <2>2, <2>4, <2>5, <2>6, <1>2 DEF n0, HasSet
<1> QED BY <1>3, <1>4

\* A Map after delete(): what is left stays in its order.
LEMMA MapDeleteHas ==
    ASSUME NEW E, NEW entries \in Seq(E), NEW i, NEW new, new = MapDelete(entries, i)
    PROVE  new \in Seq(E) /\ HasDeleted(new, entries, i)
<1> DEFINE P == {n \in DOMAIN entries : entries[n].id # i}
<1>1. new = Filtered(entries, P) BY DEF MapDelete
<1>2. P \subseteq 1 .. Len(entries) OBVIOUS
<1>3. /\ new \in Seq(E) /\ Len(new) = Cardinality(P) /\ IsFiniteSet(P)
      /\ \E at \in [1 .. Len(new) -> P] :
            /\ \A k \in 1 .. Len(new) : new[k] = entries[at[k]]
            /\ \A n \in P : \E k \in 1 .. Len(new) : at[k] = n
            /\ \A j, k \in 1 .. Len(new) : j < k => at[j] < at[k]
  <2> HIDE DEF P
  <2> DEFINE f == Filtered(entries, P)
  <2>1. /\ IsFiniteSet(P) /\ f \in Seq(E) /\ Len(f) = Cardinality(P)
        /\ \E at \in [1 .. Len(f) -> P] :
              /\ \A k \in 1 .. Len(f) : f[k] = entries[at[k]]
              /\ \A n \in P : \E k \in 1 .. Len(f) : at[k] = n
              /\ \A j, k \in 1 .. Len(f) : j < k => at[j] < at[k]
    BY <1>2, FilteredHas
  <2>2. new = f BY <1>1
  <2> HIDE DEF f
  <2> QED BY <2>1, <2>2
<1>4. PICK at \in [1 .. Len(new) -> P] :
            /\ \A k \in 1 .. Len(new) : new[k] = entries[at[k]]
            /\ \A n \in P : \E k \in 1 .. Len(new) : at[k] = n
            /\ \A j, k \in 1 .. Len(new) : j < k => at[j] < at[k]
  BY <1>3
<1>5. Len(new) \in Nat /\ \A k \in 1 .. Len(new) : at[k] \in P BY <1>3
<1>6. \A n \in P : n \in 1 .. Len(entries) /\ entries[n].id # i BY <1>2
<1>7. \A m \in 1 .. Len(entries) : entries[m].id # i => m \in P OBVIOUS
<1> HIDE DEF P
<1>8. ASSUME IdsOnce(entries) PROVE IdsOnce(new)
  <2> SUFFICES ASSUME NEW m \in 1 .. Len(new), NEW n \in 1 .. Len(new), new[m].id = new[n].id PROVE m = n
    BY DEF IdsOnce
  <2>1. at[m] = at[n] BY <1>4, <1>5, <1>6, <1>8 DEF IdsOnce
  <2>2. m < n \/ n < m \/ m = n BY <1>5
  <2>3. at[m] \in Int BY <1>5, <1>6
  <2>4. ~(m < n) /\ ~(n < m) BY <2>1, <2>3, <1>4
  <2> QED BY <2>2, <2>4
<1>9. \A n \in 1 .. Len(new) : new[n].id # i /\ \E m \in 1 .. Len(entries) : new[n] = entries[m]
  BY <1>4, <1>5, <1>6
<1>10. \A m \in 1 .. Len(entries) : entries[m].id # i => \E n \in 1 .. Len(new) : new[n] = entries[m]
  BY <1>4, <1>7
<1> QED BY <1>1, <1>3, <1>8, <1>9, <1>10 DEF HasDeleted

LEMMA QueryInitInv == QueryInit => QueryInv
<1> SUFFICES ASSUME QueryInit PROVE QueryInv OBVIOUS
<1>1. DOMAIN EmptyMap = {} /\ IsFiniteSet({}) BY FS_EmptySet DEF EmptyMap
<1>2. Len(<<>>) = 0 /\ \A n \in 1 .. 0 : FALSE OBVIOUS
<1>3. RecordsInv BY <1>1 DEF QueryInit, RecordsInv
<1>4. OwnInv
  <2>1. ownMessages = <<>> /\ ownConversations = <<>> /\ direct = FALSE BY DEF QueryInit
  <2>2. <<>> \in Seq([id : MessageIds, value : StoredMessages])
        /\ <<>> \in Seq([id : ConversationIds, value : StoredConversations]) OBVIOUS
  <2>3. DOMAIN messageMap = {} /\ DOMAIN conversationMap = {} BY <1>1 DEF QueryInit
  <2> QED BY <1>2, <2>1, <2>2, <2>3 DEF OwnInv
<1> QED BY <1>3, <1>4 DEF QueryInv

\* A write of a message to both kinds of storage.
LEMMA PutMessageKeeps ==
    ASSUME RecordsInv, NEW i \in MessageIds, NEW m \in StoredMessages,
           messageStore' = Put(messageStore, i, MessageRecord(m)), messageMap' = Put(messageMap, i, m),
           UNCHANGED <<conversationStore, conversationMap>>
    PROVE  RecordsInv'
<1>1. /\ IsFiniteSet(DOMAIN messageMap) /\ DOMAIN messageMap \subseteq MessageIds
      /\ DOMAIN messageStore = DOMAIN messageMap
      /\ \A j \in DOMAIN messageMap :
            messageMap[j] \in StoredMessages /\ messageStore[j] = MessageRecord(messageMap[j])
  BY DEF RecordsInv
<1>2. /\ DOMAIN messageMap' = DOMAIN messageMap \cup {i} /\ IsFiniteSet(DOMAIN messageMap')
      /\ DOMAIN messageStore' = DOMAIN messageMap \cup {i}
      /\ \A j \in DOMAIN messageMap' :
            /\ messageMap'[j] = IF j = i THEN m ELSE messageMap[j]
            /\ messageStore'[j] = IF j = i THEN MessageRecord(m) ELSE messageStore[j]
  <2>1. IsFiniteSet(DOMAIN messageMap') /\ IsPut(messageMap', messageMap, i, m) BY <1>1, PutHas
  <2>2. IsFiniteSet(DOMAIN messageStore) BY <1>1
  <2>3. IsPut(messageStore', messageStore, i, MessageRecord(m)) BY <2>2, PutHas
  <2> QED BY <1>1, <2>1, <2>3 DEF IsPut
<1>3. \A j \in DOMAIN messageMap' :
         messageMap'[j] \in StoredMessages /\ messageStore'[j] = MessageRecord(messageMap'[j])
  BY <1>1, <1>2
<1>4. DOMAIN messageMap' \subseteq MessageIds BY <1>1, <1>2
<1> QED BY <1>2, <1>3, <1>4 DEF RecordsInv

LEMMA PutConversationKeeps ==
    ASSUME RecordsInv, NEW i \in ConversationIds, NEW c \in StoredConversations,
           conversationStore' = Put(conversationStore, i, ConversationRecord(c)),
           conversationMap' = Put(conversationMap, i, c), UNCHANGED <<messageStore, messageMap>>
    PROVE  RecordsInv'
<1>1. /\ IsFiniteSet(DOMAIN conversationMap) /\ DOMAIN conversationMap \subseteq ConversationIds
      /\ DOMAIN conversationStore = DOMAIN conversationMap
      /\ \A j \in DOMAIN conversationMap :
            conversationMap[j] \in StoredConversations
            /\ conversationStore[j] = ConversationRecord(conversationMap[j])
  BY DEF RecordsInv
<1>2. /\ DOMAIN conversationMap' = DOMAIN conversationMap \cup {i} /\ IsFiniteSet(DOMAIN conversationMap')
      /\ DOMAIN conversationStore' = DOMAIN conversationMap \cup {i}
      /\ \A j \in DOMAIN conversationMap' :
            /\ conversationMap'[j] = IF j = i THEN c ELSE conversationMap[j]
            /\ conversationStore'[j] = IF j = i THEN ConversationRecord(c) ELSE conversationStore[j]
  <2>1. IsFiniteSet(DOMAIN conversationMap') /\ IsPut(conversationMap', conversationMap, i, c) BY <1>1, PutHas
  <2>2. IsFiniteSet(DOMAIN conversationStore) BY <1>1
  <2>3. IsPut(conversationStore', conversationStore, i, ConversationRecord(c)) BY <2>2, PutHas
  <2> QED BY <1>1, <2>1, <2>3 DEF IsPut
<1>3. \A j \in DOMAIN conversationMap' :
         conversationMap'[j] \in StoredConversations
         /\ conversationStore'[j] = ConversationRecord(conversationMap'[j])
  BY <1>1, <1>2
<1>4. DOMAIN conversationMap' \subseteq ConversationIds BY <1>1, <1>2
<1> QED BY <1>2, <1>3, <1>4 DEF RecordsInv

\* Whatever is done keeps the records those of the Maps.
LEMMA RecordsStep == RecordsInv /\ QueryNext => RecordsInv'
<1> SUFFICES ASSUME RecordsInv, QueryNext PROVE RecordsInv' OBVIOUS
<1>1. /\ IsFiniteSet(DOMAIN messageMap) /\ DOMAIN messageMap \subseteq MessageIds
      /\ DOMAIN messageStore = DOMAIN messageMap
      /\ \A j \in DOMAIN messageMap :
            messageMap[j] \in StoredMessages /\ messageStore[j] = MessageRecord(messageMap[j])
  BY DEF RecordsInv
<1>2. /\ IsFiniteSet(DOMAIN conversationMap) /\ DOMAIN conversationMap \subseteq ConversationIds
      /\ DOMAIN conversationStore = DOMAIN conversationMap
      /\ \A j \in DOMAIN conversationMap :
            conversationMap[j] \in StoredConversations
            /\ conversationStore[j] = ConversationRecord(conversationMap[j])
  BY DEF RecordsInv
<1>3. CASE KeepMessage
  <2>1. PICK i \in MessageIds, m \in StoredMessages :
              messageStore' = Put(messageStore, i, MessageRecord(m)) /\ messageMap' = Put(messageMap, i, m)
    BY <1>3 DEF KeepMessage
  <2>2. UNCHANGED <<conversationStore, conversationMap>> BY <1>3 DEF KeepMessage
  <2> QED BY <2>1, <2>2, PutMessageKeeps
<1>4. CASE DropMessage
  <2>1. PICK i \in DOMAIN messageMap :
              messageStore' = MapWithout(messageStore, i) /\ messageMap' = MapWithout(messageMap, i)
    BY <1>4 DEF DropMessage
  <2>2. UNCHANGED <<conversationStore, conversationMap>> BY <1>4 DEF DropMessage
  <2>3. /\ DOMAIN messageMap' = DOMAIN messageMap \ {i} /\ IsFiniteSet(DOMAIN messageMap')
        /\ DOMAIN messageStore' = DOMAIN messageMap \ {i}
        /\ \A j \in DOMAIN messageMap' : messageMap'[j] = messageMap[j] /\ messageStore'[j] = messageStore[j]
    <3>1. IsFiniteSet(DOMAIN messageMap') /\ IsWithout(messageMap', messageMap, i) BY <1>1, <2>1, MapWithoutHas
    <3>2. IsFiniteSet(DOMAIN messageStore) BY <1>1
    <3>3. IsWithout(messageStore', messageStore, i) BY <2>1, <3>2, MapWithoutHas
    <3> QED BY <1>1, <3>1, <3>3 DEF IsWithout
  <2>4. \A j \in DOMAIN messageMap' :
           messageMap'[j] \in StoredMessages /\ messageStore'[j] = MessageRecord(messageMap'[j])
    BY <1>1, <2>3
  <2> QED BY <1>1, <1>2, <2>2, <2>3, <2>4 DEF RecordsInv
<1>5. CASE ChangeMessage
  <2>1. PICK i \in DOMAIN messageMap : \E t \in Times :
              LET m == [messageStore[i].payload EXCEPT !.timestamp = t]
              IN  messageStore' = Put(messageStore, i, MessageRecord(m)) /\ messageMap' = Put(messageMap, i, m)
    BY <1>5 DEF ChangeMessage
  <2>2. PICK t \in Times :
              LET m == [messageStore[i].payload EXCEPT !.timestamp = t]
              IN  messageStore' = Put(messageStore, i, MessageRecord(m)) /\ messageMap' = Put(messageMap, i, m)
    BY <2>1
  <2> DEFINE m == [messageStore[i].payload EXCEPT !.timestamp = t]
  <2>3. messageStore[i].payload = messageMap[i] /\ messageMap[i] \in StoredMessages
    BY <1>1 DEF MessageRecord
  <2>4. m \in StoredMessages BY <2>3 DEF StoredMessages
  <2>5. messageStore' = Put(messageStore, i, MessageRecord(m)) /\ messageMap' = Put(messageMap, i, m) BY <2>2
  <2>6. i \in MessageIds /\ UNCHANGED <<conversationStore, conversationMap>> BY <1>1, <1>5 DEF ChangeMessage
  <2> HIDE DEF m
  <2> QED BY <2>4, <2>5, <2>6, PutMessageKeeps
<1>6. CASE CreateWithStorage
  <2>1. PICK i \in ConversationIds \ DOMAIN conversationMap, c \in StoredConversations :
              /\ conversationStore' = Put(conversationStore, i, ConversationRecord(c))
              /\ conversationMap' = Put(conversationMap, i, c)
    BY <1>6 DEF CreateWithStorage
  <2>2. UNCHANGED <<messageStore, messageMap>> BY <1>6 DEF CreateWithStorage
  <2> QED BY <2>1, <2>2, PutConversationKeeps
<1>7. CASE ChangeConversation
  <2>1. PICK i \in DOMAIN conversationMap, c \in StoredConversations :
              /\ conversationStore' = Put(conversationStore, i, ConversationRecord(c))
              /\ conversationMap' = Put(conversationMap, i, c)
    BY <1>7 DEF ChangeConversation
  <2>2. i \in ConversationIds /\ UNCHANGED <<messageStore, messageMap>> BY <1>2, <1>7 DEF ChangeConversation
  <2> QED BY <2>1, <2>2, PutConversationKeeps
<1>8. CASE DropConversation
  <2>1. PICK i \in DOMAIN conversationMap :
              /\ conversationStore' = MapWithout(conversationStore, i)
              /\ conversationMap' = MapWithout(conversationMap, i)
    BY <1>8 DEF DropConversation
  <2>2. UNCHANGED <<messageStore, messageMap>> BY <1>8 DEF DropConversation
  <2>3. /\ DOMAIN conversationMap' = DOMAIN conversationMap \ {i} /\ IsFiniteSet(DOMAIN conversationMap')
        /\ DOMAIN conversationStore' = DOMAIN conversationMap \ {i}
        /\ \A j \in DOMAIN conversationMap' :
              conversationMap'[j] = conversationMap[j] /\ conversationStore'[j] = conversationStore[j]
    <3>1. IsFiniteSet(DOMAIN conversationMap') /\ IsWithout(conversationMap', conversationMap, i) BY <1>2, <2>1, MapWithoutHas
    <3>2. IsFiniteSet(DOMAIN conversationStore) BY <1>2
    <3>3. IsWithout(conversationStore', conversationStore, i) BY <2>1, <3>2, MapWithoutHas
    <3> QED BY <1>2, <3>1, <3>3 DEF IsWithout
  <2>4. \A j \in DOMAIN conversationMap' :
           conversationMap'[j] \in StoredConversations
           /\ conversationStore'[j] = ConversationRecord(conversationMap'[j])
    BY <1>2, <2>3
  <2> QED BY <1>1, <1>2, <2>2, <2>3, <2>4 DEF RecordsInv
<1>9. CASE ClearStorage
  <2>1. DOMAIN EmptyMap = {} /\ IsFiniteSet({}) BY FS_EmptySet DEF EmptyMap
  <2> QED BY <1>9, <2>1 DEF ClearStorage, RecordsInv
<1> QED BY <1>3, <1>4, <1>5, <1>6, <1>7, <1>8, <1>9 DEF QueryNext

\* The engine's own maps follow what the engine writes.
LEMMA OwnStep == RecordsInv /\ OwnInv /\ QueryNext => OwnInv'
<1> SUFFICES ASSUME RecordsInv, OwnInv, QueryNext PROVE OwnInv' OBVIOUS
<1> DEFINE M == [id : MessageIds, value : StoredMessages]
           C == [id : ConversationIds, value : StoredConversations]
           SameMessages == /\ \A n \in 1 .. Len(ownMessages) :
                                /\ ownMessages[n].id \in DOMAIN messageMap
                                /\ ownMessages[n].value = messageMap[ownMessages[n].id]
                           /\ \A i \in DOMAIN messageMap :
                                \E n \in 1 .. Len(ownMessages) : ownMessages[n].id = i
           HasConversations == \A i \in DOMAIN conversationMap :
                                  \E n \in 1 .. Len(ownConversations) : ownConversations[n].id = i
<1>1. /\ direct \in BOOLEAN /\ ownMessages \in Seq(M) /\ ownConversations \in Seq(C) /\ IdsOnce(ownMessages)
      /\ ~direct => SameMessages /\ HasConversations
  BY DEF OwnInv, IdsOnce
<1>2. IsFiniteSet(DOMAIN messageMap) /\ IsFiniteSet(DOMAIN conversationMap)
      /\ DOMAIN messageMap \subseteq MessageIds
  BY DEF RecordsInv
<1>3. SUFFICES /\ direct' \in BOOLEAN /\ ownMessages' \in Seq(M) /\ ownConversations' \in Seq(C)
               /\ IdsOnce(ownMessages') /\ (~direct' => SameMessages' /\ HasConversations')
  BY <1>3 DEF OwnInv, IdsOnce
<1>4. CASE KeepMessage
  <2>1. PICK i \in MessageIds, m \in StoredMessages :
              messageMap' = Put(messageMap, i, m) /\ ownMessages' = MapSet(ownMessages, i, m)
    BY <1>4 DEF KeepMessage
  <2>2. UNCHANGED <<conversationMap, ownConversations, direct>> BY <1>4 DEF KeepMessage
  <2>3. /\ DOMAIN messageMap' = DOMAIN messageMap \cup {i}
        /\ \A j \in DOMAIN messageMap' : messageMap'[j] = IF j = i THEN m ELSE messageMap[j]
    <3>1. IsPut(messageMap', messageMap, i, m) BY <1>2, <2>1, PutHas
    <3> QED BY <3>1 DEF IsPut
  <2>4. /\ ownMessages' \in Seq(M) /\ (IdsOnce(ownMessages) => IdsOnce(ownMessages'))
        /\ \A n \in 1 .. Len(ownMessages') :
              \/ ownMessages'[n].id = i /\ ownMessages'[n].value = m
              \/ ownMessages'[n].id # i /\ \E k \in 1 .. Len(ownMessages) : ownMessages'[n] = ownMessages[k]
        /\ \E n \in 1 .. Len(ownMessages') : ownMessages'[n].id = i
        /\ \A k \in 1 .. Len(ownMessages) :
              \E n \in 1 .. Len(ownMessages') : ownMessages'[n].id = ownMessages[k].id
    <3> HIDE DEF M, C
    <3>1. [id |-> i, value |-> m] \in M BY DEF M
    <3>2. ownMessages \in Seq(M) BY <1>1
    <3>3. ownMessages' \in Seq(M) /\ HasSet(ownMessages', ownMessages, i, m) BY <2>1, <3>1, <3>2, MapSetHas
    <3> QED BY <3>3 DEF HasSet
  <2>5. ~direct => SameMessages'
    <3> SUFFICES ASSUME ~direct PROVE SameMessages' OBVIOUS
    <3>1. SameMessages BY <1>1
    <3>2. ASSUME NEW n \in 1 .. Len(ownMessages')
          PROVE  ownMessages'[n].id \in DOMAIN messageMap'
                 /\ ownMessages'[n].value = messageMap'[ownMessages'[n].id]
      <4>1. CASE ownMessages'[n].id = i /\ ownMessages'[n].value = m BY <4>1, <2>3
      <4>2. CASE ownMessages'[n].id # i /\ \E k \in 1 .. Len(ownMessages) : ownMessages'[n] = ownMessages[k]
        BY <4>2, <2>3, <3>1
      <4> QED BY <4>1, <4>2, <2>4
    <3>3. ASSUME NEW j \in DOMAIN messageMap' PROVE \E n \in 1 .. Len(ownMessages') : ownMessages'[n].id = j
      <4>1. CASE j = i BY <4>1, <2>4
      <4>2. CASE j # i
        <5>1. PICK k \in 1 .. Len(ownMessages) : ownMessages[k].id = j BY <4>2, <2>3, <3>1
        <5> QED BY <5>1, <2>4
      <4> QED BY <4>1, <4>2
    <3> QED BY <3>2, <3>3
  <2> HIDE DEF M, C, SameMessages
  <2> QED BY <1>1, <2>2, <2>4, <2>5
<1>5. CASE DropMessage
  <2>1. PICK i \in DOMAIN messageMap :
              messageMap' = MapWithout(messageMap, i) /\ ownMessages' = MapDelete(ownMessages, i)
    BY <1>5 DEF DropMessage
  <2>2. UNCHANGED <<conversationMap, ownConversations, direct>> BY <1>5 DEF DropMessage
  <2>3. /\ DOMAIN messageMap' = DOMAIN messageMap \ {i}
        /\ \A j \in DOMAIN messageMap' : messageMap'[j] = messageMap[j]
    <3>1. IsWithout(messageMap', messageMap, i) BY <1>2, <2>1, MapWithoutHas
    <3> QED BY <3>1 DEF IsWithout
  <2>4. /\ ownMessages' \in Seq(M) /\ (IdsOnce(ownMessages) => IdsOnce(ownMessages'))
        /\ \A n \in 1 .. Len(ownMessages') :
              ownMessages'[n].id # i /\ \E k \in 1 .. Len(ownMessages) : ownMessages'[n] = ownMessages[k]
        /\ \A k \in 1 .. Len(ownMessages) : ownMessages[k].id # i =>
              \E n \in 1 .. Len(ownMessages') : ownMessages'[n] = ownMessages[k]
    <3> HIDE DEF M, C
    <3>2. ownMessages \in Seq(M) BY <1>1
    <3>3. ownMessages' \in Seq(M) /\ HasDeleted(ownMessages', ownMessages, i) BY <2>1, <3>2, MapDeleteHas
    <3> QED BY <3>3 DEF HasDeleted
  <2>5. ~direct => SameMessages'
    <3> SUFFICES ASSUME ~direct PROVE SameMessages' OBVIOUS
    <3>1. SameMessages BY <1>1
    <3>2. ASSUME NEW n \in 1 .. Len(ownMessages')
          PROVE  ownMessages'[n].id \in DOMAIN messageMap'
                 /\ ownMessages'[n].value = messageMap'[ownMessages'[n].id]
      <4>1. PICK k \in 1 .. Len(ownMessages) : ownMessages'[n] = ownMessages[k] /\ ownMessages'[n].id # i BY <2>4
      <4>2. ownMessages[k].id \in DOMAIN messageMap /\ ownMessages[k].value = messageMap[ownMessages[k].id]
        BY <3>1
      <4> QED BY <4>1, <4>2, <2>3
    <3>3. ASSUME NEW j \in DOMAIN messageMap' PROVE \E n \in 1 .. Len(ownMessages') : ownMessages'[n].id = j
      <4>1. j \in DOMAIN messageMap /\ j # i BY <2>3
      <4>2. PICK k \in 1 .. Len(ownMessages) : ownMessages[k].id = j BY <4>1, <3>1
      <4> QED BY <4>1, <4>2, <2>4
    <3> QED BY <3>2, <3>3
  <2> HIDE DEF M, C, SameMessages
  <2> QED BY <1>1, <2>2, <2>4, <2>5
<1>6. CASE CreateWithStorage
  <2>1. PICK i \in ConversationIds \ DOMAIN conversationMap, c \in StoredConversations :
              /\ conversationMap' = Put(conversationMap, i, c)
              /\ ownConversations' = MapSet(ownConversations, i, c)
    BY <1>6 DEF CreateWithStorage
  <2>2. UNCHANGED <<messageMap, ownMessages, direct>> BY <1>6 DEF CreateWithStorage
  <2>3. DOMAIN conversationMap' = DOMAIN conversationMap \cup {i}
    <3>1. IsPut(conversationMap', conversationMap, i, c) BY <1>2, <2>1, PutHas
    <3> QED BY <3>1 DEF IsPut
  <2>4. /\ ownConversations' \in Seq(C)
        /\ \E n \in 1 .. Len(ownConversations') : ownConversations'[n].id = i
        /\ \A k \in 1 .. Len(ownConversations) :
              \E n \in 1 .. Len(ownConversations') : ownConversations'[n].id = ownConversations[k].id
    <3> HIDE DEF M, C
    <3>1. [id |-> i, value |-> c] \in C BY DEF C
    <3>2. ownConversations \in Seq(C) BY <1>1
    <3>3. ownConversations' \in Seq(C) /\ HasSet(ownConversations', ownConversations, i, c) BY <2>1, <3>1, <3>2, MapSetHas
    <3> QED BY <3>3 DEF HasSet
  <2>5. ~direct => HasConversations'
    <3> SUFFICES ASSUME ~direct, NEW j \in DOMAIN conversationMap'
                 PROVE  \E n \in 1 .. Len(ownConversations') : ownConversations'[n].id = j
      OBVIOUS
    <3>1. CASE j = i BY <3>1, <2>4
    <3>2. CASE j # i
      <4>1. PICK k \in 1 .. Len(ownConversations) : ownConversations[k].id = j BY <3>2, <2>3, <1>1
      <4> QED BY <4>1, <2>4
    <3> QED BY <3>1, <3>2
  <2>6. SameMessages => SameMessages' BY <2>2
  <2> HIDE DEF M, C, SameMessages
  <2> QED BY <1>1, <2>2, <2>4, <2>5, <2>6
<1>7. CASE ChangeMessage \/ ChangeConversation \/ DropConversation \/ ClearStorage
  <2>1. UNCHANGED <<ownMessages, ownConversations>> /\ direct' = TRUE
    BY <1>7 DEF ChangeMessage, ChangeConversation, DropConversation, ClearStorage
  <2> HIDE DEF M, C
  <2> QED BY <1>1, <2>1
<1> QED BY <1>4, <1>5, <1>6, <1>7 DEF QueryNext

LEMMA QueryInvariant == QuerySpec => []QueryInv
<1>1. QueryInit => QueryInv BY QueryInitInv
<1>2. QueryInv /\ [QueryNext]_queryVars => QueryInv'
  <2>1. QueryInv /\ QueryNext => QueryInv' BY RecordsStep, OwnStep DEF QueryInv
  <2>2. QueryInv /\ UNCHANGED queryVars => QueryInv' BY DEF QueryInv, RecordsInv, OwnInv, queryVars
  <2> QED BY <2>1, <2>2
<1> QED BY <1>1, <1>2, PTL DEF QuerySpec

-------------------------------------------------------------------------------
(* Reading. *)

\* A list of a set is a sequence of it, with no id twice.
LEMMA ListIsSeq ==
    ASSUME NEW S, IsFiniteSet(S), NEW key, Keys(S, key), NEW s, Lists(s, S, key)
    PROVE  /\ s \in Seq(S) /\ Len(s) = Cardinality(S) /\ ToSet(s) = S
           /\ \A m, n \in 1 .. Cardinality(S) : s[m] = s[n] => m = n
<1> DEFINE n0 == Cardinality(S)
<1>1. n0 \in Nat BY FS_CardinalityType
<1>2. /\ s \in [1 .. n0 -> S]
      /\ \A i \in S : \E n \in 1 .. n0 : s[n] = i
      /\ \A m, n \in 1 .. n0 : m < n => KeyLess(key[s[m]], key[s[n]])
  BY DEF Lists
<1> HIDE DEF n0
<1>3. s \in Seq(S) /\ Len(s) = n0 BY <1>1, <1>2
<1>4. ToSet(s) = S BY <1>2, <1>3 DEF ToSet
<1>5. \A m, n \in 1 .. n0 : s[m] = s[n] => m = n
  <2> SUFFICES ASSUME NEW m \in 1 .. n0, NEW n \in 1 .. n0, m # n, s[m] = s[n] PROVE FALSE OBVIOUS
  <2>1. m < n \/ n < m BY <1>1
  <2>2. KeyLess(key[s[m]], key[s[m]]) BY <2>1, <1>2
  <2>3. key[s[m]] \in Int \X Int BY <1>2 DEF Keys
  <2> QED BY <2>2, <2>3, KeyOrder
<1> QED BY <1>3, <1>4, <1>5 DEF n0

\* Read from either end, no id comes twice.
LEMMA DirectedDistinct ==
    ASSUME NEW E, NEW s \in Seq(E), NEW d, Distinct(s)
    PROVE  Distinct(Directed(s, d))
<1> DEFINE r == Directed(s, d)
           n0 == Len(s)
<1>1. /\ n0 \in Nat /\ Len(r) = n0
      /\ d = "desc" => \A n \in 1 .. n0 : r[n] = s[n0 - n + 1]
      /\ d # "desc" => r = s
  BY DirectedHas
<1>2. \A m, n \in 1 .. n0 : s[m] = s[n] => m = n BY DEF Distinct
<1> HIDE DEF r, n0
<1>3. ASSUME d = "desc", NEW m \in 1 .. n0, NEW n \in 1 .. n0, r[m] = r[n] PROVE m = n
  <2>1. n0 - m + 1 \in 1 .. n0 /\ n0 - n + 1 \in 1 .. n0 BY <1>1
  <2>2. s[n0 - m + 1] = s[n0 - n + 1] BY <1>1, <1>3
  <2>3. n0 - m + 1 = n0 - n + 1 BY <1>2, <2>1, <2>2
  <2> QED BY <1>1, <2>3
<1>4. \A m, n \in 1 .. Len(r) : r[m] = r[n] => m = n BY <1>1, <1>2, <1>3
<1> QED BY <1>4 DEF Distinct, r

\* Keys that order a set by time first.
ByTime(S, key, time) == \A i \in S : key[i][1] = time[i]

\* Two lists of a set by the same times, read from one end, are the same but for the order
\* of what has one time; and they are one if their keys order everything alike.
LEMMA TwoLists ==
    ASSUME NEW S, IsFiniteSet(S), NEW key, Keys(S, key), NEW other, Keys(S, other), NEW time,
           ByTime(S, key, time), ByTime(S, other, time),
           NEW s, NEW t, Lists(s, S, key), Lists(t, S, other), NEW d
    PROVE  /\ SameByTime(Directed(s, d), Directed(t, d), time)
           /\ (\A i, j \in S : KeyLess(other[i], other[j]) => KeyLess(key[i], key[j])) => s = t
<1> DEFINE n0 == Cardinality(S)
           ds == Directed(s, d)
           dt == Directed(t, d)
<1>1. n0 \in Nat BY FS_CardinalityType
<1>2. s \in Seq(S) /\ t \in Seq(S) /\ Len(s) = n0 /\ Len(t) = n0 /\ ToSet(s) = S /\ ToSet(t) = S
  BY ListIsSeq
<1>3. \A n \in 1 .. n0 : time[s[n]] = time[t[n]]
  <2>1. \A n \in 1 .. n0 : s[n] \in S /\ t[n] \in S BY DEF Lists
  <2>2. \A n \in 1 .. n0 : key[s[n]][1] = key[t[n]][1]
    <3>1. \A i \in S : key[i][1] = other[i][1] BY DEF ByTime
    <3> QED BY <3>1, ListsByTime
  <2> QED BY <2>1, <2>2 DEF ByTime
<1>4. /\ ds \in Seq(S) /\ Len(ds) = n0 /\ ToSet(ds) = S
      /\ d = "desc" => \A n \in 1 .. n0 : ds[n] = s[n0 - n + 1]
      /\ d # "desc" => ds = s
  BY <1>2, DirectedHas
<1>5. /\ dt \in Seq(S) /\ Len(dt) = n0 /\ ToSet(dt) = S
      /\ d = "desc" => \A n \in 1 .. n0 : dt[n] = t[n0 - n + 1]
      /\ d # "desc" => dt = t
  BY <1>2, DirectedHas
<1> HIDE DEF n0, ds, dt
<1>6. ASSUME NEW n \in 1 .. n0 PROVE time[ds[n]] = time[dt[n]]
  <2>1. n0 - n + 1 \in 1 .. n0 BY <1>1
  <2> QED BY <2>1, <1>3, <1>4, <1>5
<1>7. DOMAIN ds = 1 .. n0 BY <1>1, <1>4
<1>8. SameByTime(ds, dt, time) BY <1>4, <1>5, <1>6, <1>7 DEF SameByTime
<1>9. ASSUME \A i, j \in S : KeyLess(other[i], other[j]) => KeyLess(key[i], key[j]) PROVE s = t
  <2>1. /\ t \in [1 .. n0 -> S] /\ \A i \in S : \E n \in 1 .. n0 : t[n] = i
        /\ \A m, n \in 1 .. n0 : m < n => KeyLess(other[t[m]], other[t[n]])
    BY DEF Lists, n0
  <2>2. \A m, n \in 1 .. n0 : m < n => KeyLess(key[t[m]], key[t[n]]) BY <1>9, <2>1
  <2>3. Lists(t, S, key) BY <2>1, <2>2 DEF Lists, n0
  <2> QED BY <2>3, ListIsOne
<1> QED BY <1>8, <1>9 DEF ds, dt

\* The keys of places are in the order of the keys of what is there.
KeysFollow(P, place, f, key) ==
    \A m, n \in P : KeyLess(place[m], place[n]) => KeyLess(key[f[m]], key[f[n]])

\* A list of places, each replaced by what is there, is a list of what is there when the two
\* sets of keys agree.
LEMMA MappedLists ==
    ASSUME NEW P, IsFiniteSet(P), NEW place, NEW o, Lists(o, P, place),
           NEW S, NEW f, f \in Bijection(P, S), NEW key, KeysFollow(P, place, f, key),
           NEW g, g = [k \in DOMAIN o |-> f[o[k]]]
    PROVE  Lists(g, S, key)
<1> DEFINE n0 == Cardinality(P)
<1>1. IsFiniteSet(S) /\ Cardinality(S) = n0
  <2>1. ExistsBijection(P, S) BY DEF ExistsBijection
  <2> QED BY <2>1, FS_Bijection
<1>2. /\ o \in [1 .. n0 -> P] /\ \A n \in P : \E k \in 1 .. n0 : o[k] = n
      /\ \A m, n \in 1 .. n0 : m < n => KeyLess(place[o[m]], place[o[n]])
  BY DEF Lists
<1>3. f \in [P -> S] /\ \A i \in S : \E n \in P : f[n] = i
  BY DEF Bijection, Injection, Surjection
<1> HIDE DEF n0
<1>4. DOMAIN o = 1 .. n0 BY <1>2
<1>5. \A k \in 1 .. n0 : g[k] = f[o[k]] /\ g[k] \in S BY <1>2, <1>3, <1>4
<1>6. g \in [1 .. n0 -> S] BY <1>4, <1>5
<1>7. \A i \in S : \E k \in 1 .. n0 : g[k] = i BY <1>2, <1>3, <1>5
<1>8. \A m, n \in 1 .. n0 : m < n => KeyLess(key[g[m]], key[g[n]]) BY <1>2, <1>5 DEF KeysFollow
<1> QED BY <1>1, <1>6, <1>7, <1>8 DEF Lists, n0

\* The keys of the two kinds of storage.
StoreKeys(S, time, key, other) ==
    \A i \in S : time[i] \in Int /\ key[i] = <<time[i], i>> /\ other[i] = <<time[i], LocaleRank[i]>>

\* What their lists have in common.
Alike(s, t, S, time, d) ==
    /\ SameByTime(Directed(s, d), Directed(t, d), time)
    /\ (\A i, j \in S : time[i] = time[j] /\ i < j => LocaleRank[i] < LocaleRank[j]) => s = t
    /\ ReadToTheEnd(Directed(t, d))
    /\ ToSet(Directed(t, d)) = S

\* Sorted by time, and by id or by its place in localeCompare()'s order, the ids of a set are
\* the same but for the order within a time; they are one list if the two order alike, and
\* pages of the one add up to it.
LEMMA TwoStores ==
    ASSUME NEW S, S \subseteq MessageIds \cup ConversationIds, IsFiniteSet(S),
           NEW time, NEW key, NEW other, StoreKeys(S, time, key, other),
           NEW s, Lists(s, S, key), NEW t, Lists(t, S, other), NEW d
    PROVE  Alike(s, t, S, time, d)
<1>a. \A i \in S : time[i] \in Int /\ key[i] = <<time[i], i>> /\ other[i] = <<time[i], LocaleRank[i]>>
  BY DEF StoreKeys
<1>1. \A i \in S : i \in Nat /\ i # 0 /\ LocaleRank[i] \in Nat /\ i \in MessageIds \cup ConversationIds
  BY QueryAssumption
<1>2. Keys(S, key)
  <2>1. \A i \in S : key[i] \in Int \X Int BY <1>1, <1>a
  <2>2. \A i, j \in S : key[i] = key[j] => i = j BY <1>a
  <2> QED BY <2>1, <2>2 DEF Keys
<1>3. Keys(S, other)
  <2>1. \A i \in S : other[i] \in Int \X Int BY <1>1, <1>a
  <2>2. \A i, j \in MessageIds \cup ConversationIds : LocaleRank[i] = LocaleRank[j] => i = j
    BY QueryAssumption DEF IsInjective
  <2>3. \A i, j \in S : other[i] = other[j] => i = j BY <1>1, <1>a, <2>2
  <2> QED BY <2>1, <2>3 DEF Keys
<1>4. ByTime(S, key, time) /\ ByTime(S, other, time) BY <1>a DEF ByTime
<1>5. /\ SameByTime(Directed(s, d), Directed(t, d), time)
      /\ (\A i, j \in S : KeyLess(other[i], other[j]) => KeyLess(key[i], key[j])) => s = t
  BY <1>2, <1>3, <1>4, TwoLists
<1>6. ASSUME \A i, j \in S : time[i] = time[j] /\ i < j => LocaleRank[i] < LocaleRank[j] PROVE s = t
  <2>1. ASSUME NEW i \in S, NEW j \in S, KeyLess(other[i], other[j]) PROVE KeyLess(key[i], key[j])
    <3>1. time[i] < time[j] \/ (time[i] = time[j] /\ LocaleRank[i] < LocaleRank[j])
      BY <1>a, <2>1 DEF KeyLess
    <3>a. time[i] \in Int /\ time[j] \in Int BY <1>a
    <3>2. i \in Nat /\ j \in Nat /\ LocaleRank[i] \in Nat /\ LocaleRank[j] \in Nat BY <1>1
    <3>3. time[i] = time[j] => i < j
      <4> SUFFICES ASSUME time[i] = time[j] PROVE i < j OBVIOUS
      <4>1. LocaleRank[i] < LocaleRank[j] BY <3>1, <3>a
      <4>2. i # j BY <4>1, <3>2
      <4>3. ~(j < i)
        <5> SUFFICES ASSUME j < i PROVE FALSE OBVIOUS
        <5>1. LocaleRank[j] < LocaleRank[i] BY <1>6
        <5> QED BY <5>1, <4>1, <3>2
      <4> QED BY <4>2, <4>3, <3>2
    <3>4. KeyLess(<<time[i], i>>, <<time[j], j>>) BY <3>1, <3>3 DEF KeyLess
    <3> QED BY <1>a, <3>4
  <2> QED BY <1>5, <2>1
<1>7. t \in Seq(S) /\ ToSet(t) = S /\ Distinct(t)
  <2>1. /\ t \in Seq(S) /\ Len(t) = Cardinality(S) /\ ToSet(t) = S
        /\ \A m, n \in 1 .. Cardinality(S) : t[m] = t[n] => m = n
    BY <1>3, ListIsSeq
  <2> QED BY <2>1 DEF Distinct
<1>8. Directed(t, d) \in Seq(S) /\ ToSet(Directed(t, d)) = S BY <1>7, DirectedHas
<1>9. Distinct(Directed(t, d)) BY <1>7, DirectedDistinct
<1>10. 0 \notin S BY <1>1
<1>11. \A limit \in 1 .. 2 : AllPages(Directed(t, d), limit) = [items |-> Directed(t, d), hasMore |-> FALSE]
  <2> SUFFICES ASSUME NEW limit \in 1 .. 2
               PROVE  AllPages(Directed(t, d), limit) = [items |-> Directed(t, d), hasMore |-> FALSE]
    OBVIOUS
  <2>1. limit \in Nat \ {0} OBVIOUS
  <2> QED BY <1>8, <1>9, <1>10, <2>1, PagesAddUp
<1> QED BY <1>5, <1>6, <1>8, <1>11 DEF Alike, ReadToTheEnd

\* What a query of messages finds, in any of the three.
FoundMessages(q) ==
    {i \in DOMAIN messageMap :
        /\ messageMap[i].conversationId = q.conversationId
        /\ q.before # NoBound => messageMap[i].timestamp < q.before
        /\ q.after # NoBound => messageMap[i].timestamp > q.after}

\* The range of the index holds the messages that are before and after the bounds, and none
\* when it is upside down.
LEMMA IndexFinds ==
    ASSUME RecordsInv, NEW q \in MessageQueries
    PROVE  /\ FoundMessages(q) =
                {i \in DOMAIN messageStore :
                    /\ messageStore[i].conversationId = q.conversationId
                    /\ messageStore[i].timestamp \in (OpenRange(q).low + 1) .. (OpenRange(q).high - 1)}
           /\ IndexThrows(q) => FoundMessages(q) = {}
<1> DEFINE low == OpenRange(q).low
           high == OpenRange(q).high
<1>1. q.before \in NoBound .. LastTime + 1 /\ q.after \in NoBound .. LastTime + 1 BY DEF MessageQueries, Bounds
<1>2. LastTime \in Nat /\ NoBound = -1 BY QueryAssumption DEF NoBound
<1>3. /\ low = IF q.after = NoBound THEN -1 ELSE q.after
      /\ high = IF q.before = NoBound THEN LastTime + 2 ELSE q.before
  BY DEF OpenRange
<1>4. /\ DOMAIN messageStore = DOMAIN messageMap
      /\ \A i \in DOMAIN messageMap :
            /\ messageMap[i].timestamp \in 0 .. LastTime
            /\ messageStore[i].conversationId = messageMap[i].conversationId
            /\ messageStore[i].timestamp = messageMap[i].timestamp
  BY DEF RecordsInv, MessageRecord, StoredMessages, Times
<1> HIDE DEF low, high
<1>5. ASSUME NEW t \in 0 .. LastTime
      PROVE  /\ t \in low + 1 .. high - 1 <=>
                   (q.before # NoBound => t < q.before) /\ (q.after # NoBound => t > q.after)
             /\ low >= high => ~((q.before # NoBound => t < q.before) /\ (q.after # NoBound => t > q.after))
  <2> DEFINE b == q.before
             a == q.after
  <2>1. b \in Int /\ a \in Int /\ b >= -1 /\ a >= -1 /\ a <= LastTime + 1 BY <1>1, <1>2
  <2>2. low = (IF a = -1 THEN -1 ELSE a) /\ high = (IF b = -1 THEN LastTime + 2 ELSE b) BY <1>2, <1>3
  <2> HIDE DEF a, b
  <2>3. /\ t \in low + 1 .. high - 1 <=> (b # -1 => t < b) /\ (a # -1 => t > a)
        /\ low >= high => ~((b # -1 => t < b) /\ (a # -1 => t > a))
    BY <2>1, <2>2, <1>2
  <2> QED BY <2>3, <1>2 DEF a, b
<1>6. IndexThrows(q) <=> low >= high BY DEF IndexThrows, low, high
<1> QED BY <1>4, <1>5, <1>6 DEF FoundMessages, low, high

\* The engine's own map finds the same, until a storage is changed behind its back.
LEMMA OwnFinds ==
    ASSUME RecordsInv, OwnInv, ~direct, NEW q \in MessageQueries, q.before # 0, q.after # 0,
           NEW P, P = {n \in DOMAIN ownMessages :
                         /\ ownMessages[n].value.conversationId = q.conversationId
                         /\ q.before > 0 => ownMessages[n].value.timestamp < q.before
                         /\ q.after > 0 => ownMessages[n].value.timestamp > q.after}
    PROVE  /\ IsFiniteSet(P) /\ P \subseteq Nat
           /\ [n \in P |-> ownMessages[n].id] \in Bijection(P, FoundMessages(q))
           /\ \A n \in P : /\ ownMessages[n].id \in DOMAIN messageMap
                           /\ ownMessages[n].value = messageMap[ownMessages[n].id]
<1> DEFINE f == [n \in P |-> ownMessages[n].id]
<1>1. /\ Len(ownMessages) \in Nat /\ DOMAIN ownMessages = 1 .. Len(ownMessages)
      /\ \A m, n \in 1 .. Len(ownMessages) : ownMessages[m].id = ownMessages[n].id => m = n
      /\ \A n \in 1 .. Len(ownMessages) :
            /\ ownMessages[n].id \in DOMAIN messageMap
            /\ ownMessages[n].value = messageMap[ownMessages[n].id]
      /\ \A i \in DOMAIN messageMap : \E n \in 1 .. Len(ownMessages) : ownMessages[n].id = i
  <2>1. ownMessages \in Seq([id : MessageIds, value : StoredMessages]) BY DEF OwnInv
  <2>2. Len(ownMessages) \in Nat /\ DOMAIN ownMessages = 1 .. Len(ownMessages) BY <2>1
  <2> QED BY <2>2 DEF OwnInv
<1>2. IsFiniteSet(P) /\ P \subseteq Nat
  <2>1. IsFiniteSet(1 .. Len(ownMessages)) BY <1>1, FS_Interval
  <2>2. P \subseteq 1 .. Len(ownMessages) BY <1>1
  <2> QED BY <1>1, <2>1, <2>2, FS_Subset
<1>3. (q.before > 0 <=> q.before # NoBound) /\ (q.after > 0 <=> q.after # NoBound)
  <2>1. q.before \in NoBound .. LastTime + 1 /\ q.after \in NoBound .. LastTime + 1
    BY DEF MessageQueries, Bounds
  <2> QED BY <2>1, QueryAssumption DEF NoBound
<1>4. ASSUME NEW n \in 1 .. Len(ownMessages) PROVE n \in P <=> ownMessages[n].id \in FoundMessages(q)
  BY <1>1, <1>3 DEF FoundMessages
<1>5. f \in [P -> FoundMessages(q)] BY <1>1, <1>4
<1>6. \A m, n \in P : f[m] = f[n] => m = n BY <1>1
<1>7. \A i \in FoundMessages(q) : \E n \in P : f[n] = i
  <2> SUFFICES ASSUME NEW i \in FoundMessages(q) PROVE \E n \in P : f[n] = i OBVIOUS
  <2>1. i \in DOMAIN messageMap BY DEF FoundMessages
  <2>2. PICK n \in 1 .. Len(ownMessages) : ownMessages[n].id = i BY <1>1, <2>1
  <2>3. n \in P BY <1>4, <2>2
  <2> QED BY <2>2, <2>3
<1>8. f \in Bijection(P, FoundMessages(q))
  <2> HIDE DEF f
  <2> QED BY <1>5, <1>6, <1>7 DEF Bijection, Injection, Surjection, IsInjective
<1> QED BY <1>1, <1>2, <1>8

\* The three answer a query of messages alike.
LEMMA MessagesOfAQuery ==
    ASSUME RecordsInv, OwnInv, NEW q \in MessageQueries,
           NEW time, time = [i \in DOMAIN messageMap |-> messageMap[i].timestamp]
    PROVE  /\ ~IndexThrows(q) => /\ SameByTime(FromIndex(q), FromMap(q), time)
                                 /\ OneOrder(time) => FromIndex(q) = FromMap(q)
           /\ IndexThrows(q) => FromMap(q) = <<>>
           /\ (~direct /\ ~Tie /\ q.before # 0 /\ q.after # 0) => FromOwn(q) = FromMap(q)
           /\ ReadToTheEnd(FromMap(q))
<1> DEFINE S == FoundMessages(q)
           indexKey == [i \in S |-> <<messageMap[i].timestamp, i>>]
           mapKey == [i \in S |-> <<messageMap[i].timestamp, LocaleRank[i]>>]
           index == Sorted(S, indexKey)
           map == Sorted(S, mapKey)
           d == q.direction
<1>1. /\ S \subseteq DOMAIN messageMap /\ S \subseteq MessageIds /\ IsFiniteSet(S)
      /\ \A i \in S : time[i] \in Int /\ time[i] = messageMap[i].timestamp
  <2>1. S \subseteq DOMAIN messageMap BY DEF FoundMessages
  <2>2. IsFiniteSet(DOMAIN messageMap) /\ DOMAIN messageMap \subseteq MessageIds BY DEF RecordsInv
  <2>3. \A i \in DOMAIN messageMap : messageMap[i].timestamp \in Int BY DEF RecordsInv, StoredMessages, Times
  <2> HIDE DEF S
  <2>4. IsFiniteSet(S) BY <2>1, <2>2, FS_Subset
  <2> QED BY <2>1, <2>2, <2>3, <2>4
<1>2. FromMap(q) = Directed(map, d) BY DEF FromMap, FoundMessages
<1>3. FromIndex(q) = Directed(index, d)
  <2> DEFINE found == {i \in DOMAIN messageStore :
                         /\ messageStore[i].conversationId = q.conversationId
                         /\ messageStore[i].timestamp \in (OpenRange(q).low + 1) .. (OpenRange(q).high - 1)}
             key == [i \in found |-> <<messageStore[i].timestamp, i>>]
  <2>1. S = found BY IndexFinds
  <2>2. FromIndex(q) = Directed(Sorted(found, key), d) BY DEF FromIndex
  <2>3. \A i \in DOMAIN messageMap : messageStore[i].timestamp = messageMap[i].timestamp
    BY DEF RecordsInv, MessageRecord
  <2> HIDE DEF found, S
  <2>4. key = indexKey BY <2>1, <2>3, <1>1
  <2> HIDE DEF key, indexKey
  <2> QED BY <2>1, <2>2, <2>4
<1>4. \A i \in S : indexKey[i] = <<time[i], i>> /\ mapKey[i] = <<time[i], LocaleRank[i]>> BY <1>1
<1> HIDE DEF S
<1>5. Keys(S, indexKey) /\ Keys(S, mapKey)
  <2>1. \A i \in S : i \in Nat /\ LocaleRank[i] \in Nat /\ i \in MessageIds \cup ConversationIds
    BY <1>1, QueryAssumption
  <2>2. \A i, j \in MessageIds \cup ConversationIds : LocaleRank[i] = LocaleRank[j] => i = j
    BY QueryAssumption DEF IsInjective
  <2>3. \A i \in S : indexKey[i] \in Int \X Int /\ mapKey[i] \in Int \X Int BY <1>1, <1>4, <2>1
  <2>4. \A i, j \in S : (indexKey[i] = indexKey[j] => i = j) /\ (mapKey[i] = mapKey[j] => i = j)
    BY <1>4, <2>1, <2>2
  <2> HIDE DEF indexKey, mapKey
  <2> QED BY <2>3, <2>4 DEF Keys
<1> HIDE DEF indexKey, mapKey
<1>6. Lists(index, S, indexKey) /\ Lists(map, S, mapKey) BY <1>1, <1>5, SortedLists
<1> HIDE DEF index, map
<1>7. /\ SameByTime(Directed(index, d), Directed(map, d), time)
      /\ (\A i, j \in S : time[i] = time[j] /\ i < j => LocaleRank[i] < LocaleRank[j]) => index = map
      /\ ReadToTheEnd(Directed(map, d))
  <2>1. S \subseteq MessageIds \cup ConversationIds BY <1>1
  <2>2. StoreKeys(S, time, indexKey, mapKey) BY <1>1, <1>4 DEF StoreKeys
  <2> HIDE DEF d
  <2>3. Alike(index, map, S, time, d) BY <1>1, <1>6, <2>1, <2>2, TwoStores
  <2> QED BY <2>3 DEF Alike
<1>8. OneOrder(time) => index = map
  <2> SUFFICES ASSUME OneOrder(time) PROVE index = map OBVIOUS
  <2>1. \A i, j \in DOMAIN messageMap : time[i] = time[j] /\ i < j => LocaleRank[i] < LocaleRank[j]
    <3>1. DOMAIN time = DOMAIN messageMap OBVIOUS
    <3> QED BY <3>1 DEF OneOrder
  <2> QED BY <1>1, <1>7, <2>1
<1>9. ASSUME IndexThrows(q) PROVE FromMap(q) = <<>>
  <2>1. S = {} BY <1>9, IndexFinds DEF S
  <2>2. map \in [1 .. 0 -> S]
    <3>1. Cardinality(S) = 0 BY <2>1, FS_EmptySet
    <3> QED BY <1>6, <3>1 DEF Lists
  <2>3. map \in Seq(S) /\ Len(map) = 0 BY <2>2
  <2>4. Directed(map, d) \in Seq(S) /\ Len(Directed(map, d)) = 0 BY <2>3, DirectedHas
  <2>5. Directed(map, d) = <<>>
    <3> DEFINE r == Directed(map, d)
    <3> HIDE DEF r
    <3>1. r \in Seq(S) /\ Len(r) = 0 BY <2>4 DEF r
    <3>2. r = <<>> BY <3>1
    <3> QED BY <3>2 DEF r
  <2> QED BY <1>2, <2>5
<1>10. ASSUME ~direct, ~Tie, q.before # 0, q.after # 0 PROVE FromOwn(q) = FromMap(q)
  <2> DEFINE P == {n \in DOMAIN ownMessages :
                     /\ ownMessages[n].value.conversationId = q.conversationId
                     /\ q.before > 0 => ownMessages[n].value.timestamp < q.before
                     /\ q.after > 0 => ownMessages[n].value.timestamp > q.after}
             place == [n \in P |-> <<ownMessages[n].value.timestamp, n>>]
             ordered == Sorted(P, place)
             f == [n \in P |-> ownMessages[n].id]
             own == [k \in DOMAIN ordered |-> ownMessages[ordered[k]].id]
  <2>1. FromOwn(q) = Directed(own, d) BY DEF FromOwn
  <2>2. /\ IsFiniteSet(P) /\ P \subseteq Nat
        /\ f \in Bijection(P, S)
        /\ \A n \in P : /\ ownMessages[n].id \in DOMAIN messageMap
                        /\ ownMessages[n].value = messageMap[ownMessages[n].id]
    BY <1>10, OwnFinds DEF S
  <2> HIDE DEF P
  <2>3. \A n \in P : /\ f[n] = ownMessages[n].id /\ f[n] \in S
                     /\ place[n] = <<time[f[n]], n>>
    <3>1. \A n \in P : f[n] = ownMessages[n].id /\ place[n] = <<ownMessages[n].value.timestamp, n>> OBVIOUS
    <3> HIDE DEF f, place
    <3>2. \A n \in P : f[n] \in S BY <2>2 DEF Bijection, Injection
    <3> QED BY <1>1, <2>2, <3>1, <3>2
  <2>4. \A m, n \in P : f[m] = f[n] => m = n
    <3> HIDE DEF f
    <3> QED BY <2>2 DEF Bijection, Injection, IsInjective
  <2>5. own = [k \in DOMAIN ordered |-> f[ordered[k]]] /\ Lists(ordered, P, place)
    <3>1. Keys(P, place)
      <4> HIDE DEF place, f
      <4>1. \A n \in P : place[n] \in Int \X Int
        <5> SUFFICES ASSUME NEW n \in P PROVE place[n] \in Int \X Int OBVIOUS
        <5>1. time[f[n]] \in Int /\ n \in Int BY <1>1, <2>2, <2>3
        <5>2. place[n] = <<time[f[n]], n>> BY <2>3
        <5> QED BY <5>1, <5>2
      <4>2. \A m, n \in P : place[m] = place[n] => m = n BY <2>3
      <4> QED BY <4>1, <4>2 DEF Keys
    <3>2. Lists(ordered, P, place)
      <4> HIDE DEF place
      <4> QED BY <2>2, <3>1, SortedLists
    <3> HIDE DEF ordered
    <3>3. \A k \in DOMAIN ordered : ordered[k] \in P BY <3>2 DEF Lists
    <3> QED BY <3>2, <3>3
  <2> HIDE DEF ordered, f, place
  <2>6. ASSUME NEW m \in P, NEW n \in P, KeyLess(place[m], place[n])
        PROVE  KeyLess(mapKey[f[m]], mapKey[f[n]])
    <3>1. time[f[m]] \in Int /\ time[f[n]] \in Int /\ m \in Nat /\ n \in Nat BY <1>1, <2>2, <2>3
    <3>2. time[f[m]] < time[f[n]] \/ (time[f[m]] = time[f[n]] /\ m < n) BY <2>3, <2>6 DEF KeyLess
    <3>3. ASSUME time[f[m]] = time[f[n]], m < n PROVE FALSE
      <4>1. f[m] # f[n] BY <2>4, <3>3, <3>1
      <4>2. /\ f[m] \in DOMAIN messageMap /\ f[n] \in DOMAIN messageMap
            /\ messageMap[f[m]].conversationId = q.conversationId
            /\ messageMap[f[n]].conversationId = q.conversationId
        BY <2>3 DEF S, FoundMessages
      <4>3. messageMap[f[m]] \in StoredMessages /\ messageMap[f[n]] \in StoredMessages BY <4>2 DEF RecordsInv
      <4>4. messageMap[f[m]].timestamp = messageMap[f[n]].timestamp BY <1>1, <2>3, <3>3
      <4>5. messageMap[f[m]] = messageMap[f[n]] BY <4>2, <4>3, <4>4 DEF StoredMessages
      <4> QED BY <1>10, <4>1, <4>2, <4>5 DEF Tie
    <3>4. time[f[m]] < time[f[n]] BY <3>2, <3>3
    <3>5. mapKey[f[m]] = <<time[f[m]], LocaleRank[f[m]]>> /\ mapKey[f[n]] = <<time[f[n]], LocaleRank[f[n]]>>
      BY <1>4, <2>3
    <3> QED BY <3>4, <3>5 DEF KeyLess
  <2> DEFINE mapped == [k \in DOMAIN ordered |-> f[ordered[k]]]
  <2>7. Lists(mapped, S, mapKey)
    <3>1. KeysFollow(P, place, f, mapKey) BY <2>6 DEF KeysFollow
    <3> QED BY <2>2, <2>5, <3>1, MappedLists
  <2> HIDE DEF mapped
  <2>8. mapped = map BY <1>1, <1>5, <1>6, <2>7, ListIsOne
  <2>9. own = map BY <2>5, <2>8 DEF mapped
  <2> HIDE DEF own
  <2> QED BY <1>2, <2>1, <2>9
<1> QED BY <1>2, <1>3, <1>7, <1>8, <1>9, <1>10

\* What a query of conversations finds.
FoundConversations(q) ==
    {i \in DOMAIN conversationMap : Passes(q, conversationMap[i].type, conversationMap[i].participants)}

\* The storages answer a query of conversations alike, and the engine's own map has what
\* they list.
LEMMA ConversationsOfAQuery ==
    ASSUME RecordsInv, OwnInv, NEW q \in ConversationQueries,
           NEW time, time = [i \in DOMAIN conversationMap |-> conversationMap[i].updatedAt]
    PROVE  /\ SameByTime(ConversationsFromIndex(q), ConversationsFromMap(q), time)
           /\ OneOrder(time) => ConversationsFromIndex(q) = ConversationsFromMap(q)
           /\ ~direct => ToSet(ConversationsFromMap(q)) \subseteq ToSet(ConversationsFromOwn(q))
           /\ ReadToTheEnd(ConversationsFromMap(q))
<1> DEFINE D == DOMAIN conversationMap
           S == FoundConversations(q)
           indexKey == [i \in D |-> <<conversationMap[i].updatedAt, i>>]
           mapKey == [i \in S |-> <<conversationMap[i].updatedAt, LocaleRank[i]>>]
           all == Sorted(D, indexKey)
           passing == {n \in DOMAIN all :
                         Passes(q, conversationStore[all[n]].type, conversationStore[all[n]].participantIds)}
           index == Filtered(all, passing)
           map == Sorted(S, mapKey)
           d == q.direction
<1>1. /\ S \subseteq D /\ D \subseteq ConversationIds /\ IsFiniteSet(D) /\ IsFiniteSet(S)
      /\ \A i \in D : time[i] \in Int /\ time[i] = conversationMap[i].updatedAt
  <2>1. S \subseteq D BY DEF FoundConversations
  <2>2. IsFiniteSet(D) /\ D \subseteq ConversationIds BY DEF RecordsInv
  <2>3. \A i \in D : conversationMap[i].updatedAt \in Int BY DEF RecordsInv, StoredConversations, Times
  <2> HIDE DEF S
  <2>4. IsFiniteSet(S) BY <2>1, <2>2, FS_Subset
  <2> QED BY <2>1, <2>2, <2>3, <2>4
<1>2. ConversationsFromMap(q) = Directed(map, d) BY DEF ConversationsFromMap, FoundConversations
<1>3. /\ DOMAIN conversationStore = D
      /\ \A i \in D : /\ conversationStore[i].updatedAt = conversationMap[i].updatedAt
                      /\ conversationStore[i].type = conversationMap[i].type
                      /\ conversationStore[i].participantIds = conversationMap[i].participants
  BY DEF RecordsInv, ConversationRecord
<1>4. ConversationsFromIndex(q) = Directed(index, d)
  <2> DEFINE key == [i \in DOMAIN conversationStore |-> <<conversationStore[i].updatedAt, i>>]
             seen == Sorted(DOMAIN conversationStore, key)
  <2>1. ConversationsFromIndex(q) =
          Directed(Filtered(seen, {n \in DOMAIN seen :
                     Passes(q, conversationStore[seen[n]].type, conversationStore[seen[n]].participantIds)}), d)
    BY DEF ConversationsFromIndex
  <2>2. key = indexKey BY <1>3
  <2>3. seen = all BY <1>3, <2>2
  <2> HIDE DEF seen, all
  <2> QED BY <2>1, <2>3
<1>5. \A i \in D : indexKey[i] = <<time[i], i>> BY <1>1
<1>6. \A i \in S : mapKey[i] = <<time[i], LocaleRank[i]>> BY <1>1
<1>7. \A i \in D : i \in S <=> Passes(q, conversationMap[i].type, conversationMap[i].participants)
  BY DEF FoundConversations
<1> HIDE DEF D, S, indexKey, mapKey
<1>8. StoreKeys(S, time, indexKey, mapKey) BY <1>1, <1>5, <1>6 DEF StoreKeys
<1>9. Keys(D, indexKey) /\ Keys(S, mapKey)
  <2>1. \A i \in D : i \in Nat /\ LocaleRank[i] \in Nat /\ i \in MessageIds \cup ConversationIds
    BY <1>1, QueryAssumption
  <2>2. \A i, j \in MessageIds \cup ConversationIds : LocaleRank[i] = LocaleRank[j] => i = j
    BY QueryAssumption DEF IsInjective
  <2>3. \A i \in D : indexKey[i] \in Int \X Int
    <3> SUFFICES ASSUME NEW i \in D PROVE indexKey[i] \in Int \X Int OBVIOUS
    <3>1. time[i] \in Int /\ i \in Int BY <1>1, <2>1
    <3>2. indexKey[i] = <<time[i], i>> BY <1>1, <1>5
    <3> QED BY <3>1, <3>2
  <2>4. \A i \in S : mapKey[i] \in Int \X Int
    <3> SUFFICES ASSUME NEW i \in S PROVE mapKey[i] \in Int \X Int OBVIOUS
    <3>1. time[i] \in Int /\ LocaleRank[i] \in Int BY <1>1, <2>1
    <3>2. mapKey[i] = <<time[i], LocaleRank[i]>> BY <1>6
    <3> QED BY <3>1, <3>2
  <2>5. \A i, j \in D : indexKey[i] = indexKey[j] => i = j BY <1>5
  <2>6. \A i, j \in S : mapKey[i] = mapKey[j] => i = j BY <1>1, <1>6, <2>1, <2>2
  <2> QED BY <2>3, <2>4, <2>5, <2>6 DEF Keys
<1>10. Lists(all, D, indexKey) /\ Lists(map, S, mapKey) BY <1>1, <1>9, SortedLists
<1> HIDE DEF all
<1>11. Lists(index, S, indexKey)
  <2>1. /\ all \in [1 .. Cardinality(D) -> D]
        /\ \A i \in D : \E n \in 1 .. Cardinality(D) : all[n] = i
    BY <1>10 DEF Lists
  <2>2. \A n \in 1 .. Cardinality(D) : n \in passing <=> all[n] \in S
    BY <1>3, <1>7, <2>1
  <2>3. passing \subseteq 1 .. Cardinality(D) BY <2>1
  <2> HIDE DEF passing
  <2>4. {all[n] : n \in passing} = S BY <1>1, <2>1, <2>2, <2>3
  <2> QED BY <1>1, <1>9, <1>10, <2>3, <2>4, FilteredLists
<1> HIDE DEF index, map, d
<1>12. Alike(index, map, S, time, d)
  <2>1. S \subseteq MessageIds \cup ConversationIds BY <1>1
  <2> QED BY <1>1, <1>8, <1>10, <1>11, <2>1, TwoStores
<1>13. OneOrder(time) => index = map
  <2> SUFFICES ASSUME OneOrder(time) PROVE index = map OBVIOUS
  <2>1. DOMAIN time = D BY DEF D
  <2>2. \A i, j \in S : time[i] = time[j] /\ i < j => LocaleRank[i] < LocaleRank[j]
    BY <1>1, <2>1 DEF OneOrder
  <2> QED BY <1>12, <2>2 DEF Alike
<1>14. ~direct => ToSet(Directed(map, d)) \subseteq ToSet(ConversationsFromOwn(q))
  <2> SUFFICES ASSUME ~direct PROVE S \subseteq ToSet(ConversationsFromOwn(q)) BY <1>12 DEF Alike
  <2>1. /\ DOMAIN ownConversations = 1 .. Len(ownConversations)
        /\ \A i \in D : \E n \in 1 .. Len(ownConversations) : ownConversations[n].id = i
    BY DEF OwnInv, D
  <2> QED BY <1>1, <2>1 DEF ToSet, ConversationsFromOwn
<1> QED BY <1>2, <1>4, <1>12, <1>13, <1>14 DEF Alike

\* The stores agree when the records are those of the Maps and the engine's are those too.
LEMMA QueryInvAgrees == QueryInv => StoresAgree
<1> SUFFICES ASSUME QueryInv PROVE StoresAgree OBVIOUS
<1>1. RecordsInv /\ OwnInv BY DEF QueryInv
<1>2. MessagesAgree
  <2> DEFINE time == [i \in DOMAIN messageMap |-> messageMap[i].timestamp]
  <2> SUFFICES ASSUME NEW q \in MessageQueries
               PROVE  /\ ~IndexThrows(q) => /\ SameByTime(FromIndex(q), FromMap(q), time)
                                            /\ OneOrder(time) => FromIndex(q) = FromMap(q)
                      /\ IndexThrows(q) => FromMap(q) = <<>>
                      /\ (~direct /\ ~Tie /\ q.before # 0 /\ q.after # 0) => FromOwn(q) = FromMap(q)
                      /\ ReadToTheEnd(FromMap(q))
    BY DEF MessagesAgree
  <2> QED BY <1>1, MessagesOfAQuery
<1>3. ConversationsAgree
  <2> DEFINE time == [i \in DOMAIN conversationMap |-> conversationMap[i].updatedAt]
  <2> SUFFICES ASSUME NEW q \in ConversationQueries
               PROVE  /\ SameByTime(ConversationsFromIndex(q), ConversationsFromMap(q), time)
                      /\ OneOrder(time) => ConversationsFromIndex(q) = ConversationsFromMap(q)
                      /\ ~direct => ToSet(ConversationsFromMap(q)) \subseteq ToSet(ConversationsFromOwn(q))
                      /\ ReadToTheEnd(ConversationsFromMap(q))
    BY DEF ConversationsAgree
  <2> QED BY <1>1, ConversationsOfAQuery
<1> QED BY <1>2, <1>3 DEF StoresAgree

\* Whatever was written, to any ids and at any times: IndexedDB and its fallback list the same
\* for every query, in the same order but for ties that their two orders of ids decide
\* differently; the engine's own maps do too but for what StoresAgree names; and their pages
\* add up.
THEOREM AnyStoreAnswersAlike == QuerySpec => []StoresAgree
BY QueryInvAgrees, QueryInvariant, PTL

===============================================================================
