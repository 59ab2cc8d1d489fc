------------------------- MODULE EngineMessagesProofs -------------------------
(* Proofs about EngineMessages, for every value of its constants. *)
EXTENDS EngineMessages, SequenceTheorems, FiniteSetTheorems, TLAPS

\* A function on 1 .. n is a sequence.
LEMMA FunctionIsSequence ==
    ASSUME NEW S, NEW n \in Nat, NEW f \in [1..n -> S]
    PROVE  f \in Seq(S)
<1>1. [1..n -> S] \in {[1..k -> S] : k \in Nat}
  OBVIOUS
<1> QED BY <1>1, SeqDef

(***************************************************************************)
(* The capped Sets: messageIndex and sentClientNonces.                     *)
(***************************************************************************)

\* Keeping the newest entries of a Set gives a sequence of some of its entries.
LEMMA KeepLastType ==
    ASSUME NEW S, NEW s \in Seq(S), NEW cap \in Nat \ {0}
    PROVE  /\ KeepLast(s, cap) \in Seq(S)
           /\ Range(KeepLast(s, cap)) \subseteq Range(s)
           /\ s # <<>> => s[Len(s)] \in Range(KeepLast(s, cap))
<1>1. CASE Len(s) <= cap
  <2>1. KeepLast(s, cap) = s
    BY <1>1 DEF KeepLast
  <2>2. s # <<>> => Len(s) \in DOMAIN s
    OBVIOUS
  <2> QED BY <2>1, <2>2 DEF Range
<1>2. CASE Len(s) > cap
  <2> DEFINE m == Len(s) - cap + 1
             t == SubSeq(s, m, Len(s))
  <2>1. m \in Int /\ m >= 1 /\ m <= Len(s)
    BY <1>2
  <2>2. \A i \in m .. Len(s) : s[i] \in S
    BY <2>1
  <2>3. t \in Seq(S) /\ Len(t) = Len(s) - m + 1
        /\ \A i \in 1 .. Len(s) - m + 1 : t[i] = s[m + i - 1]
    BY <2>1, <2>2, SubSeqProperties
  <2>4. KeepLast(s, cap) = t
    BY <1>2 DEF KeepLast
  <2>5. Range(t) \subseteq Range(s)
    BY <2>1, <2>3 DEF Range
  <2>6. s[Len(s)] \in Range(t)
    <3>1. Len(t) \in DOMAIN t /\ t[Len(t)] = s[Len(s)]
      BY <2>1, <2>3
    <3> QED BY <3>1 DEF Range
  <2> QED BY <2>3, <2>4, <2>5, <2>6
<1> QED BY <1>1, <1>2

\* Adding to a capped Set keeps it a Set of the same ids, holds the added one, and drops only.
LEMMA AddCappedType ==
    ASSUME NEW S, NEW s \in Seq(S), NEW x \in S, NEW cap \in Nat \ {0}
    PROVE  /\ AddCapped(s, x, cap) \in Seq(S)
           /\ Range(AddCapped(s, x, cap)) \subseteq Range(s) \cup {x}
           /\ x \in Range(AddCapped(s, x, cap))
<1>1. CASE x \in Range(s)
  BY <1>1 DEF AddCapped
<1>2. CASE x \notin Range(s)
  <2> DEFINE a == Append(s, x)
  <2>1. a \in Seq(S) /\ a # <<>> /\ a[Len(a)] = x /\ Range(a) = Range(s) \cup {x}
    BY AppendProperties DEF Range
  <2>2. AddCapped(s, x, cap) = KeepLast(a, cap)
    BY <1>2 DEF AddCapped
  <2> HIDE DEF a
  <2>3. /\ KeepLast(a, cap) \in Seq(S)
        /\ Range(KeepLast(a, cap)) \subseteq Range(a)
        /\ x \in Range(KeepLast(a, cap))
    BY <2>1, KeepLastType
  <2> QED BY <2>1, <2>2, <2>3
<1> QED BY <1>1, <1>2

\* What addToMessageIndex and the nonce Set leave behind.
LEMMA IndexType ==
    ASSUME TypeOK, NEW e \in Ids, AddToMessageIndex(e)
    PROVE  index' \in Seq(Ids) /\ evicted' \subseteq Ids /\ e \in Range(index')
<1>1. index' \in Seq(Ids) /\ e \in Range(index')
  BY ConstantsAssumption, AddCappedType DEF TypeOK, SessionOK, HistoryOK, AddToMessageIndex
<1>2. Range(index) \subseteq Ids
  BY RangeOfSeq DEF TypeOK, SessionOK
<1> QED BY <1>1, <1>2 DEF TypeOK, SessionOK, HistoryOK, AddToMessageIndex

\* sentClientNonces after an addition.
LEMMA NonceType ==
    ASSUME TypeOK, NEW m \in Own, AddNonce(m)
    PROVE  /\ nonces' \in Seq(Own) /\ forgotten' \subseteq Own /\ m \in Range(nonces')
           /\ forgotten \subseteq forgotten' /\ Range(nonces) \subseteq Range(nonces') \cup forgotten'
<1>1. nonces' \in Seq(Own) /\ m \in Range(nonces')
  BY ConstantsAssumption, AddCappedType DEF TypeOK, SessionOK, HistoryOK, AddNonce
<1>2. Range(nonces) \subseteq Own
  BY RangeOfSeq DEF TypeOK, SessionOK
<1> QED BY <1>1, <1>2 DEF TypeOK, SessionOK, HistoryOK, AddNonce

\* What one hydration leaves behind: nonces of own messages only, and every stored own message
\* is among them or counted as forgotten.
LEMMA HydrationEffect ==
    ASSUME TypeOK, HydrationDone
    PROVE  /\ nonces' \in Seq(Own) /\ forgotten' \subseteq Own
           /\ \A m \in Own : store[m] # None \/ m \in Range(nonces)
                             => m \in Range(nonces') \cup forgotten'
<1> USE ConstantsAssumption
<1>a. PICK page \in SUBSET Stored :
          \E fresh \in Enumerations(PageNonces(page) \ Range(nonces)) :
            LET all == nonces \o fresh IN
            /\ nonces' = KeepLast(all, NonceMax)
            /\ forgotten' = forgotten \cup (Range(all) \ Range(nonces'))
                                     \cup (((Stored \ page) \cap Own) \ Range(nonces'))
  BY DEF HydrationDone
<1> DEFINE F == PageNonces(page) \ Range(nonces)
<1>b. PICK fresh \in Enumerations(F) :
          LET all == nonces \o fresh IN
          /\ nonces' = KeepLast(all, NonceMax)
          /\ forgotten' = forgotten \cup (Range(all) \ Range(nonces'))
                                   \cup (((Stored \ page) \cap Own) \ Range(nonces'))
  BY <1>a
<1> DEFINE all == nonces \o fresh
<1>1. F \subseteq Own
  BY DEF PageNonces, NonceOf, Stored, Ids
<1>2. fresh \in [1..Cardinality(F) -> F] /\ Range(fresh) = F
  BY DEF Enumerations
<1>3. fresh \in Seq(Own)
  <2>1. Cardinality(F) \in Nat
    BY <1>1, FS_Subset, FS_CardinalityType
  <2>2. fresh \in Seq(F)
    BY <1>2, <2>1, FunctionIsSequence
  <2> QED BY <1>1, <2>2, SeqMonotonic
<1>4. nonces \in Seq(Own)
  BY DEF TypeOK, SessionOK
<1>5. all \in Seq(Own) /\ Range(all) = Range(nonces) \cup F
  BY <1>2, <1>3, <1>4, ConcatProperties, RangeConcatenation
<1>6. nonces' \in Seq(Own)
  BY <1>b, <1>5, KeepLastType
<1>7. forgotten' \subseteq Own
  BY <1>b, <1>5, RangeOfSeq DEF TypeOK, HistoryOK
<1>8. ASSUME NEW m \in Own, store[m] # None \/ m \in Range(nonces)
      PROVE  m \in Range(nonces') \cup forgotten'
  <2>1. store[m] # None => m \in Stored
    BY DEF Stored, Ids
  <2>2. m \in page => m \in PageNonces(page)
    BY DEF PageNonces, NonceOf, Ids
  <2> QED BY <1>b, <1>5, <1>8, <2>1, <2>2
<1> QED BY <1>6, <1>7, <1>8

\* Type correctness: every call in progress names a message and every copy is a record.
THEOREM TypeCorrect == Spec => []TypeOK
<1> USE ConstantsAssumption
<1>1. Init => TypeOK
  <2> SUFFICES ASSUME Init PROVE TypeOK
    OBVIOUS
  <2>1. SessionOK
    BY EmptySeq DEF Init, SessionOK
  <2>2. CallsOK
    BY DEF Init, CallsOK, SendCalls, HandlerCalls, EditorCalls, NoSend, SendStates
  <2>3. StoreOK /\ HistoryOK
    BY DEF Init, StoreOK, HistoryOK, Bounds
  <2> QED BY <2>1, <2>2, <2>3 DEF TypeOK
<1>2. TypeOK /\ [Next]_vars => TypeOK'
  <2> SUFFICES ASSUME TypeOK, [Next]_vars PROVE TypeOK'
    OBVIOUS
  <2> USE DEF TypeOK
  <2>1. ASSUME NEW m \in Own, SendMessage(m) PROVE TypeOK'
    <3>1. SessionOK'
      BY <2>1 DEF SendMessage, SessionOK, session
    <3>2. CallsOK'
      BY <2>1 DEF SendMessage, CallsOK, SendCalls, SendStates
    <3>3. StoreOK'
      BY <2>1 DEF SendMessage, StoreOK
    <3>4. HistoryOK'
      BY <2>1 DEF SendMessage, HistoryOK, past
    <3> QED BY <3>1, <3>2, <3>3, <3>4
  <2>2. ASSUME NEW m \in Own, PipelineRejects(m) PROVE TypeOK'
    <3>1. SessionOK'
      BY <2>2 DEF PipelineRejects, SessionOK, session
    <3>2. CallsOK'
      BY <2>2 DEF PipelineRejects, CallsOK, SendCalls, SendStates
    <3>3. StoreOK'
      BY <2>2 DEF PipelineRejects, StoreOK, Fault, Bounds
    <3>4. HistoryOK'
      BY <2>2 DEF PipelineRejects, HistoryOK, past
    <3> QED BY <3>1, <3>2, <3>3, <3>4
  <2>3. ASSUME NEW m \in Own, PipelineDone(m) PROVE TypeOK'
    <3>1. SessionOK'
      <4>1. index' \in Seq(Ids)
        BY <2>3, IndexType DEF PipelineDone, Ids
      <4>2. nonces' \in Seq(Own)
        BY <2>3, NonceType DEF PipelineDone, SessionOK
      <4> QED BY <2>3, <4>1, <4>2 DEF PipelineDone, SessionOK
    <3>2. CallsOK'
      BY <2>3, IndexType, NonceType DEF PipelineDone, CallsOK, SendCalls, SendStates
    <3>3. StoreOK'
      BY <2>3, IndexType, NonceType DEF PipelineDone, StoreOK, Record
    <3>4. HistoryOK'
      <4>1. evicted' \subseteq Ids
        BY <2>3, IndexType DEF PipelineDone, Ids
      <4>2. forgotten' \subseteq Own
        BY <2>3, NonceType DEF PipelineDone, HistoryOK
      <4> QED BY <2>3, <4>1, <4>2 DEF PipelineDone, HistoryOK
    <3> QED BY <3>1, <3>2, <3>3, <3>4
  <2>4. ASSUME NEW m \in Own, SaveDone(m) PROVE TypeOK'
    <3>1. SessionOK'
      BY <2>4, NonceType DEF SaveDone, SessionOK
    <3>2. CallsOK'
      BY <2>4, NonceType DEF SaveDone, CallsOK, SendCalls, SendStates
    <3>3. StoreOK'
      BY <2>4, NonceType DEF SaveDone, StoreOK, Record
    <3>4. HistoryOK'
      BY <2>4, NonceType DEF SaveDone, HistoryOK
    <3> QED BY <3>1, <3>2, <3>3, <3>4
  <2>5. ASSUME NEW m \in Own, SaveFails(m) PROVE TypeOK'
    <3>1. SessionOK'
      BY <2>5 DEF SaveFails, SessionOK, session
    <3>2. CallsOK'
      BY <2>5 DEF SaveFails, CallsOK, SendCalls, SendStates
    <3>3. StoreOK'
      BY <2>5 DEF SaveFails, StoreOK, Fault, Bounds
    <3>4. HistoryOK'
      BY <2>5 DEF SaveFails, HistoryOK, past
    <3> QED BY <3>1, <3>2, <3>3, <3>4
  <2>6. ASSUME NEW m \in Own, WireAccepts(m) PROVE TypeOK'
    <3>1. SessionOK'
      BY <2>6 DEF WireAccepts, SessionOK, session
    <3>2. CallsOK'
      BY <2>6 DEF WireAccepts, CallsOK, calls
    <3>3. StoreOK'
      BY <2>6 DEF WireAccepts, StoreOK
    <3>4. HistoryOK'
      BY <2>6 DEF WireAccepts, HistoryOK, past
    <3> QED BY <3>1, <3>2, <3>3, <3>4
  <2>7. ASSUME NEW m \in Own, SendAcked(m) PROVE TypeOK'
    <3>1. SessionOK'
      BY <2>7 DEF SendAcked, SessionOK, session
    <3>2. CallsOK'
      BY <2>7 DEF SendAcked, CallsOK, SendCalls, SendStates
    <3>3. StoreOK'
      BY <2>7 DEF SendAcked, StoreOK, Record
    <3>4. HistoryOK'
      BY <2>7 DEF SendAcked, HistoryOK
    <3> QED BY <3>1, <3>2, <3>3, <3>4
  <2>8. ASSUME NEW m \in Own, SendRejected(m) PROVE TypeOK'
    <3>1. SessionOK'
      BY <2>8 DEF SendRejected, SessionOK, session
    <3>2. CallsOK'
      BY <2>8 DEF SendRejected, CallsOK, SendCalls, SendStates
    <3>3. StoreOK'
      BY <2>8 DEF SendRejected, StoreOK, Fault, Bounds
    <3>4. HistoryOK'
      BY <2>8 DEF SendRejected, HistoryOK, past
    <3> QED BY <3>1, <3>2, <3>3, <3>4
  <2>9. ASSUME NEW m \in Own, MarkSent(m) PROVE TypeOK'
    <3>1. SessionOK'
      BY <2>9 DEF MarkSent, SessionOK, session
    <3>2. CallsOK'
      <4>1. send' \in [Own -> SendCalls]
        <5>1. store[m] # None => [pc |-> "putting", copy |-> store[m]] \in SendCalls
          BY DEF StoreOK, SendCalls, Ids
        <5>2. [send[m] EXCEPT !.pc = "done"] \in SendCalls
          BY <2>9 DEF MarkSent, CallsOK, SendCalls, SendStates
        <5> QED BY <2>9, <5>1, <5>2 DEF MarkSent, CallsOK
      <4> QED BY <2>9, <4>1 DEF MarkSent, CallsOK
    <3>3. StoreOK'
      BY <2>9 DEF MarkSent, StoreOK, Record
    <3>4. HistoryOK'
      BY <2>9 DEF MarkSent, HistoryOK
    <3> QED BY <3>1, <3>2, <3>3, <3>4
  <2>10. ASSUME NEW m \in Own, PutSent(m) PROVE TypeOK'
    <3>1. SessionOK'
      BY <2>10 DEF PutSent, SessionOK, session
    <3>2. CallsOK'
      BY <2>10 DEF PutSent, CallsOK, SendCalls, SendStates
    <3>3. StoreOK'
      <4>1. send[m].copy \in Record
        BY <2>10 DEF PutSent, CallsOK, SendCalls
      <4> QED BY <2>10, <4>1 DEF PutSent, StoreOK, Record
    <3>4. HistoryOK'
      BY <2>10 DEF PutSent, HistoryOK
    <3> QED BY <3>1, <3>2, <3>3, <3>4
  <2>11. ASSUME NEW m \in Own, MarkFails(m) PROVE TypeOK'
    <3>1. SessionOK'
      BY <2>11 DEF MarkFails, SessionOK, session
    <3>2. CallsOK'
      BY <2>11 DEF MarkFails, CallsOK, SendCalls, SendStates
    <3>3. StoreOK'
      BY <2>11 DEF MarkFails, StoreOK, Fault, Bounds
    <3>4. HistoryOK'
      BY <2>11 DEF MarkFails, HistoryOK, past
    <3> QED BY <3>1, <3>2, <3>3, <3>4
  <2>12. ASSUME NEW h \in Handlers, NEW e \in Ids, Deliver(h, e) PROVE TypeOK'
    <3>1. SessionOK'
      BY <2>12, IndexType DEF Deliver, SessionOK, Classify
    <3>2. CallsOK'
      BY <2>12, IndexType DEF Deliver, CallsOK, HandlerCalls, HandlerStates, Idle, Classify
    <3>3. StoreOK'
      BY <2>12, IndexType DEF Deliver, StoreOK
    <3>4. HistoryOK'
      BY <2>12, IndexType DEF Deliver, HistoryOK, Classify
    <3> QED BY <3>1, <3>2, <3>3, <3>4
  <2>13. ASSUME NEW h \in Handlers, NEW e \in Ids, EmitStreamEnd(h, e) PROVE TypeOK'
    <3>1. SessionOK'
      BY <2>13, IndexType DEF EmitStreamEnd, SessionOK
    <3>2. CallsOK'
      BY <2>13, IndexType DEF EmitStreamEnd, CallsOK, HandlerCalls, HandlerStates, Idle
    <3>3. StoreOK'
      BY <2>13, IndexType DEF EmitStreamEnd, StoreOK, Record
    <3>4. HistoryOK'
      BY <2>13, IndexType DEF EmitStreamEnd, HistoryOK
    <3> QED BY <3>1, <3>2, <3>3, <3>4
  <2>14. ASSUME NEW h \in Handlers, Resume(h) PROVE TypeOK'
    <3>1. SessionOK'
      BY <2>14, IndexType DEF Resume, SessionOK, Classify, CallsOK, HandlerCalls, HandlerStates, Idle
    <3>2. CallsOK'
      BY <2>14, IndexType DEF Resume, CallsOK, HandlerCalls, HandlerStates, Idle, Classify
    <3>3. StoreOK'
      BY <2>14, IndexType DEF Resume, StoreOK
    <3>4. HistoryOK'
      BY <2>14, IndexType DEF Resume, HistoryOK, Classify, CallsOK, HandlerCalls, HandlerStates, Idle
    <3> QED BY <3>1, <3>2, <3>3, <3>4
  <2>15. ASSUME NEW h \in Handlers, LookupDone(h) PROVE TypeOK'
    <3>1. SessionOK'
      BY <2>15, IndexType DEF LookupDone, SessionOK, CallsOK, HandlerCalls, HandlerStates, Idle
    <3>2. CallsOK'
      BY <2>15, IndexType DEF LookupDone, CallsOK, HandlerCalls, HandlerStates, Idle
    <3>3. StoreOK'
      BY <2>15, IndexType DEF LookupDone, StoreOK
    <3>4. HistoryOK'
      BY <2>15, IndexType DEF LookupDone, HistoryOK, CallsOK, HandlerCalls, HandlerStates, Idle
    <3> QED BY <3>1, <3>2, <3>3, <3>4
  <2>16. ASSUME NEW h \in Handlers, LookupFails(h) PROVE TypeOK'
    <3>1. SessionOK'
      BY <2>16, IndexType DEF LookupFails, SessionOK, CallsOK, HandlerCalls, HandlerStates, Idle
    <3>2. CallsOK'
      BY <2>16, IndexType DEF LookupFails, CallsOK, HandlerCalls, HandlerStates, Idle
    <3>3. StoreOK'
      BY <2>16, IndexType DEF LookupFails, StoreOK, Fault, Bounds
    <3>4. HistoryOK'
      BY <2>16, IndexType DEF LookupFails, HistoryOK, CallsOK, HandlerCalls, HandlerStates, Idle
    <3> QED BY <3>1, <3>2, <3>3, <3>4
  <2>17. ASSUME NEW h \in Handlers, InMemoryAccept(h) PROVE TypeOK'
    <3>1. SessionOK'
      BY <2>17, IndexType DEF InMemoryAccept, SessionOK, Accept, CallsOK, HandlerCalls, HandlerStates, Idle
    <3>2. CallsOK'
      BY <2>17, IndexType DEF InMemoryAccept, CallsOK, Accept, HandlerCalls, HandlerStates, Idle
    <3>3. StoreOK'
      BY <2>17, IndexType DEF InMemoryAccept, StoreOK, Accept, Record
    <3>4. HistoryOK'
      BY <2>17, IndexType DEF InMemoryAccept, HistoryOK, Accept, CallsOK, HandlerCalls, HandlerStates, Idle
    <3> QED BY <3>1, <3>2, <3>3, <3>4
  <2>18. ASSUME NEW h \in Handlers, InboundSaved(h) PROVE TypeOK'
    <3>1. SessionOK'
      BY <2>18 DEF InboundSaved, SessionOK, Accept, CallsOK, HandlerCalls, HandlerStates, Idle
    <3>2. CallsOK'
      BY <2>18 DEF InboundSaved, CallsOK, Accept, HandlerCalls, HandlerStates, Idle
    <3>3. StoreOK'
      BY <2>18 DEF InboundSaved, StoreOK, Accept, Record
    <3>4. HistoryOK'
      BY <2>18 DEF InboundSaved, HistoryOK, Accept, CallsOK, HandlerCalls, HandlerStates, Idle
    <3> QED BY <3>1, <3>2, <3>3, <3>4
  <2>19. ASSUME NEW h \in Handlers, InboundSaveFails(h) PROVE TypeOK'
    <3>1. SessionOK'
      BY <2>19 DEF InboundSaveFails, SessionOK, CallsOK, HandlerCalls, HandlerStates, Idle
    <3>2. CallsOK'
      BY <2>19 DEF InboundSaveFails, CallsOK, HandlerCalls, HandlerStates, Idle
    <3>3. StoreOK'
      BY <2>19 DEF InboundSaveFails, StoreOK, Fault, Bounds
    <3>4. HistoryOK'
      BY <2>19 DEF InboundSaveFails, HistoryOK, CallsOK, HandlerCalls, HandlerStates, Idle
    <3> QED BY <3>1, <3>2, <3>3, <3>4
  <2>20. ASSUME NEW h \in Handlers, StreamSaved(h) PROVE TypeOK'
    <3>1. SessionOK'
      BY <2>20 DEF StreamSaved, SessionOK, session
    <3>2. CallsOK'
      BY <2>20 DEF StreamSaved, CallsOK, HandlerCalls, HandlerStates, Idle
    <3>3. StoreOK'
      BY <2>20 DEF StreamSaved, StoreOK, Record
    <3>4. HistoryOK'
      BY <2>20 DEF StreamSaved, HistoryOK, CallsOK, HandlerCalls, HandlerStates, Idle
    <3> QED BY <3>1, <3>2, <3>3, <3>4
  <2>21. ASSUME NEW h \in Handlers, StreamSaveFails(h) PROVE TypeOK'
    <3>1. SessionOK'
      BY <2>21 DEF StreamSaveFails, SessionOK, session
    <3>2. CallsOK'
      BY <2>21 DEF StreamSaveFails, CallsOK, HandlerCalls, HandlerStates, Idle
    <3>3. StoreOK'
      BY <2>21 DEF StreamSaveFails, StoreOK, Fault, Bounds
    <3>4. HistoryOK'
      BY <2>21 DEF StreamSaveFails, HistoryOK, CallsOK, HandlerCalls, HandlerStates, Idle
    <3> QED BY <3>1, <3>2, <3>3, <3>4
  <2>22. ASSUME HydrationDone PROVE TypeOK'
    <3>1. SessionOK'
      BY <2>22, HydrationEffect DEF HydrationDone, SessionOK
    <3>2. CallsOK'
      BY <2>22, HydrationEffect DEF HydrationDone, CallsOK, calls
    <3>3. StoreOK'
      BY <2>22, HydrationEffect DEF HydrationDone, StoreOK
    <3>4. HistoryOK'
      BY <2>22, HydrationEffect DEF HydrationDone, HistoryOK
    <3> QED BY <3>1, <3>2, <3>3, <3>4
  <2>23. ASSUME HydrationFails PROVE TypeOK'
    <3>1. SessionOK'
      BY <2>23 DEF HydrationFails, SessionOK
    <3>2. CallsOK'
      BY <2>23 DEF HydrationFails, CallsOK, HandlerCalls, HandlerStates, Idle
    <3>3. StoreOK'
      BY <2>23 DEF HydrationFails, StoreOK, Fault, Bounds
    <3>4. HistoryOK'
      BY <2>23 DEF HydrationFails, HistoryOK, past
    <3> QED BY <3>1, <3>2, <3>3, <3>4
  <2>24. ASSUME NEW o \in Editors, NEW id \in Ids, DeleteMessage(o, id) PROVE TypeOK'
    <3>1. SessionOK'
      BY <2>24 DEF DeleteMessage, SessionOK, session
    <3>2. CallsOK'
      <4>1. [NoEdit EXCEPT !.pc = "finding", !.msg = id] \in EditorCalls
        BY <2>24 DEF EditorCalls, NoEdit
      <4> QED BY <2>24, <4>1 DEF DeleteMessage, CallsOK
    <3>3. StoreOK'
      BY <2>24 DEF DeleteMessage, StoreOK, BeginEdit, Bounds
    <3>4. HistoryOK'
      BY <2>24 DEF DeleteMessage, HistoryOK
    <3> QED BY <3>1, <3>2, <3>3, <3>4
  <2>25. ASSUME NEW o \in Editors, NEW id \in Ids, NEW c \in Contents, UpdateMessage(o, id, c) PROVE TypeOK'
    <3>1. SessionOK'
      BY <2>25 DEF UpdateMessage, SessionOK, session
    <3>2. CallsOK'
      BY <2>25 DEF UpdateMessage, CallsOK, EditorCalls, NoEdit, BeginEdit
    <3>3. StoreOK'
      BY <2>25 DEF UpdateMessage, StoreOK, BeginEdit, Bounds, Record
    <3>4. HistoryOK'
      BY <2>25 DEF UpdateMessage, HistoryOK
    <3> QED BY <3>1, <3>2, <3>3, <3>4
  <2>26. ASSUME NEW o \in Editors, UpdateRead(o) PROVE TypeOK'
    <3>1. SessionOK'
      BY <2>26 DEF UpdateRead, SessionOK, session
    <3>2. CallsOK'
      <4> DEFINE r == [editor[o] EXCEPT !.pc = "updating", !.copy = store[editor[o].msg]]
      <4>1. editor[o] \in [pc : {"reading"}, msg : Ids, content : Contents, copy : {None}]
        BY <2>26 DEF UpdateRead, CallsOK, EditorCalls, NoEdit
      <4>2. store[editor[o].msg] # None => r \in EditorCalls
        BY <4>1 DEF StoreOK, EditorCalls
      <4>3. editor' = [editor EXCEPT ![o] = IF store[editor[o].msg] = None THEN NoEdit ELSE r]
        BY <2>26 DEF UpdateRead
      <4>4. NoEdit \in EditorCalls
        BY DEF EditorCalls
      <4> HIDE DEF r
      <4>5. editor' \in [Editors -> EditorCalls]
        BY <4>2, <4>3, <4>4 DEF CallsOK
      <4> QED BY <2>26, <4>5 DEF UpdateRead, CallsOK
    <3>3. StoreOK'
      BY <2>26 DEF UpdateRead, StoreOK
    <3>4. HistoryOK'
      BY <2>26 DEF UpdateRead, HistoryOK, past
    <3> QED BY <3>1, <3>2, <3>3, <3>4
  <2>27. ASSUME NEW o \in Editors, UpdateMerge(o) PROVE TypeOK'
    <3>1. SessionOK'
      BY <2>27 DEF UpdateMerge, SessionOK, session
    <3>2. CallsOK'
      BY <2>27 DEF UpdateMerge, CallsOK, EditorCalls, NoEdit
    <3>3. StoreOK'
      BY <2>27 DEF UpdateMerge, StoreOK, CallsOK, EditorCalls, NoEdit, Record
    <3>4. HistoryOK'
      BY <2>27 DEF UpdateMerge, HistoryOK, CallsOK, EditorCalls, NoEdit
    <3> QED BY <3>1, <3>2, <3>3, <3>4
  <2>28. ASSUME NEW o \in Editors, UpdatePut(o) PROVE TypeOK'
    <3>1. SessionOK'
      BY <2>28 DEF UpdatePut, SessionOK, session
    <3>2. CallsOK'
      BY <2>28 DEF UpdatePut, CallsOK, EditorCalls, NoEdit
    <3>3. StoreOK'
      BY <2>28 DEF UpdatePut, StoreOK, CallsOK, EditorCalls, NoEdit, Record
    <3>4. HistoryOK'
      BY <2>28 DEF UpdatePut, HistoryOK, CallsOK, EditorCalls, NoEdit
    <3> QED BY <3>1, <3>2, <3>3, <3>4
  <2>29. ASSUME NEW o \in Editors, DeleteRead(o) PROVE TypeOK'
    <3>1. SessionOK'
      BY <2>29 DEF DeleteRead, SessionOK, session
    <3>2. CallsOK'
      BY <2>29 DEF DeleteRead, CallsOK, EditorCalls, NoEdit
    <3>3. StoreOK'
      BY <2>29 DEF DeleteRead, StoreOK
    <3>4. HistoryOK'
      BY <2>29 DEF DeleteRead, HistoryOK, past
    <3> QED BY <3>1, <3>2, <3>3, <3>4
  <2>30. ASSUME NEW o \in Editors, DeleteDone(o) PROVE TypeOK'
    <3>1. SessionOK'
      BY <2>30 DEF DeleteDone, SessionOK, session
    <3>2. CallsOK'
      BY <2>30 DEF DeleteDone, CallsOK, EditorCalls, NoEdit
    <3>3. StoreOK'
      BY <2>30 DEF DeleteDone, StoreOK, CallsOK, EditorCalls, NoEdit
    <3>4. HistoryOK'
      BY <2>30 DEF DeleteDone, HistoryOK, CallsOK, EditorCalls, NoEdit
    <3> QED BY <3>1, <3>2, <3>3, <3>4
  <2>31. ASSUME NEW o \in Editors, EditFails(o) PROVE TypeOK'
    <3>1. SessionOK'
      BY <2>31 DEF EditFails, SessionOK, session
    <3>2. CallsOK'
      BY <2>31 DEF EditFails, CallsOK, EditorCalls, NoEdit
    <3>3. StoreOK'
      BY <2>31 DEF EditFails, StoreOK, Fault, Bounds
    <3>4. HistoryOK'
      BY <2>31 DEF EditFails, HistoryOK, past
    <3> QED BY <3>1, <3>2, <3>3, <3>4
  <2>32. ASSUME Restart PROVE TypeOK'
    <3>1. SessionOK'
      BY <2>32, EmptySeq DEF Restart, SessionOK
    <3>2. CallsOK'
      BY <2>32 DEF Restart, CallsOK, SendCalls, SendStates, HandlerCalls, EditorCalls, Settled
    <3>3. StoreOK'
      BY <2>32 DEF Restart, StoreOK, Bounds
    <3>4. HistoryOK'
      BY <2>32 DEF Restart, HistoryOK, StoreOK, Record
    <3> QED BY <3>1, <3>2, <3>3, <3>4
  <2>33. CASE UNCHANGED vars
    BY <2>33 DEF vars, session, calls, past, SessionOK, CallsOK, StoreOK, HistoryOK
  <2> QED
    BY <2>1, <2>2, <2>3, <2>4, <2>5, <2>6, <2>7, <2>8, <2>9, <2>10, <2>11, <2>12, <2>13, <2>14, <2>15, <2>16, <2>17, <2>18, <2>19, <2>20, <2>21, <2>22, <2>23, <2>24, <2>25, <2>26, <2>27, <2>28, <2>29, <2>30, <2>31, <2>32, <2>33 DEF Next
<1> QED
  BY <1>1, <1>2, PTL DEF Spec

(***************************************************************************)
(* Reservations.  The invariant is inductive together with TypeOK.         *)
(***************************************************************************)

\* The steps that touch a handler or a reservation.
HandlerStep ==
    \/ \E h \in Handlers : \E e \in Ids : Deliver(h, e) \/ EmitStreamEnd(h, e)
    \/ \E h \in Handlers :
         \/ Resume(h) \/ LookupDone(h) \/ LookupFails(h) \/ InMemoryAccept(h)
         \/ InboundSaved(h) \/ InboundSaveFails(h) \/ StreamSaved(h) \/ StreamSaveFails(h)
    \/ HydrationFails
    \/ Restart

\* Only inbound deliveries, and a reload, touch reservations and handlers.
LEMMA OtherStepsLeaveHandlers ==
    [Next]_vars => HandlerStep \/ UNCHANGED <<pendingIn, handler, received>>
<1> SUFFICES ASSUME [Next]_vars, ~HandlerStep PROVE UNCHANGED <<pendingIn, handler, received>>
  OBVIOUS
<1>1. CASE UNCHANGED vars
  BY <1>1 DEF vars, session, calls, past
<1>2. CASE \E m \in Own :
         \/ SendMessage(m) \/ PipelineRejects(m) \/ PipelineDone(m)
         \/ SaveDone(m) \/ SaveFails(m) \/ WireAccepts(m) \/ SendAcked(m) \/ SendRejected(m)
         \/ MarkSent(m) \/ PutSent(m) \/ MarkFails(m)
  BY <1>2 DEF SendMessage, PipelineRejects, PipelineDone, SaveDone, SaveFails, WireAccepts,
              SendAcked, SendRejected, MarkSent, PutSent, MarkFails, session, calls, past
<1>3. CASE \E o \in Editors :
         \/ \E id \in Ids : DeleteMessage(o, id) \/ \E c \in Contents : UpdateMessage(o, id, c)
         \/ UpdateRead(o) \/ UpdateMerge(o) \/ UpdatePut(o)
         \/ DeleteRead(o) \/ DeleteDone(o) \/ EditFails(o)
  BY <1>3 DEF DeleteMessage, UpdateMessage, UpdateRead, UpdateMerge, UpdatePut, DeleteRead,
              DeleteDone, EditFails, session, past
<1>4. CASE HydrationDone
  BY <1>4 DEF HydrationDone, calls
<1> QED
  BY <1>1, <1>2, <1>3, <1>4 DEF Next, HandlerStep

\* No reservation leaks and no two handlers hold the same one, however deliveries interleave.
THEOREM ReservationsAreExclusive == Spec => []ReservationExclusive
<1>1. Init => ReservationExclusive
  BY DEF Init, ReservationExclusive, Accepting, Idle
<1>2. TypeOK /\ ReservationExclusive /\ [Next]_vars => ReservationExclusive'
  <2> SUFFICES ASSUME TypeOK, ReservationExclusive, [Next]_vars PROVE ReservationExclusive'
    OBVIOUS
  <2> USE DEF ReservationExclusive, Accepting
  <2>0. handler \in [Handlers -> HandlerCalls]
    BY DEF TypeOK, CallsOK
  <2>1. CASE UNCHANGED <<pendingIn, handler>>
    BY <2>1
  <2>2. ASSUME NEW h \in Handlers, NEW e \in Ids,
               ~IsReserved(e), pendingIn' = pendingIn \cup {e}, ~Accepting(h),
               handler' = [handler EXCEPT ![h] = [pc |-> "lookup", msg |-> e]]
        PROVE  ReservationExclusive'
    BY <2>0, <2>2 DEF IsReserved, HandlerCalls, Idle
  <2>3. ASSUME NEW h \in Handlers, NEW r \in HandlerCalls,
               r.pc \notin {"lookup", "save"}, ~Accepting(h), UNCHANGED pendingIn,
               handler' = [handler EXCEPT ![h] = r]
        PROVE  ReservationExclusive'
    BY <2>0, <2>3 DEF HandlerCalls
  <2>4. ASSUME NEW h \in Handlers, handler[h].pc = "lookup", UNCHANGED pendingIn,
               handler' = [handler EXCEPT ![h].pc = "save"]
        PROVE  ReservationExclusive'
    BY <2>0, <2>4 DEF HandlerCalls, Idle
  <2>5. ASSUME NEW h \in Handlers, Accepting(h), pendingIn' = pendingIn \ {handler[h].msg},
               handler' = [handler EXCEPT ![h] = Idle]
        PROVE  ReservationExclusive'
    BY <2>0, <2>5 DEF HandlerCalls, Idle
  <2>6. ASSUME NEW h \in Handlers, NEW e \in Ids, ~Accepting(h), Classify(h, e)
        PROVE  ReservationExclusive'
    <3>1. Idle \in HandlerCalls /\ Idle.pc \notin {"lookup", "save"}
      BY DEF HandlerCalls, Idle
    <3> QED BY <2>2, <2>3, <2>6, <3>1 DEF Classify
  <2>7. ASSUME NEW h \in Handlers, NEW e \in Ids, Deliver(h, e) PROVE ReservationExclusive'
    <3>1. CASE Storage = "none"
      BY <2>6, <2>7, <3>1 DEF Deliver
    <3>2. CASE Storage # "none"
      <4>1. [pc |-> "hydrate", msg |-> e] \in HandlerCalls
        BY DEF HandlerCalls, HandlerStates
      <4> QED BY <2>3, <2>7, <3>2, <4>1 DEF Deliver
    <3> QED BY <3>1, <3>2
  <2>8. ASSUME NEW h \in Handlers, NEW e \in Ids, EmitStreamEnd(h, e) PROVE ReservationExclusive'
    <3>1. CASE UNCHANGED handler
      BY <2>1, <2>8, <3>1 DEF EmitStreamEnd
    <3>2. CASE handler' = [handler EXCEPT ![h] = [pc |-> "stream", msg |-> e]]
      <4>1. [pc |-> "stream", msg |-> e] \in HandlerCalls
        BY DEF HandlerCalls, HandlerStates
      <4> QED BY <2>3, <2>8, <3>2, <4>1 DEF EmitStreamEnd
    <3> QED BY <2>8, <3>1, <3>2 DEF EmitStreamEnd
  <2>9. ASSUME NEW h \in Handlers, Resume(h) PROVE ReservationExclusive'
    <3>1. handler[h].msg \in Ids
      BY <2>0, <2>9 DEF Resume, HandlerCalls, Idle
    <3> QED BY <2>6, <2>9, <3>1 DEF Resume
  <2>10. ASSUME NEW h \in Handlers, LookupDone(h) PROVE ReservationExclusive'
    BY <2>4, <2>5, <2>10 DEF LookupDone
  <2>11. ASSUME NEW h \in Handlers, LookupFails(h) PROVE ReservationExclusive'
    BY <2>4, <2>11 DEF LookupFails
  <2>12. ASSUME NEW h \in Handlers, InMemoryAccept(h) \/ InboundSaved(h) \/ InboundSaveFails(h)
         PROVE  ReservationExclusive'
    BY <2>5, <2>12 DEF InMemoryAccept, InboundSaved, InboundSaveFails, Accept
  <2>13. ASSUME NEW h \in Handlers, StreamSaved(h) \/ StreamSaveFails(h)
         PROVE  ReservationExclusive'
    <3>1. Idle \in HandlerCalls /\ Idle.pc \notin {"lookup", "save"}
      BY DEF HandlerCalls, Idle
    <3> QED BY <2>3, <2>13, <3>1 DEF StreamSaved, StreamSaveFails, session
  <2>14. CASE HydrationFails
    BY <2>0, <2>14 DEF HydrationFails, Idle
  <2>15. CASE Restart
    BY <2>15 DEF Restart, Idle
  <2> QED
    BY <2>1, <2>7, <2>8, <2>9, <2>10, <2>11, <2>12, <2>13, <2>14, <2>15,
       OtherStepsLeaveHandlers DEF HandlerStep
<1> QED
  BY <1>1, <1>2, TypeCorrect, PTL DEF Spec

(***************************************************************************)
(* Echoes.  An own message that may be on the wire is remembered: in the   *)
(* nonce Set, or (before the hydration of a new session) in the store from *)
(* which the Set will be filled.  What is neither is gone.                 *)
(***************************************************************************)
Gone == deleted \cup forgotten

Remembered(m) ==
    \/ m \in Gone
    \/ IF Storage = "none"
       THEN m \in Range(nonces)
       ELSE store[m] # None /\ (hydrated => m \in Range(nonces))

EchoInv ==
    /\ \A m \in Own : m \in onWire \/ send[m].pc = "sending" => Remembered(m)
    /\ \A h \in Handlers : handler[h].pc = "hydrate" => Deliverable(handler[h].msg)
    /\ \A h \in Handlers :
         Accepting(h) /\ NonceOf(handler[h].msg) # None => NonceOf(handler[h].msg) \in Gone
    /\ EchoSuppressed

\* A record is not None.
LEMMA RecordsAreNotNone == \A r \in Record : r # None
BY ConstantsAssumption

\* What the nonce of a message may be.
LEMMA NonceOfType == \A e \in Ids : NonceOf(e) \in Own \cup {None}
BY ConstantsAssumption DEF NonceOf, Ids

\* Nothing is taken back from Gone.
LEMMA GoneGrows ==
    ASSUME TypeOK, [Next]_vars, NEW m \in Own, m \in Gone
    PROVE  m \in Gone'
<1> USE DEF Gone
<1>1. CASE UNCHANGED vars
  BY <1>1 DEF vars, past
<1>2. ASSUME NEW n \in Own,
             \/ SendMessage(n) \/ PipelineRejects(n) \/ SaveFails(n) \/ WireAccepts(n)
             \/ SendAcked(n) \/ SendRejected(n) \/ MarkSent(n) \/ PutSent(n) \/ MarkFails(n)
      PROVE  m \in Gone'
  BY <1>2 DEF SendMessage, PipelineRejects, SaveFails, WireAccepts, SendAcked, SendRejected,
              MarkSent, PutSent, MarkFails, past
<1>3. ASSUME NEW n \in Own, PipelineDone(n) \/ SaveDone(n) PROVE m \in Gone'
  BY <1>3 DEF PipelineDone, SaveDone, AddNonce
<1>4. ASSUME NEW h \in Handlers, NEW e \in Ids, Deliver(h, e) \/ EmitStreamEnd(h, e)
      PROVE  m \in Gone'
  BY <1>4 DEF Deliver, EmitStreamEnd
<1>5. ASSUME NEW h \in Handlers,
             \/ Resume(h) \/ LookupDone(h) \/ LookupFails(h) \/ InMemoryAccept(h)
             \/ InboundSaved(h) \/ InboundSaveFails(h) \/ StreamSaved(h) \/ StreamSaveFails(h)
      PROVE  m \in Gone'
  BY <1>5 DEF Resume, LookupDone, LookupFails, InMemoryAccept, InboundSaved, InboundSaveFails,
              StreamSaved, StreamSaveFails
<1>6. CASE HydrationDone \/ HydrationFails
  BY <1>6 DEF HydrationDone, HydrationFails, past
<1>7. ASSUME NEW o \in Editors,
             \/ \E id \in Ids : DeleteMessage(o, id) \/ \E c \in Contents : UpdateMessage(o, id, c)
             \/ UpdateRead(o) \/ UpdateMerge(o) \/ UpdatePut(o)
             \/ DeleteRead(o) \/ DeleteDone(o) \/ EditFails(o)
      PROVE  m \in Gone'
  BY <1>7 DEF DeleteMessage, UpdateMessage, UpdateRead, UpdateMerge, UpdatePut, DeleteRead,
              DeleteDone, EditFails, past
<1>8. CASE Restart
  BY <1>8 DEF Restart
<1> QED
  BY <1>1, <1>2, <1>3, <1>4, <1>5, <1>6, <1>7, <1>8 DEF Next

\* An own message that is remembered stays so, over evictions, deletions and reloads.
LEMMA RememberedStays ==
    ASSUME TypeOK, [Next]_vars, NEW m \in Own, Remembered(m)
    PROVE  Remembered(m)'
<1>1. CASE m \in Gone
  BY <1>1, GoneGrows DEF Remembered
<1>2. CASE m \notin Gone
  <2> USE DEF Remembered
  <2>0. m \in Ids /\ store \in [Ids -> Record \cup {None}]
    BY DEF Ids, TypeOK, StoreOK
  <2>1. CASE UNCHANGED <<nonces, hydrated, store>>
    BY <1>2, <2>1, GoneGrows
  <2>2. ASSUME NEW id \in Ids, NEW r \in Record, store' = [store EXCEPT ![id] = r],
               UNCHANGED <<nonces, hydrated>>
        PROVE  Remembered(m)'
    BY <1>2, <2>0, <2>2, RecordsAreNotNone
  <2>3. ASSUME NEW n \in Own, PipelineDone(n) \/ SaveDone(n)
        PROVE  Remembered(m)'
    <3>1. n \in Ids /\ [content |-> Original, status |-> "pending"] \in Record
      BY ConstantsAssumption DEF Ids, Record
    <3>2. store'[m] = store[m] \/ store'[m] # None
      BY <2>0, <2>3, <3>1, RecordsAreNotNone DEF PipelineDone, SaveDone
    <3>3. hydrated' = hydrated
      BY <2>3 DEF PipelineDone, SaveDone
    <3>4. m \in Range(nonces) => m \in Range(nonces') \cup forgotten'
      BY <2>3, NonceType DEF PipelineDone, SaveDone
    <3> QED BY <1>2, <3>2, <3>3, <3>4 DEF Gone
  <2>4. ASSUME NEW n \in Own,
               \/ SendMessage(n) \/ PipelineRejects(n) \/ SaveFails(n) \/ WireAccepts(n)
               \/ SendRejected(n) \/ MarkFails(n)
        PROVE  Remembered(m)'
    BY <2>1, <2>4 DEF SendMessage, PipelineRejects, SaveFails, WireAccepts, SendRejected,
                      MarkFails, session
  <2>5. ASSUME NEW n \in Own, SendAcked(n) \/ MarkSent(n) \/ PutSent(n)
        PROVE  Remembered(m)'
    <3>1. n \in Ids /\ [content |-> Original, status |-> "sent"] \in Record
      BY ConstantsAssumption DEF Ids, Record
    <3>2. CASE SendAcked(n)
      BY <2>1, <2>2, <3>1, <3>2 DEF SendAcked, session
    <3>3. CASE MarkSent(n)
      <4>1. store[n] # None => [store[n] EXCEPT !.status = "sent"] \in Record
        BY <2>0, <3>1 DEF Record
      <4>2. store[m] # None => store'[m] # None
        BY <2>0, <3>1, <3>3, <4>1, RecordsAreNotNone DEF MarkSent
      <4> QED BY <1>2, <3>3, <4>2 DEF MarkSent, session
    <3>4. CASE PutSent(n)
      <4>1. [send[n].copy EXCEPT !.status = "sent"] \in Record
        <5>1. send[n].copy \in Record
          BY <3>4 DEF PutSent, TypeOK, CallsOK, SendCalls
        <5> QED BY <5>1 DEF Record
      <4> QED BY <2>2, <3>1, <3>4, <4>1 DEF PutSent, session
    <3> QED BY <2>5, <3>2, <3>3, <3>4
  <2>6. ASSUME NEW h \in Handlers, NEW e \in Ids, Deliver(h, e) PROVE Remembered(m)'
    BY <2>1, <2>6 DEF Deliver
  <2>7. ASSUME NEW h \in Handlers, NEW e \in Ids,
               store' = store \/ store' = [store EXCEPT ![e] = [content |-> Original, status |-> "sent"]],
               UNCHANGED <<nonces, hydrated>>
        PROVE  Remembered(m)'
    <3>1. [content |-> Original, status |-> "sent"] \in Record
      BY ConstantsAssumption DEF Record
    <3> QED BY <2>1, <2>2, <2>7, <3>1
  <2>8. ASSUME NEW h \in Handlers, NEW e \in Ids, EmitStreamEnd(h, e) PROVE Remembered(m)'
    BY <2>7, <2>8 DEF EmitStreamEnd
  <2>9. ASSUME NEW h \in Handlers, Resume(h) \/ LookupDone(h) \/ LookupFails(h)
                                   \/ InboundSaveFails(h) \/ StreamSaveFails(h)
        PROVE  Remembered(m)'
    BY <2>1, <2>9 DEF Resume, LookupDone, LookupFails, InboundSaveFails, StreamSaveFails, session
  <2>10. ASSUME NEW h \in Handlers, InMemoryAccept(h) \/ InboundSaved(h) \/ StreamSaved(h)
         PROVE  Remembered(m)'
    <3>1. handler[h].msg \in Ids
      BY <2>10 DEF InMemoryAccept, InboundSaved, StreamSaved, TypeOK, CallsOK, HandlerCalls, Idle
    <3> QED BY <2>7, <2>10, <3>1 DEF InMemoryAccept, InboundSaved, StreamSaved, Accept, session
  <2>11. CASE HydrationDone
    <3>1. store[m] # None \/ m \in Range(nonces)
      BY <1>2
    <3>2. m \in Range(nonces') \cup forgotten'
      BY <2>11, <3>1, HydrationEffect
    <3> QED BY <1>2, <2>11, <3>2 DEF HydrationDone, Gone
  <2>12. CASE HydrationFails
    BY <2>1, <2>12 DEF HydrationFails
  <2>13. ASSUME NEW o \in Editors, NEW id \in Ids,
                DeleteMessage(o, id) \/ \E c \in Contents : UpdateMessage(o, id, c)
         PROVE  Remembered(m)'
    BY <1>2, <2>0, <2>13, RecordsAreNotNone DEF DeleteMessage, UpdateMessage, session, Gone, Record
  <2>14. ASSUME NEW o \in Editors, UpdateRead(o) \/ DeleteRead(o) \/ EditFails(o)
         PROVE  Remembered(m)'
    BY <2>1, <2>14 DEF UpdateRead, DeleteRead, EditFails, session
  <2>15. ASSUME NEW o \in Editors, UpdateMerge(o) \/ UpdatePut(o)
         PROVE  Remembered(m)'
    <3> DEFINE r == [editor[o].copy EXCEPT !.content = editor[o].content]
    <3>1. editor[o].msg \in Ids /\ r \in Record
      BY <2>15 DEF UpdateMerge, UpdatePut, TypeOK, CallsOK, EditorCalls, NoEdit, Record
    <3>2. store' = store \/ store' = [store EXCEPT ![editor[o].msg] = r]
      BY <2>0, <2>15, <3>1 DEF UpdateMerge, UpdatePut
    <3> QED BY <2>1, <2>2, <2>15, <3>1, <3>2 DEF UpdateMerge, UpdatePut, session
  <2>16. ASSUME NEW o \in Editors, DeleteDone(o) PROVE Remembered(m)'
    BY <1>2, <2>0, <2>16 DEF DeleteDone, session, Gone
  <2>17. CASE Restart
    BY <1>2, <2>17 DEF Restart, Gone
  <2>18. CASE UNCHANGED vars
    BY <2>1, <2>18 DEF vars, session
  <2> QED
    BY <2>3, <2>4, <2>5, <2>6, <2>8, <2>9, <2>10, <2>11, <2>12, <2>13, <2>14, <2>15, <2>16,
       <2>17, <2>18 DEF Next
<1> QED BY <1>1, <1>2

\* The steps that touch a sendMessage call or the wire.
SendStep ==
    \/ \E m \in Own :
         \/ SendMessage(m) \/ PipelineRejects(m) \/ PipelineDone(m)
         \/ SaveDone(m) \/ SaveFails(m) \/ WireAccepts(m) \/ SendAcked(m) \/ SendRejected(m)
         \/ MarkSent(m) \/ PutSent(m) \/ MarkFails(m)
    \/ Restart

\* Only sends touch send and onWire.
LEMMA OtherStepsLeaveSends ==
    [Next]_vars => SendStep \/ UNCHANGED <<send, onWire>>
<1> SUFFICES ASSUME [Next]_vars, ~SendStep PROVE UNCHANGED <<send, onWire>>
  OBVIOUS
<1>1. CASE UNCHANGED vars
  BY <1>1 DEF vars, calls
<1>2. ASSUME NEW h \in Handlers, NEW e \in Ids, Deliver(h, e) \/ EmitStreamEnd(h, e)
      PROVE  UNCHANGED <<send, onWire>>
  BY <1>2 DEF Deliver, EmitStreamEnd
<1>3. ASSUME NEW h \in Handlers,
             \/ Resume(h) \/ LookupDone(h) \/ LookupFails(h) \/ InMemoryAccept(h)
             \/ InboundSaved(h) \/ InboundSaveFails(h) \/ StreamSaved(h) \/ StreamSaveFails(h)
      PROVE  UNCHANGED <<send, onWire>>
  BY <1>3 DEF Resume, LookupDone, LookupFails, InMemoryAccept, InboundSaved,
              InboundSaveFails, StreamSaved, StreamSaveFails
<1>4. CASE HydrationDone \/ HydrationFails
  BY <1>4 DEF HydrationDone, HydrationFails, calls
<1>5. ASSUME NEW o \in Editors,
             \/ \E id \in Ids : DeleteMessage(o, id) \/ \E c \in Contents : UpdateMessage(o, id, c)
             \/ UpdateRead(o) \/ UpdateMerge(o) \/ UpdatePut(o)
             \/ DeleteRead(o) \/ DeleteDone(o) \/ EditFails(o)
      PROVE  UNCHANGED <<send, onWire>>
  BY <1>5 DEF DeleteMessage, UpdateMessage, UpdateRead, UpdateMerge, UpdatePut,
              DeleteRead, DeleteDone, EditFails
<1> QED
  BY <1>1, <1>2, <1>3, <1>4, <1>5 DEF Next, SendStep

\* What the server has accepted stays accepted.
LEMMA WireGrows == [Next]_vars => onWire \subseteq onWire'
<1> SUFFICES ASSUME SendStep PROVE onWire \subseteq onWire'
  BY OtherStepsLeaveSends
<1> QED
  BY DEF SendStep, SendMessage, PipelineRejects, PipelineDone, SaveDone, SaveFails, WireAccepts,
         SendAcked, SendRejected, MarkSent, PutSent, MarkFails, Restart

\* A message is remembered from the step that makes transport.send callable.
LEMMA SentAreRemembered ==
    ASSUME TypeOK, EchoInv, [Next]_vars, NEW m \in Own, m \in onWire' \/ send'[m].pc = "sending"
    PROVE  Remembered(m)'
<1> USE DEF TypeOK, CallsOK
<1>1. CASE m \in onWire \/ send[m].pc = "sending"
  BY <1>1, RememberedStays DEF EchoInv
<1>2. CASE m \notin onWire /\ send[m].pc # "sending"
  <2>1. SaveDone(m) \/ PipelineDone(m)
    <3> SUFFICES ASSUME ~SaveDone(m), ~PipelineDone(m), SendStep PROVE FALSE
      BY <1>2, OtherStepsLeaveSends
    <3>1. ASSUME NEW n \in Own, SaveDone(n) \/ PipelineDone(n) PROVE FALSE
      BY <1>2, <3>1 DEF SaveDone, PipelineDone
    <3>2. ASSUME NEW n \in Own, WireAccepts(n) PROVE FALSE
      BY <1>2, <3>2 DEF WireAccepts, calls
    <3>3. ASSUME NEW n \in Own,
                 \/ SendMessage(n) \/ PipelineRejects(n) \/ SaveFails(n) \/ SendAcked(n)
                 \/ SendRejected(n) \/ MarkSent(n) \/ PutSent(n) \/ MarkFails(n)
          PROVE  FALSE
      <4>1. onWire' = onWire
        BY <3>3 DEF SendMessage, PipelineRejects, SaveFails, SendAcked, SendRejected,
                    MarkSent, PutSent, MarkFails
      <4>2. PICK r \in SendCalls : r.pc # "sending" /\ send' = [send EXCEPT ![n] = r]
        <5>1. ASSUME NEW v \in SendStates \ {"putting"}, send[n].pc # "putting"
              PROVE  [send[n] EXCEPT !.pc = v] \in SendCalls /\ [send[n] EXCEPT !.pc = v].pc = v
          BY <5>1 DEF SendCalls
        <5>2. ASSUME NEW v \in SendStates \ {"putting"}
              PROVE  [pc |-> v, copy |-> None] \in SendCalls
          BY DEF SendCalls
        <5>3. store[n] # None => [pc |-> "putting", copy |-> store[n]] \in SendCalls
          BY DEF SendCalls, StoreOK, Ids
        <5>4. ASSUME SendMessage(n) \/ PipelineRejects(n) \/ SaveFails(n) \/ SendRejected(n)
              PROVE  \E r \in SendCalls : r.pc # "sending" /\ send' = [send EXCEPT ![n] = r]
          BY <5>1, <5>4 DEF SendMessage, PipelineRejects, SaveFails, SendRejected, SendStates
        <5>5. ASSUME SendAcked(n)
              PROVE  \E r \in SendCalls : r.pc # "sending" /\ send' = [send EXCEPT ![n] = r]
          BY <5>1, <5>5 DEF SendAcked, SendStates
        <5>6. ASSUME MarkSent(n)
              PROVE  \E r \in SendCalls : r.pc # "sending" /\ send' = [send EXCEPT ![n] = r]
          BY <5>1, <5>3, <5>6 DEF MarkSent, SendStates
        <5>7. ASSUME PutSent(n) \/ MarkFails(n)
              PROVE  \E r \in SendCalls : r.pc # "sending" /\ send' = [send EXCEPT ![n] = r]
          BY <5>2, <5>7 DEF PutSent, MarkFails, SendStates
        <5> QED BY <3>3, <5>4, <5>5, <5>6, <5>7
      <4> QED BY <1>2, <4>1, <4>2
    <3>4. ASSUME Restart PROVE FALSE
      <4>1. onWire' = onWire /\ send'[m] \in {send[m], [pc |-> "lost", copy |-> None]}
        BY <3>4 DEF Restart
      <4> QED BY <1>2, <4>1
    <3> QED
      BY <3>1, <3>2, <3>3, <3>4 DEF SendStep
  <2>2. ~(PipelineDone(m) /\ Storage # "none")
    <3> SUFFICES ASSUME PipelineDone(m), Storage # "none" PROVE FALSE
      OBVIOUS
    <3>1. send'[m] = [send[m] EXCEPT !.pc = "saving"] /\ onWire' = onWire
      BY DEF PipelineDone
    <3>2. send'[m].pc = "saving"
      BY <3>1 DEF SendCalls
    <3> QED BY <1>2, <3>1, <3>2
  <2>3. m \in Range(nonces')
    BY <2>1, <2>2, NonceType DEF SaveDone, PipelineDone
  <2>4. CASE SaveDone(m)
    <3>1. m \in Ids /\ [content |-> Original, status |-> "pending"] \in Record
      BY ConstantsAssumption DEF Ids, Record
    <3>2. store'[m] # None
      BY <2>4, <3>1, RecordsAreNotNone DEF SaveDone, StoreOK
    <3> QED BY <2>3, <3>2 DEF Remembered
  <2>5. CASE PipelineDone(m)
    BY <2>2, <2>3, <2>5 DEF Remembered
  <2> QED BY <2>1, <2>4, <2>5
<1> QED BY <1>1, <1>2

\* A handler goes on to accept the copy of an own message only if that message is gone.
LEMMA UnknownEchoIsGone ==
    ASSUME TypeOK, EchoInv, NEW e \in Ids, NonceOf(e) # None, Deliverable(e),
           Storage = "none" \/ hydrated, ~IsOwnEchoWithKnownNonce(e)
    PROVE  NonceOf(e) \in Gone
<1>1. NonceOf(e) \in onWire /\ NonceOf(e) \in Own
  BY NonceOfType DEF Deliverable
<1>2. Remembered(NonceOf(e)) /\ NonceOf(e) \notin Range(nonces)
  BY <1>1 DEF EchoInv, IsOwnEchoWithKnownNonce
<1> QED BY <1>2 DEF Remembered

\* The server's copy of an own message is announced as received only if the message was
\* deleted or its nonce fell to a limit, over any number of reloads and hydrations.
THEOREM EchoesAreSuppressed == Spec => []EchoSuppressed
<1>1. Init => EchoInv
  BY DEF Init, EchoInv, EchoSuppressed, Accepting, Idle, NoSend, Ids
<1>2. TypeOK /\ EchoInv /\ [Next]_vars => EchoInv'
  <2> SUFFICES ASSUME TypeOK, EchoInv, [Next]_vars PROVE EchoInv'
    OBVIOUS
  <2>0. handler \in [Handlers -> HandlerCalls] /\ received \in [Ids -> 0..MaxSeen]
    BY DEF TypeOK, CallsOK, HistoryOK
  <2>1. \A m \in Own : m \in onWire' \/ send'[m].pc = "sending" => Remembered(m)'
    BY SentAreRemembered
  <2>2. \A e \in Ids : NonceOf(e) # None /\ NonceOf(e) \in Gone => NonceOf(e) \in Gone'
    BY GoneGrows, NonceOfType
  <2>3. \A e \in Ids : Deliverable(e) => Deliverable(e)'
    BY WireGrows DEF Deliverable
  <2> DEFINE HandlersFine ==
        /\ \A h \in Handlers : handler[h].pc = "hydrate" => Deliverable(handler[h].msg)
        /\ \A h \in Handlers :
             Accepting(h) /\ NonceOf(handler[h].msg) # None => NonceOf(handler[h].msg) \in Gone
        /\ EchoSuppressed
  <2>f. HandlersFine
    BY DEF EchoInv
  <2>g. \A e \in Ids : received[e] > 0 /\ NonceOf(e) # None => NonceOf(e) \in Gone
    BY DEF EchoInv, EchoSuppressed, Gone
  <2>t. \A h \in Handlers : handler[h].pc # "idle" => handler[h].msg \in Ids
    BY <2>0 DEF HandlerCalls, Idle
  <2> SUFFICES HandlersFine'
    BY <2>1 DEF EchoInv
  <2>4. ASSUME NEW h \in Handlers, NEW r \in HandlerCalls,
               \/ r.pc \in {"idle", "stream"}
               \/ r.pc = "hydrate" /\ Deliverable(r.msg)
               \/ r.pc \in {"lookup", "save"} /\ (NonceOf(r.msg) # None => NonceOf(r.msg) \in Gone),
               handler' = [handler EXCEPT ![h] = r],
               \A e \in Ids : received'[e] > 0 =>
                   received[e] > 0 \/ (NonceOf(e) # None => NonceOf(e) \in Gone)
        PROVE  HandlersFine'
    <3>1. \A g \in Handlers : handler'[g] = IF g = h THEN r ELSE handler[g]
      BY <2>0, <2>4
    <3>2. r.pc # "idle" => r.msg \in Ids
      BY DEF HandlerCalls, Idle
    <3>3. \A g \in Handlers : handler'[g].pc = "hydrate" => Deliverable(handler[g].msg)'
      BY <2>3, <2>4, <2>f, <2>t, <3>1, <3>2
    <3>4. \A g \in Handlers : handler'[g].pc \in {"lookup", "save"} /\ NonceOf(handler'[g].msg) # None
                                => NonceOf(handler'[g].msg) \in Gone'
      BY <2>2, <2>4, <2>f, <2>t, <3>1, <3>2 DEF Accepting
    <3>5. EchoSuppressed'
      BY <2>2, <2>4, <2>g DEF EchoSuppressed, Gone
    <3> QED BY <3>3, <3>4, <3>5 DEF Accepting
  <2>5. CASE UNCHANGED <<pendingIn, handler, received>>
    BY <2>2, <2>3, <2>5, <2>f, <2>g, <2>t DEF Accepting, EchoSuppressed, Gone, Deliverable
  <2>6. ASSUME NEW h \in Handlers, NEW e \in Ids, Deliverable(e), Storage = "none" \/ hydrated,
               Classify(h, e), UNCHANGED received
        PROVE  HandlersFine'
    <3>1. CASE handler' = [handler EXCEPT ![h] = Idle]
      BY <2>4, <2>6, <3>1 DEF HandlerCalls, Idle
    <3>2. CASE /\ ~IsOwnEchoWithKnownNonce(e)
               /\ handler' = [handler EXCEPT ![h] = [pc |-> "lookup", msg |-> e]]
      <4>1. NonceOf(e) # None => NonceOf(e) \in Gone
        BY <2>6, <3>2, UnknownEchoIsGone
      <4>2. [pc |-> "lookup", msg |-> e] \in HandlerCalls
        BY DEF HandlerCalls, HandlerStates
      <4> QED BY <2>4, <2>6, <3>2, <4>1, <4>2
    <3> QED BY <2>6, <3>1, <3>2 DEF Classify
  <2>7. ASSUME NEW h \in Handlers, NEW e \in Ids, Deliver(h, e) PROVE HandlersFine'
    <3>1. CASE Storage = "none"
      BY <2>6, <2>7, <3>1 DEF Deliver
    <3>2. CASE Storage # "none"
      <4>1. [pc |-> "hydrate", msg |-> e] \in HandlerCalls
        BY DEF HandlerCalls, HandlerStates
      <4> QED BY <2>4, <2>7, <3>2, <4>1 DEF Deliver
    <3> QED BY <3>1, <3>2
  <2>8. ASSUME NEW h \in Handlers, NEW e \in Ids, EmitStreamEnd(h, e) PROVE HandlersFine'
    <3>1. [pc |-> "stream", msg |-> e] \in HandlerCalls
      BY DEF HandlerCalls, HandlerStates
    <3>2. CASE handler' = handler
      BY <2>2, <2>3, <2>8, <3>2, <2>f, <2>g, <2>t
      DEF EmitStreamEnd, Accepting, EchoSuppressed, Gone, Deliverable
    <3>3. CASE handler' # handler
      BY <2>4, <2>8, <3>1, <3>3 DEF EmitStreamEnd
    <3> QED BY <3>2, <3>3
  <2>9. ASSUME NEW h \in Handlers, Resume(h) PROVE HandlersFine'
    BY <2>6, <2>9, <2>f, <2>t DEF Resume
  <2>10. ASSUME NEW h \in Handlers, LookupDone(h) \/ LookupFails(h) PROVE HandlersFine'
    <3>1. handler[h].pc = "lookup" /\ UNCHANGED received
      BY <2>10 DEF LookupDone, LookupFails
    <3>2. [handler[h] EXCEPT !.pc = "save"] = [pc |-> "save", msg |-> handler[h].msg]
      BY <2>0, <3>1 DEF HandlerCalls, Idle
    <3>3. [pc |-> "save", msg |-> handler[h].msg] \in HandlerCalls /\ Idle \in HandlerCalls
      BY <2>t, <3>1 DEF HandlerCalls, HandlerStates
    <3>4. NonceOf(handler[h].msg) # None => NonceOf(handler[h].msg) \in Gone
      BY <2>f, <3>1 DEF Accepting
    <3>5. CASE handler' = [handler EXCEPT ![h] = Idle]
      BY <2>4, <3>1, <3>3, <3>5 DEF Idle
    <3>6. CASE handler' = [handler EXCEPT ![h] = [pc |-> "save", msg |-> handler[h].msg]]
      BY <2>4, <3>1, <3>3, <3>4, <3>6
    <3> QED BY <2>10, <3>2, <3>5, <3>6 DEF LookupDone, LookupFails
  <2>11. ASSUME NEW h \in Handlers,
                InMemoryAccept(h) \/ InboundSaved(h) \/ InboundSaveFails(h)
                \/ StreamSaved(h) \/ StreamSaveFails(h)
         PROVE  HandlersFine'
    <3>1. handler' = [handler EXCEPT ![h] = Idle]
      BY <2>11 DEF InMemoryAccept, InboundSaved, InboundSaveFails, StreamSaved, StreamSaveFails, Accept
    <3>2. UNCHANGED received \/ (Accepting(h) /\ Accept(h, handler[h].msg))
      BY <2>11 DEF InMemoryAccept, InboundSaved, InboundSaveFails, StreamSaved, StreamSaveFails, Accepting
    <3>3. Accepting(h) => handler[h].msg \in Ids /\
              (NonceOf(handler[h].msg) # None => NonceOf(handler[h].msg) \in Gone)
      BY <2>f, <2>t DEF Accepting
    <3>4. \A e \in Ids : received'[e] > 0 =>
              received[e] > 0 \/ (NonceOf(e) # None => NonceOf(e) \in Gone)
      BY <2>0, <3>2, <3>3 DEF Accept
    <3>5. Idle \in HandlerCalls /\ Idle.pc = "idle"
      BY DEF HandlerCalls, Idle
    <3> QED BY <2>4, <3>1, <3>4, <3>5
  <2>12. CASE HydrationFails
    <3>1. UNCHANGED received /\ \A h \in Handlers : handler'[h] = handler[h] \/ handler'[h] = Idle
      BY <2>12 DEF HydrationFails, past
    <3> QED BY <2>2, <2>3, <2>f, <2>g, <2>t, <3>1 DEF Accepting, EchoSuppressed, Gone, Idle, Deliverable
  <2>13. CASE Restart
    <3>1. \A h \in Handlers : handler'[h] = Idle
      BY <2>13 DEF Restart
    <3>2. \A e \in Ids : received'[e] > 0 => received[e] > 0
      BY <2>13 DEF Restart
    <3> QED BY <2>2, <2>g, <3>1, <3>2 DEF Accepting, EchoSuppressed, Gone, Idle
  <2> QED
    BY <2>5, <2>7, <2>8, <2>9, <2>10, <2>11, <2>12, <2>13, OtherStepsLeaveHandlers DEF HandlerStep
<1> QED
  BY <1>1, <1>2, TypeCorrect, PTL DEF Spec, EchoInv

-------------------------------------------------------------------------------
(***************************************************************************)
(* What the dedup index achieves: no id is announced twice                 *)
(* (OncePerSession, ReceivedAtMostOnce), and none is indexed and then lost *)
(* (NoInboundSwallowed).  An id the engine has dealt with in this session  *)
(* is in the index or was evicted from it; a handler that holds the        *)
(* reservation of an announced id took it after the eviction.  The last    *)
(* part is about the store: what was said of a message is what it keeps,   *)
(* if nobody edits a message that is still being sent.                     *)
(***************************************************************************)

Known == Range(index) \cup evicted

\* An id that leaves the index is noted as evicted.
LEMMA IndexGrows ==
    ASSUME TypeOK, NEW e \in Ids, AddToMessageIndex(e)
    PROVE  /\ Range(index') \subseteq Range(index) \cup {e}
           /\ Known \cup {e} \subseteq Known' /\ evicted \subseteq evicted'
<1>1. Range(index') \subseteq Range(index) \cup {e} /\ e \in Range(index')
  BY ConstantsAssumption, AddCappedType DEF TypeOK, SessionOK, AddToMessageIndex
<1> QED
  BY <1>1 DEF AddToMessageIndex, Known

\* Only deliveries, and the save of an own message, touch the index.
LEMMA OtherStepsLeaveIndex ==
    [Next]_vars => \/ HandlerStep
                   \/ \E m \in Own : PipelineDone(m)
                   \/ UNCHANGED <<index, evicted, announced, handler, received, pendingIn>>
<1> SUFFICES ASSUME [Next]_vars, ~HandlerStep, ~\E m \in Own : PipelineDone(m)
             PROVE  UNCHANGED <<index, evicted, announced, handler, received, pendingIn>>
  OBVIOUS
<1>1. CASE UNCHANGED vars
  BY <1>1 DEF vars, session, calls, past
<1>2. CASE \E m \in Own :
         \/ SendMessage(m) \/ PipelineRejects(m)
         \/ SaveDone(m) \/ SaveFails(m) \/ WireAccepts(m) \/ SendAcked(m) \/ SendRejected(m)
         \/ MarkSent(m) \/ PutSent(m) \/ MarkFails(m)
  BY <1>2 DEF SendMessage, PipelineRejects, SaveDone, SaveFails, WireAccepts,
              SendAcked, SendRejected, MarkSent, PutSent, MarkFails, session, calls, past
<1>3. CASE \E o \in Editors :
         \/ \E id \in Ids : DeleteMessage(o, id) \/ \E c \in Contents : UpdateMessage(o, id, c)
         \/ UpdateRead(o) \/ UpdateMerge(o) \/ UpdatePut(o)
         \/ DeleteRead(o) \/ DeleteDone(o) \/ EditFails(o)
  BY <1>3 DEF DeleteMessage, UpdateMessage, UpdateRead, UpdateMerge, UpdatePut, DeleteRead,
              DeleteDone, EditFails, session, past
<1>4. CASE HydrationDone
  BY <1>4 DEF HydrationDone, calls
<1> QED
  BY <1>1, <1>2, <1>3, <1>4 DEF Next, HandlerStep

-------------------------------------------------------------------------------
OnceInv ==
    /\ announced \subseteq Known
    /\ \A h \in Handlers : handler[h].pc = "save" => handler[h].msg \in Known
    /\ \A h \in Handlers : Accepting(h) /\ handler[h].msg \in announced => handler[h].msg \in evicted

\* How a handler's step may change what OnceInv is about.
LEMMA HandlerMoves ==
    ASSUME TypeOK, OnceInv, NEW h \in Handlers, NEW r \in HandlerCalls,
           handler' = [handler EXCEPT ![h] = r], announced' = announced,
           Known \subseteq Known', evicted \subseteq evicted',
           r.pc = "save" => r.msg \in Known',
           r.pc \in {"lookup", "save"} /\ r.msg \in announced => r.msg \in evicted'
    PROVE  OnceInv'
<1>1. handler \in [Handlers -> HandlerCalls]
  BY DEF TypeOK, CallsOK
<1> QED
  BY <1>1 DEF OnceInv, Accepting

\* The duplicate check of a delivery.
LEMMA ClassifyOnce ==
    ASSUME TypeOK, OnceInv, NEW h \in Handlers, NEW e \in Ids, Classify(h, e), announced' = announced
    PROVE  OnceInv'
<1>0. Idle \in HandlerCalls /\ Idle.pc = "idle"
  BY DEF HandlerCalls, Idle
<1>1. CASE IsOwnEchoWithKnownNonce(e)
  <2>1. AddToMessageIndex(e) /\ handler' = [handler EXCEPT ![h] = Idle]
    BY <1>1 DEF Classify
  <2> QED
    BY <1>0, <2>1, IndexGrows, HandlerMoves
<1>2. CASE ~IsOwnEchoWithKnownNonce(e) /\ IsReserved(e)
  <2>1. UNCHANGED <<index, evicted>> /\ handler' = [handler EXCEPT ![h] = Idle]
    BY <1>2 DEF Classify
  <2> QED
    BY <1>0, <2>1, HandlerMoves DEF Known
<1>3. CASE ~IsOwnEchoWithKnownNonce(e) /\ ~IsReserved(e)
  <2> DEFINE r == [pc |-> "lookup", msg |-> e]
  <2>1. UNCHANGED <<index, evicted>> /\ handler' = [handler EXCEPT ![h] = r] /\ e \notin Range(index)
    BY <1>3 DEF Classify, IsReserved
  <2>2. r \in HandlerCalls /\ r.pc = "lookup" /\ r.msg = e
    BY DEF HandlerCalls, HandlerStates
  <2>3. e \in announced => e \in evicted
    BY <2>1 DEF OnceInv, Known
  <2> HIDE DEF r
  <2> QED
    BY <2>1, <2>2, <2>3, HandlerMoves DEF Known
<1> QED
  BY <1>1, <1>2, <1>3

\* The reservation of e goes with its announcement, and no other handler holds it.
LEMMA AcceptOnce ==
    ASSUME TypeOK, ReservationExclusive, OnceInv, NEW h \in Handlers, Accepting(h),
           Accept(h, handler[h].msg),
           Known \cup {handler[h].msg} \subseteq Known', evicted \subseteq evicted'
    PROVE  OnceInv'
<1>1. handler \in [Handlers -> HandlerCalls]
  BY DEF TypeOK, CallsOK
<1>2. /\ handler' = [handler EXCEPT ![h] = Idle] /\ announced' = announced \cup {handler[h].msg}
      /\ Idle.pc = "idle"
  BY DEF Accept, Idle
<1>3. \A g \in Handlers : g # h /\ Accepting(g) => handler[g].msg # handler[h].msg
  BY DEF ReservationExclusive
<1>4. \A g \in Handlers : handler'[g].pc \in {"lookup", "save"} =>
                            g # h /\ Accepting(g) /\ handler'[g] = handler[g]
  BY <1>1, <1>2 DEF Accepting
<1> QED
  BY <1>2, <1>3, <1>4 DEF OnceInv, Accepting

\* Every step keeps OnceInv.
LEMMA OnceStep == TypeOK /\ ReservationExclusive /\ OnceInv /\ [Next]_vars => OnceInv'
<1> SUFFICES ASSUME TypeOK, ReservationExclusive, OnceInv, [Next]_vars PROVE OnceInv'
  OBVIOUS
<1>0. handler \in [Handlers -> HandlerCalls] /\ Idle \in HandlerCalls /\ Idle.pc = "idle"
  BY DEF TypeOK, CallsOK, HandlerCalls, Idle
<1>a. \A h \in Handlers : handler[h].pc # "idle" => handler[h].msg \in Ids
  BY <1>0 DEF HandlerCalls, Idle
<1>1. CASE UNCHANGED <<index, evicted, announced, handler, received, pendingIn>>
  BY <1>1 DEF OnceInv, Known, Accepting
<1>2. ASSUME NEW m \in Own, PipelineDone(m) PROVE OnceInv'
  <2>1. AddToMessageIndex(m) /\ m \in Ids /\ UNCHANGED <<announced, handler>>
    BY <1>2 DEF PipelineDone, Ids
  <2>2. Known \subseteq Known' /\ evicted \subseteq evicted'
    BY <2>1, IndexGrows
  <2> QED
    BY <2>1, <2>2 DEF OnceInv, Accepting
<1>3. ASSUME NEW h \in Handlers, NEW e \in Ids, Deliver(h, e) PROVE OnceInv'
  <2>1. CASE Storage = "none"
    BY <1>3, <2>1, ClassifyOnce DEF Deliver
  <2>2. CASE Storage # "none"
    <3> DEFINE r == [pc |-> "hydrate", msg |-> e]
    <3>1. r \in HandlerCalls /\ r.pc = "hydrate"
      BY DEF HandlerCalls, HandlerStates
    <3>2. handler' = [handler EXCEPT ![h] = r] /\ UNCHANGED <<index, evicted, announced>>
      BY <1>3, <2>2 DEF Deliver
    <3> HIDE DEF r
    <3> QED
      BY <3>1, <3>2, HandlerMoves DEF Known
  <2> QED
    BY <2>1, <2>2
<1>4. ASSUME NEW h \in Handlers, NEW e \in Ids, EmitStreamEnd(h, e) PROVE OnceInv'
  <2>1. AddToMessageIndex(e) /\ announced' = announced
    BY <1>4 DEF EmitStreamEnd
  <2>2. Known \subseteq Known' /\ evicted \subseteq evicted'
    BY <2>1, IndexGrows
  <2>3. CASE UNCHANGED handler
    BY <2>1, <2>2, <2>3 DEF OnceInv, Accepting
  <2>4. CASE handler' = [handler EXCEPT ![h] = [pc |-> "stream", msg |-> e]]
    <3> DEFINE r == [pc |-> "stream", msg |-> e]
    <3>1. r \in HandlerCalls /\ r.pc = "stream"
      BY DEF HandlerCalls, HandlerStates
    <3> HIDE DEF r
    <3> QED
      BY <2>1, <2>2, <2>4, <3>1, HandlerMoves DEF r
  <2> QED
    BY <1>4, <2>3, <2>4 DEF EmitStreamEnd
<1>5. ASSUME NEW h \in Handlers, Resume(h) PROVE OnceInv'
  BY <1>5, <1>a, ClassifyOnce DEF Resume
<1>6. ASSUME NEW h \in Handlers, LookupDone(h) \/ LookupFails(h) PROVE OnceInv'
  <2> DEFINE e == handler[h].msg
             r == [handler[h] EXCEPT !.pc = "save"]
  <2>1. e \in Ids /\ Accepting(h) /\ AddToMessageIndex(e) /\ announced' = announced
    BY <1>6, <1>a DEF LookupDone, LookupFails, Accepting
  <2>2. Known \cup {e} \subseteq Known' /\ evicted \subseteq evicted'
    BY <2>1, IndexGrows
  <2>3. handler' = [handler EXCEPT ![h] = Idle] \/ handler' = [handler EXCEPT ![h] = r]
    BY <1>6, <1>0 DEF LookupDone, LookupFails
  <2>4. r \in HandlerCalls /\ r.pc = "save" /\ r.msg = e
    BY <1>0, <2>1, <1>6 DEF HandlerCalls, HandlerStates, Idle, LookupDone, LookupFails
  <2>5. e \in announced => e \in evicted
    BY <2>1 DEF OnceInv
  <2> HIDE DEF r
  <2>6. CASE handler' = [handler EXCEPT ![h] = Idle]
    BY <1>0, <2>1, <2>2, <2>6, HandlerMoves
  <2>7. CASE handler' = [handler EXCEPT ![h] = r]
    BY <2>1, <2>2, <2>4, <2>5, <2>7, HandlerMoves
  <2> QED
    BY <2>3, <2>6, <2>7
<1>7. ASSUME NEW h \in Handlers, InMemoryAccept(h) PROVE OnceInv'
  <2>1. handler[h].msg \in Ids /\ Accepting(h) /\ AddToMessageIndex(handler[h].msg) /\ Accept(h, handler[h].msg)
    BY <1>7, <1>a DEF InMemoryAccept, Accepting
  <2> QED
    BY <2>1, IndexGrows, AcceptOnce
<1>8. ASSUME NEW h \in Handlers, InboundSaved(h) PROVE OnceInv'
  <2>1. Accepting(h) /\ Accept(h, handler[h].msg) /\ UNCHANGED <<index, evicted>> /\ handler[h].msg \in Known
    BY <1>8 DEF InboundSaved, Accepting, OnceInv
  <2> QED
    BY <2>1, AcceptOnce DEF Known
<1>9. ASSUME NEW h \in Handlers, InboundSaveFails(h) \/ StreamSaved(h) \/ StreamSaveFails(h) PROVE OnceInv'
  <2>1. handler' = [handler EXCEPT ![h] = Idle] /\ UNCHANGED <<index, evicted, announced>>
    BY <1>9 DEF InboundSaveFails, StreamSaved, StreamSaveFails, session
  <2> QED
    BY <1>0, <2>1, HandlerMoves DEF Known
<1>10. CASE HydrationFails
  <2>1. /\ handler' = [g \in Handlers |-> IF handler[g].pc = "hydrate" THEN Idle ELSE handler[g]]
        /\ UNCHANGED <<index, evicted, announced>>
    BY <1>10 DEF HydrationFails, past
  <2>2. \A g \in Handlers : handler'[g].pc \in {"lookup", "save"} => handler'[g] = handler[g]
    BY <1>0, <2>1
  <2> QED
    BY <2>1, <2>2 DEF OnceInv, Accepting, Known
<1>11. CASE Restart
  BY <1>11 DEF Restart, OnceInv, Accepting, Idle
<1> QED
  BY <1>1, <1>2, <1>3, <1>4, <1>5, <1>6, <1>7, <1>8, <1>9, <1>10, <1>11, OtherStepsLeaveIndex
     DEF HandlerStep

\* received only grows in Accept, by the handler that holds the reservation.
LEMMA AnnouncedAgainWasEvicted ==
    TypeOK /\ OnceInv /\ [Next]_vars =>
        \A e \in announced : received'[e] > received[e] => e \in evicted
<1> SUFFICES ASSUME TypeOK, OnceInv, [Next]_vars, NEW e \in announced, received'[e] > received[e]
             PROVE  e \in evicted
  OBVIOUS
<1>0. /\ received \in [Ids -> 0 .. MaxSeen] /\ e \in Ids /\ MaxSeen \in Nat
  BY ConstantsAssumption DEF TypeOK, HistoryOK
<1>1. ~UNCHANGED received
  BY <1>0
<1>2. ~\E m \in Own : PipelineDone(m)
  BY <1>1 DEF PipelineDone
<1>3. ~Restart
  <2>1. received' = received \/ received' = [id \in Ids |-> 0] \/ ~Restart
    BY DEF Restart
  <2> QED
    BY <1>0, <1>1, <2>1
<1>4. ~\E h \in Handlers : \/ \E id \in Ids : Deliver(h, id) \/ EmitStreamEnd(h, id)
                           \/ Resume(h) \/ LookupDone(h) \/ LookupFails(h)
                           \/ InboundSaveFails(h) \/ StreamSaved(h) \/ StreamSaveFails(h)
  BY <1>1 DEF Deliver, EmitStreamEnd, Resume, LookupDone, LookupFails, InboundSaveFails,
              StreamSaved, StreamSaveFails
<1>5. ~HydrationFails
  BY <1>1 DEF HydrationFails, past
<1>6. PICK h \in Handlers : InMemoryAccept(h) \/ InboundSaved(h)
  BY <1>1, <1>2, <1>3, <1>4, <1>5, OtherStepsLeaveIndex DEF HandlerStep
<1>7. Accepting(h) /\ Accept(h, handler[h].msg)
  BY <1>6 DEF InMemoryAccept, InboundSaved, Accepting
<1>8. handler[h].msg = e
  BY <1>0, <1>7 DEF Accept
<1> QED
  BY <1>7, <1>8 DEF OnceInv

\* chat-engine.ts 1004-1117 and 1188-1236: in one session no id is announced twice, whatever is
\* deleted, redelivered and delivered concurrently meanwhile, unless the index dropped it.
THEOREM AnnouncedOncePerSession == Spec => OncePerSession
<1>1. Init => OnceInv
  BY DEF Init, OnceInv, Accepting, Idle
<1>2. TypeOK /\ ReservationExclusive /\ OnceInv /\ [Next]_vars => OnceInv'
  BY OnceStep
<1>3. TypeOK /\ OnceInv /\ [Next]_vars =>
          [\A e \in announced : received'[e] > received[e] => e \in evicted]_vars
  BY AnnouncedAgainWasEvicted
<1> QED
  BY <1>1, <1>2, <1>3, TypeCorrect, ReservationsAreExclusive, PTL DEF Spec, OncePerSession

-------------------------------------------------------------------------------
\* In a session a stored message goes away by deletion only, and deletions are remembered.
Kept(e) == /\ e \in deleted => e \in deleted'
           /\ store[e] # None => store'[e] # None \/ e \in deleted'

\* Writing a record loses none.
LEMMA RecordReplacedIsKept ==
    ASSUME TypeOK, NEW e \in Ids, NEW id \in Ids, NEW r \in Record,
           store' = [store EXCEPT ![id] = r], deleted' = deleted
    PROVE  Kept(e)
<1>1. store \in [Ids -> Record \cup {None}] /\ r # None
  BY ConstantsAssumption DEF TypeOK, StoreOK
<1> QED
  BY <1>1 DEF Kept

\* A send loses no record.
LEMMA SendKeepsRecords ==
    ASSUME TypeOK, NEW e \in Ids, NEW m \in Own,
           \/ PipelineDone(m) \/ SaveDone(m) \/ SendAcked(m) \/ MarkSent(m) \/ PutSent(m)
    PROVE  Kept(e)
<1>0. /\ store \in [Ids -> Record \cup {None}] /\ send \in [Own -> SendCalls]
      /\ None \notin Record /\ m \in Ids
  BY ConstantsAssumption DEF TypeOK, StoreOK, CallsOK, Ids
<1>1. /\ [content |-> Original, status |-> "pending"] \in Record
      /\ [content |-> Original, status |-> "sent"] \in Record
  BY ConstantsAssumption DEF Record
<1>2. \A r \in Record : [r EXCEPT !.status = "sent"] \in Record
  BY DEF Record
<1>3. CASE PipelineDone(m) \/ SaveDone(m) \/ SendAcked(m)
  <2>1. \/ UNCHANGED <<store, deleted>>
        \/ deleted' = deleted /\ \E r \in Record : store' = [store EXCEPT ![m] = r]
    BY <1>1, <1>3 DEF PipelineDone, SaveDone, SendAcked
  <2> QED
    BY <1>0, <2>1, RecordReplacedIsKept DEF Kept
<1>4. CASE MarkSent(m)
  <2>1. deleted' = deleted
    BY <1>4 DEF MarkSent
  <2>2. CASE UNCHANGED store
    BY <2>1, <2>2 DEF Kept
  <2>3. CASE store' = [store EXCEPT ![m] = IF @ = None THEN @ ELSE [@ EXCEPT !.status = "sent"]]
    <3>1. CASE store[m] = None
      BY <1>0, <2>1, <2>3, <3>1 DEF Kept
    <3>2. CASE store[m] # None
      <4>1. store[m] \in Record
        BY <1>0, <3>2
      <4>2. [store[m] EXCEPT !.status = "sent"] \in Record
        BY <1>2, <4>1
      <4> DEFINE r == [store[m] EXCEPT !.status = "sent"]
      <4>3. store' = [store EXCEPT ![m] = r]
        BY <2>3, <3>2
      <4> HIDE DEF r
      <4> QED
        BY <1>0, <2>1, <4>2, <4>3, RecordReplacedIsKept DEF r
    <3> QED
      BY <3>1, <3>2
  <2> QED
    BY <1>4, <2>2, <2>3 DEF MarkSent
<1>5. CASE PutSent(m)
  <2> DEFINE r == [send[m].copy EXCEPT !.status = "sent"]
  <2>1. send[m].copy \in Record
    BY <1>0, <1>5 DEF PutSent, SendCalls
  <2>2. r \in Record /\ store' = [store EXCEPT ![m] = r] /\ deleted' = deleted
    BY <1>2, <1>5, <2>1 DEF PutSent
  <2> HIDE DEF r
  <2> QED
    BY <1>0, <2>2, RecordReplacedIsKept
<1> QED
  BY <1>3, <1>4, <1>5

\* An edit or a deletion loses no record without saying so.
LEMMA EditorKeepsRecords ==
    ASSUME TypeOK, NEW e \in Ids, NEW o \in Editors,
           \/ \E id \in Ids : DeleteMessage(o, id) \/ \E c \in Contents : UpdateMessage(o, id, c)
           \/ UpdateMerge(o) \/ UpdatePut(o) \/ DeleteDone(o)
    PROVE  Kept(e)
<1>0. /\ store \in [Ids -> Record \cup {None}] /\ editor \in [Editors -> EditorCalls]
      /\ None \notin Record
  BY ConstantsAssumption DEF TypeOK, StoreOK, CallsOK
<1>1. \A r \in Record, c \in Contents : [r EXCEPT !.content = c] \in Record
  BY DEF Record
<1>2. ASSUME NEW id \in Ids, DeleteMessage(o, id) PROVE Kept(e)
  BY <1>0, <1>2 DEF DeleteMessage, Kept
<1>3. ASSUME NEW id \in Ids, NEW c \in Contents, UpdateMessage(o, id, c) PROVE Kept(e)
  <2> DEFINE r == [store[id] EXCEPT !.content = c]
  <2>1. store[id] \in Record
    BY <1>0, <1>3 DEF UpdateMessage
  <2>2. r \in Record
    BY <1>1, <2>1
  <2>3. deleted' = deleted /\ (UNCHANGED store \/ store' = [store EXCEPT ![id] = r])
    BY <1>3 DEF UpdateMessage
  <2> HIDE DEF r
  <2> QED
    BY <2>2, <2>3, RecordReplacedIsKept DEF Kept
<1>4. CASE UpdateMerge(o) \/ UpdatePut(o)
  <2> DEFINE id == editor[o].msg
             r == [editor[o].copy EXCEPT !.content = editor[o].content]
  <2>1. editor[o].pc \in {"updating", "putting"}
    BY <1>4 DEF UpdateMerge, UpdatePut
  <2>2. id \in Ids /\ editor[o].copy \in Record /\ editor[o].content \in Contents
    BY <1>0, <2>1 DEF EditorCalls, NoEdit
  <2>3. r \in Record /\ deleted' = deleted
    BY <1>1, <1>4, <2>2 DEF UpdateMerge, UpdatePut
  <2>4. \/ UNCHANGED store
        \/ store' = [store EXCEPT ![id] = IF @ = None THEN @ ELSE r]
        \/ store' = [store EXCEPT ![id] = r]
    BY <1>4 DEF UpdateMerge, UpdatePut
  <2> HIDE DEF id, r
  <2>5. CASE store' = [store EXCEPT ![id] = IF @ = None THEN @ ELSE r]
    BY <1>0, <2>2, <2>3, <2>5 DEF Kept
  <2> QED
    BY <2>2, <2>3, <2>4, <2>5, RecordReplacedIsKept DEF Kept
<1>5. CASE DeleteDone(o)
  BY <1>0, <1>5 DEF DeleteDone, Kept
<1> QED
  BY <1>2, <1>3, <1>4, <1>5

\* A delivery loses no record.
LEMMA HandlerKeepsRecords == ASSUME TypeOK, NEW e \in Ids, HandlerStep, ~Restart PROVE Kept(e)
<1>0. handler \in [Handlers -> HandlerCalls]
  BY DEF TypeOK, CallsOK
<1>1. [content |-> Original, status |-> "sent"] \in Record
  BY ConstantsAssumption DEF Record
<1>2. \/ UNCHANGED <<store, deleted>>
      \/ deleted' = deleted
         /\ \E id \in Ids : store' = [store EXCEPT ![id] = [content |-> Original, status |-> "sent"]]
  <2>1. ASSUME NEW h \in Handlers, NEW id \in Ids, EmitStreamEnd(h, id) \/ Deliver(h, id)
        PROVE  <1>2!1 \/ <1>2!2
    BY <2>1 DEF EmitStreamEnd, Deliver
  <2>2. ASSUME NEW h \in Handlers, InMemoryAccept(h) \/ InboundSaved(h) \/ StreamSaved(h)
        PROVE  <1>2!1 \/ <1>2!2
    <3>1. handler[h].msg \in Ids
      BY <1>0, <2>2 DEF HandlerCalls, Idle, InMemoryAccept, InboundSaved, StreamSaved
    <3> QED
      BY <2>2, <3>1 DEF InMemoryAccept, InboundSaved, StreamSaved, Accept
  <2>3. ASSUME NEW h \in Handlers, \/ Resume(h) \/ LookupDone(h) \/ LookupFails(h)
                                   \/ InboundSaveFails(h) \/ StreamSaveFails(h)
        PROVE  <1>2!1 \/ <1>2!2
    BY <2>3 DEF Resume, LookupDone, LookupFails, InboundSaveFails, StreamSaveFails
  <2>4. CASE HydrationFails
    BY <2>4 DEF HydrationFails, past
  <2> QED
    BY <2>1, <2>2, <2>3, <2>4 DEF HandlerStep
<1> QED
  BY <1>1, <1>2, RecordReplacedIsKept DEF Kept

\* Nor does any other step of a session.
LEMMA RecordsAreKept ==
    ASSUME TypeOK, [Next]_vars, ~Restart, NEW e \in Ids
    PROVE  Kept(e)
<1>1. CASE UNCHANGED <<store, deleted>>
  BY <1>1 DEF Kept
<1>2. ASSUME NEW m \in Own, SendMessage(m) \/ PipelineRejects(m) \/ SaveFails(m) \/ WireAccepts(m)
                           \/ SendRejected(m) \/ MarkFails(m)
      PROVE  UNCHANGED <<store, deleted>>
  BY <1>2 DEF SendMessage, PipelineRejects, SaveFails, WireAccepts, SendRejected, MarkFails, past
<1>3. ASSUME NEW o \in Editors, UpdateRead(o) \/ DeleteRead(o) \/ EditFails(o)
      PROVE  UNCHANGED <<store, deleted>>
  BY <1>3 DEF UpdateRead, DeleteRead, EditFails, past
<1>4. HydrationDone \/ UNCHANGED vars => UNCHANGED <<store, deleted>>
  BY DEF HydrationDone, vars, past
<1> QED
  BY <1>1, <1>2, <1>3, <1>4, SendKeepsRecords, EditorKeepsRecords, HandlerKeepsRecords
     DEF Next, HandlerStep

-------------------------------------------------------------------------------
\* Where a peer's indexed message can be: announced, stored, deleted, lost to a failed save,
\* or on its way into the store.
Writing(h, e) == handler[h].pc \in {"save", "stream"} /\ handler[h].msg = e
Accounted(e) == \/ received[e] > 0 \/ store[e] # None \/ e \in deleted \cup dropped
                \/ \E h \in Handlers : Writing(h, e)

\* A handler that was writing e and no longer is has stored it or reported the failure.
LEMMA WritersFinish ==
    ASSUME TypeOK, HandlerStep, ~Restart, NEW e \in Ids, NEW g \in Handlers, Writing(g, e)
    PROVE  Writing(g, e)' \/ store'[e] # None \/ e \in dropped'
<1>0. /\ handler \in [Handlers -> HandlerCalls]
      /\ store \in [Ids -> Record \cup {None}] /\ None \notin Record
      /\ [content |-> Original, status |-> "sent"] \in Record
  BY ConstantsAssumption DEF TypeOK, CallsOK, StoreOK, Record
<1>1. ASSUME NEW h \in Handlers, NEW id \in Ids, Deliver(h, id) \/ EmitStreamEnd(h, id)
      PROVE  handler'[g] = handler[g]
  <2>1. handler[h].pc = "idle" /\ h # g
    BY <1>1 DEF Deliver, EmitStreamEnd, Writing
  <2> QED
    BY <1>0, <1>1, <2>1 DEF Deliver, EmitStreamEnd, Classify
<1>2. ASSUME NEW h \in Handlers, Resume(h) \/ LookupDone(h) \/ LookupFails(h) \/ InMemoryAccept(h)
      PROVE  handler'[g] = handler[g]
  <2>1. handler[h].pc \in {"hydrate", "lookup"} /\ h # g
    BY <1>2 DEF Resume, LookupDone, LookupFails, InMemoryAccept, Writing
  <2> QED
    BY <1>0, <1>2, <2>1 DEF Resume, LookupDone, LookupFails, InMemoryAccept, Accept, Classify
<1>3. ASSUME NEW h \in Handlers, InboundSaved(h) \/ StreamSaved(h)
      PROVE  handler'[g] = handler[g] \/ store'[e] # None
  BY <1>0, <1>3 DEF InboundSaved, StreamSaved, Accept, Writing
<1>4. ASSUME NEW h \in Handlers, InboundSaveFails(h) \/ StreamSaveFails(h)
      PROVE  handler'[g] = handler[g] \/ e \in dropped'
  BY <1>0, <1>4 DEF InboundSaveFails, StreamSaveFails, Writing
<1>5. CASE HydrationFails
  BY <1>0, <1>5 DEF HydrationFails, Writing
<1> QED
  BY <1>1, <1>2, <1>3, <1>4, <1>5 DEF HandlerStep, Writing

\* What was received or dropped stays so.
LEMMA HistoryGrows ==
    ASSUME TypeOK, [Next]_vars, ~Restart, NEW e \in Ids
    PROVE  (received[e] > 0 => received'[e] > 0) /\ dropped \subseteq dropped'
<1>0. received \in [Ids -> 0 .. MaxSeen] /\ MaxSeen \in Nat \ {0}
  BY ConstantsAssumption DEF TypeOK, HistoryOK
<1>1. CASE UNCHANGED <<received, dropped>>
  BY <1>1
<1>2. ASSUME NEW m \in Own,
         \/ SendMessage(m) \/ PipelineRejects(m) \/ PipelineDone(m)
         \/ SaveDone(m) \/ SaveFails(m) \/ WireAccepts(m) \/ SendAcked(m) \/ SendRejected(m)
         \/ MarkSent(m) \/ PutSent(m) \/ MarkFails(m)
      PROVE UNCHANGED <<received, dropped>>
  BY <1>2 DEF SendMessage, PipelineRejects, PipelineDone, SaveDone, SaveFails, WireAccepts,
              SendAcked, SendRejected, MarkSent, PutSent, MarkFails, past
<1>3. ASSUME NEW o \in Editors,
         \/ \E id \in Ids : DeleteMessage(o, id) \/ \E c \in Contents : UpdateMessage(o, id, c)
         \/ UpdateRead(o) \/ UpdateMerge(o) \/ UpdatePut(o)
         \/ DeleteRead(o) \/ DeleteDone(o) \/ EditFails(o)
      PROVE UNCHANGED <<received, dropped>>
  BY <1>3 DEF DeleteMessage, UpdateMessage, UpdateRead, UpdateMerge, UpdatePut, DeleteRead,
              DeleteDone, EditFails, past
<1>4. ASSUME NEW h \in Handlers,
         \/ \E id \in Ids : Deliver(h, id) \/ EmitStreamEnd(h, id)
         \/ Resume(h) \/ LookupDone(h) \/ LookupFails(h) \/ StreamSaved(h)
      PROVE UNCHANGED <<received, dropped>>
  BY <1>4 DEF Deliver, EmitStreamEnd, Resume, LookupDone, LookupFails, StreamSaved
<1>5. ASSUME NEW h \in Handlers, InboundSaveFails(h) \/ StreamSaveFails(h)
      PROVE received' = received /\ dropped \subseteq dropped'
  BY <1>5 DEF InboundSaveFails, StreamSaveFails
<1>6. ASSUME NEW h \in Handlers, InMemoryAccept(h) \/ InboundSaved(h)
      PROVE (received[e] > 0 => received'[e] > 0) /\ dropped' = dropped
  <2>1. /\ received' = [received EXCEPT ![handler[h].msg] = IF @ < MaxSeen THEN @ + 1 ELSE @]
        /\ dropped' = dropped
    BY <1>6 DEF InMemoryAccept, InboundSaved, Accept
  <2> QED
    BY <1>0, <2>1
<1>7. HydrationDone \/ HydrationFails \/ UNCHANGED vars => UNCHANGED <<received, dropped>>
  BY DEF HydrationDone, HydrationFails, vars, past
<1> QED
  BY <1>1, <1>2, <1>3, <1>4, <1>5, <1>6, <1>7 DEF Next

\* An id that has a cause to be in the index keeps one.
LEMMA AccountedStays ==
    ASSUME TypeOK, [Next]_vars, ~Restart, NEW e \in Ids, Accounted(e)
    PROVE  Accounted(e)'
<1>1. Kept(e) /\ (received[e] > 0 => received'[e] > 0) /\ dropped \subseteq dropped'
  BY RecordsAreKept, HistoryGrows
<1>2. CASE received[e] > 0 \/ store[e] # None \/ e \in deleted \cup dropped
  BY <1>1, <1>2 DEF Kept, Accounted
<1>3. ASSUME NEW g \in Handlers, Writing(g, e) PROVE Accounted(e)'
  <2>1. CASE HandlerStep
    BY <1>3, <2>1, WritersFinish DEF Accounted
  <2>2. CASE ~HandlerStep
    BY <1>3, <2>2, OtherStepsLeaveHandlers DEF Accounted, Writing
  <2> QED
    BY <2>1, <2>2
<1> QED
  BY <1>2, <1>3 DEF Accounted

\* The index takes in an own message or an echo of one, or a peer's message that is stored
\* by now or is being stored by the handler that indexed it.
LEMMA IndexedIsAccounted ==
    ASSUME TypeOK, [Next]_vars, ~Restart,
           NEW e \in Range(index') \ Range(index), NonceOf(e) = None
    PROVE  e \in Ids /\ Accounted(e)'
<1>0. /\ handler \in [Handlers -> HandlerCalls]
      /\ store \in [Ids -> Record \cup {None}] /\ None \notin Record
      /\ [content |-> Original, status |-> "sent"] \in Record
      /\ None \notin Ids /\ Own \subseteq Ids
  BY ConstantsAssumption DEF TypeOK, CallsOK, StoreOK, Record, Ids
<1>1. ~\E m \in Own : PipelineDone(m)
  <2>1. ASSUME NEW m \in Own, PipelineDone(m) PROVE FALSE
    <3>1. AddToMessageIndex(m) /\ m \in Ids
      BY <1>0, <2>1 DEF PipelineDone
    <3>2. e = m
      BY <3>1, IndexGrows
    <3> QED
      BY <1>0, <3>2 DEF NonceOf
  <2> QED
    BY <2>1
<1>2. HandlerStep
  BY <1>1, OtherStepsLeaveIndex
<1>3. ASSUME NEW h \in Handlers, NEW x \in Ids, Classify(h, x) PROVE FALSE
  <2>1. IsOwnEchoWithKnownNonce(x) /\ AddToMessageIndex(x)
    BY <1>3 DEF Classify
  <2>2. e = x
    BY <2>1, IndexGrows
  <2> QED
    BY <2>1, <2>2 DEF IsOwnEchoWithKnownNonce
<1>4. ASSUME NEW h \in Handlers, NEW x \in Ids, Deliver(h, x) PROVE FALSE
  <2>1. Classify(h, x) \/ UNCHANGED index
    BY <1>4 DEF Deliver
  <2> QED
    BY <1>3, <2>1
<1>5. ASSUME NEW h \in Handlers, NEW x \in Ids, EmitStreamEnd(h, x) PROVE e \in Ids /\ Accounted(e)'
  <2>1. e = x
    BY <1>5, IndexGrows DEF EmitStreamEnd
  <2>2. \/ store' = [store EXCEPT ![x] = [content |-> Original, status |-> "sent"]]
        \/ handler' = [handler EXCEPT ![h] = [pc |-> "stream", msg |-> x]]
    BY <1>5 DEF EmitStreamEnd
  <2>3. store'[e] # None \/ Writing(h, e)'
    BY <1>0, <2>1, <2>2 DEF Writing
  <2> QED
    BY <2>1, <2>3 DEF Accounted
<1>6. ASSUME NEW h \in Handlers, Resume(h) PROVE FALSE
  <2>1. handler[h].msg \in Ids
    BY <1>0, <1>6 DEF Resume, HandlerCalls, Idle
  <2> QED
    BY <1>3, <1>6, <2>1 DEF Resume
<1>7. ASSUME NEW h \in Handlers, LookupDone(h) \/ LookupFails(h) \/ InMemoryAccept(h)
      PROVE  e \in Ids /\ Accounted(e)'
  <2>1. handler[h].msg \in Ids /\ AddToMessageIndex(handler[h].msg)
    BY <1>0, <1>7 DEF LookupDone, LookupFails, InMemoryAccept, HandlerCalls, Idle
  <2>2. e = handler[h].msg
    BY <2>1, IndexGrows
  <2>3. CASE InMemoryAccept(h)
    BY <1>0, <2>1, <2>2, <2>3 DEF InMemoryAccept, Accept, Accounted
  <2>4. CASE (LookupDone(h) /\ store[e] = None) \/ LookupFails(h)
    <3>1. handler' = [handler EXCEPT ![h].pc = "save"]
      BY <2>2, <2>4 DEF LookupDone, LookupFails
    <3>2. Writing(h, e)'
      BY <1>0, <2>2, <3>1 DEF Writing, HandlerCalls
    <3> QED
      BY <2>1, <2>2, <3>2 DEF Accounted
  <2>5. CASE LookupDone(h) /\ store[e] # None
    BY <2>1, <2>2, <2>5 DEF LookupDone, Accounted
  <2> QED
    BY <1>7, <2>3, <2>4, <2>5
<1>8. ASSUME NEW h \in Handlers, InboundSaved(h) \/ InboundSaveFails(h) \/ StreamSaved(h) \/ StreamSaveFails(h)
      PROVE  UNCHANGED index
  BY <1>8 DEF InboundSaved, InboundSaveFails, StreamSaved, StreamSaveFails, session
<1>9. HydrationFails => UNCHANGED index
  BY DEF HydrationFails
<1> QED
  BY <1>2, <1>4, <1>5, <1>6, <1>7, <1>8, <1>9 DEF HandlerStep

\* chat-engine.ts 994-1002, 1098-1115 and 842-876: whatever is evicted, deleted, redelivered or
\* fails, a peer's message is not in the dedup index without being announced or stored, on its
\* way into the store, deleted, or reported as not saved.
THEOREM IndexSwallowsNothing == Spec => []NoInboundSwallowed
<1>1. Init => NoInboundSwallowed
  BY DEF Init, NoInboundSwallowed, Range
<1>2. ASSUME TypeOK, NoInboundSwallowed, [Next]_vars PROVE NoInboundSwallowed'
  <2>1. CASE Restart
    BY <2>1 DEF Restart, NoInboundSwallowed, Range
  <2>2. ASSUME ~Restart, NEW e \in Range(index'), NonceOf(e) = None PROVE Accounted(e)'
    <3>1. CASE e \in Range(index)
      <4>1. Accounted(e)
        <5>1. \/ received[e] > 0 \/ store[e] # None \/ e \in deleted \cup dropped
              \/ \E h \in Handlers : handler[h].pc \in {"save", "stream"} /\ handler[h].msg = e
          BY <1>2, <2>2, <3>1 DEF NoInboundSwallowed
        <5> QED
          BY <5>1 DEF Accounted, Writing
      <4>2. e \in Ids
        <5>1. index \in Seq(Ids)
          BY <1>2 DEF TypeOK, SessionOK
        <5>2. PICK i \in DOMAIN index : index[i] = e
          BY <3>1 DEF Range
        <5> QED
          BY <5>1, <5>2
      <4> QED
        BY <1>2, <2>2, <4>1, <4>2, AccountedStays
    <3>2. CASE e \notin Range(index)
      BY <1>2, <2>2, <3>2, IndexedIsAccounted
    <3> QED
      BY <3>1, <3>2
  <2> QED
    BY <2>1, <2>2 DEF NoInboundSwallowed, Accounted, Writing, NonceOf
<1> QED
  BY <1>1, <1>2, TypeCorrect, PTL DEF Spec

-------------------------------------------------------------------------------
\* An id that was announced is in the store, unless it was deleted; a handler saves only an
\* id its lookup missed; and without storage what was announced was announced in this session.
AnnouncedIsStored == \A e \in Ids : received[e] > 0 => store[e] # None \/ e \in deleted
SavedIsNew == \A h \in Handlers :
    handler[h].pc = "save" => \/ received[handler[h].msg] = 0
                              \/ handler[h].msg \in deleted \cup unchecked
SessionIsAll == Storage = "none" => \A e \in Ids : received[e] > 0 => e \in announced

ReceivedInv == AnnouncedIsStored /\ SavedIsNew /\ SessionIsAll /\ ReceivedAtMostOnce

\* received changes in Accept only, which stores and announces the id.
LEMMA ReceivedByAccept ==
    ASSUME TypeOK, [Next]_vars, ~Restart, NEW e \in Ids, received'[e] # received[e]
    PROVE  \E h \in Handlers :
             /\ Accepting(h) /\ handler[h].msg = e /\ Accept(h, e) /\ store'[e] # None
             /\ InMemoryAccept(h) \/ InboundSaved(h)
             /\ received'[e] <= received[e] + 1
<1>0. /\ received \in [Ids -> 0 .. MaxSeen] /\ MaxSeen \in Nat
      /\ store \in [Ids -> Record \cup {None}] /\ None \notin Record
      /\ [content |-> Original, status |-> "sent"] \in Record
  BY ConstantsAssumption DEF TypeOK, StoreOK, HistoryOK, Record
<1>1. ~\E m \in Own : PipelineDone(m)
  BY DEF PipelineDone
<1>2. ~\E h \in Handlers : \/ \E id \in Ids : Deliver(h, id) \/ EmitStreamEnd(h, id)
                           \/ Resume(h) \/ LookupDone(h) \/ LookupFails(h)
                           \/ InboundSaveFails(h) \/ StreamSaved(h) \/ StreamSaveFails(h)
  BY DEF Deliver, EmitStreamEnd, Resume, LookupDone, LookupFails, InboundSaveFails,
         StreamSaved, StreamSaveFails
<1>3. ~HydrationFails
  BY DEF HydrationFails, past
<1>4. PICK h \in Handlers : InMemoryAccept(h) \/ InboundSaved(h)
  BY <1>1, <1>2, <1>3, OtherStepsLeaveIndex DEF HandlerStep
<1>5. Accepting(h) /\ Accept(h, handler[h].msg)
  BY <1>4 DEF InMemoryAccept, InboundSaved, Accepting
<1>6. handler[h].msg = e
  BY <1>0, <1>5 DEF Accept
<1>7. store'[e] # None /\ received'[e] <= received[e] + 1
  BY <1>0, <1>5, <1>6 DEF Accept
<1> QED
  BY <1>4, <1>5, <1>6, <1>7

\* What only grows within a session.
LEMMA SessionGrows ==
    ASSUME [Next]_vars, ~Restart
    PROVE  announced \subseteq announced' /\ unchecked \subseteq unchecked' /\ evicted \subseteq evicted'
<1> DEFINE Grows == announced \subseteq announced' /\ unchecked \subseteq unchecked' /\ evicted \subseteq evicted'
<1>1. ASSUME NEW m \in Own,
         \/ SendMessage(m) \/ PipelineRejects(m) \/ PipelineDone(m)
         \/ SaveDone(m) \/ SaveFails(m) \/ WireAccepts(m) \/ SendAcked(m) \/ SendRejected(m)
         \/ MarkSent(m) \/ PutSent(m) \/ MarkFails(m)
      PROVE Grows
  BY <1>1 DEF SendMessage, PipelineRejects, PipelineDone, SaveDone, SaveFails, WireAccepts,
              SendAcked, SendRejected, MarkSent, PutSent, MarkFails, past, AddToMessageIndex
<1>2. ASSUME NEW o \in Editors,
         \/ \E id \in Ids : DeleteMessage(o, id) \/ \E c \in Contents : UpdateMessage(o, id, c)
         \/ UpdateRead(o) \/ UpdateMerge(o) \/ UpdatePut(o)
         \/ DeleteRead(o) \/ DeleteDone(o) \/ EditFails(o)
      PROVE Grows
  BY <1>2 DEF DeleteMessage, UpdateMessage, UpdateRead, UpdateMerge, UpdatePut, DeleteRead,
              DeleteDone, EditFails, past
<1>3. ASSUME NEW h \in Handlers, NEW e \in Ids, Deliver(h, e) \/ EmitStreamEnd(h, e) PROVE Grows
  BY <1>3 DEF Deliver, EmitStreamEnd, Classify, AddToMessageIndex
<1>4. ASSUME NEW h \in Handlers, Resume(h) \/ LookupDone(h) \/ LookupFails(h) PROVE Grows
  BY <1>4 DEF Resume, LookupDone, LookupFails, Classify, AddToMessageIndex
<1>5. ASSUME NEW h \in Handlers, InMemoryAccept(h) \/ InboundSaved(h) PROVE Grows
  BY <1>5 DEF InMemoryAccept, InboundSaved, Accept, AddToMessageIndex
<1>6. ASSUME NEW h \in Handlers, InboundSaveFails(h) \/ StreamSaved(h) \/ StreamSaveFails(h) PROVE Grows
  BY <1>6 DEF InboundSaveFails, StreamSaved, StreamSaveFails
<1>7. HydrationDone \/ HydrationFails \/ UNCHANGED vars => Grows
  BY DEF HydrationDone, HydrationFails, vars, past
<1> QED
  BY <1>1, <1>2, <1>3, <1>4, <1>5, <1>6, <1>7 DEF Next

\* A handler reaches saveMessage through a lookup that missed or failed.
LEMMA SavesFollowLookups ==
    ASSUME TypeOK, [Next]_vars, ~Restart, NEW g \in Handlers, handler'[g].pc = "save"
    PROVE  \/ handler'[g] = handler[g]
           \/ /\ handler'[g].msg = handler[g].msg /\ handler[g].msg \in Ids
              /\ UNCHANGED <<received, deleted>>
              /\ store[handler[g].msg] = None \/ handler[g].msg \in unchecked'
<1>0. handler \in [Handlers -> HandlerCalls] /\ Idle.pc = "idle"
  BY DEF TypeOK, CallsOK, Idle
<1>1. CASE ~HandlerStep
  BY <1>1, OtherStepsLeaveHandlers
<1>2. ASSUME NEW h \in Handlers, NEW e \in Ids, Deliver(h, e) \/ EmitStreamEnd(h, e)
      PROVE  handler'[g] = handler[g]
  BY <1>0, <1>2 DEF Deliver, EmitStreamEnd, Classify
<1>3. ASSUME NEW h \in Handlers, \/ Resume(h) \/ InMemoryAccept(h) \/ InboundSaved(h)
                                 \/ InboundSaveFails(h) \/ StreamSaved(h) \/ StreamSaveFails(h)
      PROVE  handler'[g] = handler[g]
  BY <1>0, <1>3 DEF Resume, Classify, InMemoryAccept, InboundSaved, Accept, InboundSaveFails,
                    StreamSaved, StreamSaveFails
<1>4. HydrationFails => handler'[g] = handler[g]
  BY <1>0 DEF HydrationFails
<1>5. ASSUME NEW h \in Handlers, LookupDone(h) \/ LookupFails(h), handler'[g] # handler[g]
      PROVE  /\ handler'[g].msg = handler[g].msg /\ handler[g].msg \in Ids
             /\ UNCHANGED <<received, deleted>>
             /\ store[handler[g].msg] = None \/ handler[g].msg \in unchecked'
  <2>1. h = g
    BY <1>0, <1>5 DEF LookupDone, LookupFails
  <2>2. handler[g].msg \in Ids
    BY <1>0, <1>5, <2>1 DEF LookupDone, LookupFails, HandlerCalls, Idle
  <2>3. handler'[g].msg = handler[g].msg /\ UNCHANGED <<received, deleted>>
    <3>1. UNCHANGED <<received, deleted>>
      BY <1>5 DEF LookupDone, LookupFails
    <3>2. handler' = [handler EXCEPT ![g] = Idle] \/ handler' = [handler EXCEPT ![g].pc = "save"]
      BY <1>5, <2>1 DEF LookupDone, LookupFails
    <3>3. handler' # [handler EXCEPT ![g] = Idle]
      BY <1>0
    <3>4. handler[g] \in [pc : HandlerStates, msg : Ids]
      BY <1>0, <1>5, <2>1 DEF LookupDone, LookupFails, HandlerCalls
    <3> QED
      BY <1>0, <3>1, <3>2, <3>3, <3>4
  <2>4. CASE LookupFails(g)
    BY <2>2, <2>3, <2>4 DEF LookupFails
  <2>5. CASE LookupDone(g)
    <3>1. store[handler[g].msg] # None => handler' = [handler EXCEPT ![g] = Idle]
      BY <2>5 DEF LookupDone
    <3>2. store[handler[g].msg] # None => handler'[g] = Idle
      BY <1>0, <3>1
    <3> QED
      BY <1>0, <2>2, <2>3, <3>2
  <2> QED
    BY <1>5, <2>1, <2>4, <2>5
<1> QED
  BY <1>1, <1>2, <1>3, <1>4, <1>5 DEF HandlerStep

\* Every step keeps ReceivedInv.
LEMMA ReceivedStep ==
    TypeOK /\ TypeOK' /\ ReservationExclusive /\ OnceInv /\ ReceivedInv /\ [Next]_vars => ReceivedInv'
<1> SUFFICES ASSUME TypeOK, TypeOK', ReservationExclusive, OnceInv, ReceivedInv, [Next]_vars
             PROVE  ReceivedInv'
  OBVIOUS
<1>0. /\ handler \in [Handlers -> HandlerCalls] /\ handler' \in [Handlers -> HandlerCalls]
      /\ received \in [Ids -> 0 .. MaxSeen] /\ MaxSeen \in Nat
  BY ConstantsAssumption DEF TypeOK, CallsOK, HistoryOK
<1>a. /\ \A e \in Ids : received[e] > 0 => store[e] # None \/ e \in deleted
      /\ \A h \in Handlers : handler[h].pc = "save" =>
             received[handler[h].msg] = 0 \/ handler[h].msg \in deleted \cup unchecked
      /\ Storage = "none" => \A e \in Ids : received[e] > 0 => e \in announced
      /\ \A e \in Ids : received[e] <= 1 \/ e \in deleted \/ e \in unchecked
                                         \/ (Storage = "none" /\ e \in evicted)
  BY DEF ReceivedInv, AnnouncedIsStored, SavedIsNew, SessionIsAll, ReceivedAtMostOnce
<1>1. CASE Restart
  <2>1. \A h \in Handlers : handler'[h].pc = "idle"
    BY <1>1 DEF Restart, Idle
  <2>2. CASE Storage = "none"
    BY <1>1, <2>1, <2>2 DEF Restart, ReceivedInv, AnnouncedIsStored, SavedIsNew, SessionIsAll,
                            ReceivedAtMostOnce
  <2>3. CASE Storage # "none"
    BY <1>1, <1>a, <2>1, <2>3 DEF Restart, ReceivedInv, AnnouncedIsStored, SavedIsNew,
                                  SessionIsAll, ReceivedAtMostOnce
  <2> QED
    BY <2>2, <2>3
<1>2. CASE ~Restart
  <2>1. \A e \in Ids : Kept(e)
    BY <1>2, RecordsAreKept
  <2>2. announced \subseteq announced' /\ unchecked \subseteq unchecked' /\ evicted \subseteq evicted'
    BY <1>2, SessionGrows
  <2>3. \A e \in Ids : received'[e] # received[e] =>
          \E h \in Handlers :
             /\ Accepting(h) /\ handler[h].msg = e /\ Accept(h, e) /\ store'[e] # None
             /\ InMemoryAccept(h) \/ InboundSaved(h)
             /\ received'[e] <= received[e] + 1
    BY <1>2, ReceivedByAccept
  <2>4. AnnouncedIsStored'
    BY <1>a, <2>1, <2>3 DEF AnnouncedIsStored, Kept
  <2>5. SessionIsAll'
    BY <1>a, <2>2, <2>3 DEF SessionIsAll, Accept
  <2>6. SavedIsNew'
    <3> SUFFICES ASSUME NEW g \in Handlers, handler'[g].pc = "save"
                 PROVE  \/ received'[handler'[g].msg] = 0
                        \/ handler'[g].msg \in deleted' \cup unchecked'
      BY DEF SavedIsNew
    <3>1. handler'[g].msg \in Ids
      BY <1>0 DEF HandlerCalls, Idle
    <3>2. CASE handler'[g] = handler[g]
      <4>1. received[handler[g].msg] = 0 \/ handler[g].msg \in deleted' \cup unchecked'
        BY <1>a, <2>1, <2>2, <3>1, <3>2 DEF Kept
      <4>2. received'[handler[g].msg] = received[handler[g].msg]
        <5> SUFFICES ASSUME received'[handler[g].msg] # received[handler[g].msg] PROVE FALSE
          OBVIOUS
        <5>1. PICK h \in Handlers : Accepting(h) /\ handler[h].msg = handler[g].msg
                                    /\ Accept(h, handler[g].msg)
          BY <2>3, <3>1, <3>2
        <5>2. h = g
          BY <3>2, <5>1 DEF ReservationExclusive, Accepting
        <5> QED
          BY <1>0, <5>1, <5>2 DEF Accept, Idle
      <4> QED
        BY <3>2, <4>1, <4>2
    <3>3. CASE /\ handler'[g].msg = handler[g].msg /\ handler[g].msg \in Ids
               /\ UNCHANGED <<received, deleted>>
               /\ store[handler[g].msg] = None \/ handler[g].msg \in unchecked'
      BY <1>0, <1>a, <3>3
    <3> QED
      BY <1>2, <3>2, <3>3, SavesFollowLookups
  <2>7. ReceivedAtMostOnce'
    <3> SUFFICES ASSUME NEW e \in Ids
                 PROVE  \/ received'[e] <= 1 \/ e \in deleted' \/ e \in unchecked'
                        \/ (Storage = "none" /\ e \in evicted')
      BY DEF ReceivedAtMostOnce
    <3>1. e \in deleted => e \in deleted'
      BY <2>1 DEF Kept
    <3>2. CASE received'[e] = received[e]
      BY <1>a, <2>2, <3>1, <3>2
    <3>3. CASE received'[e] # received[e]
      <4>1. PICK h \in Handlers :
               /\ Accepting(h) /\ handler[h].msg = e
               /\ InMemoryAccept(h) \/ InboundSaved(h)
               /\ received'[e] <= received[e] + 1
        BY <2>3, <3>3
      <4>2. CASE InMemoryAccept(h)
        <5>1. Storage = "none"
          BY <4>2 DEF InMemoryAccept
        <5>2. CASE received[e] > 0
          BY <1>a, <2>2, <4>1, <5>1, <5>2 DEF OnceInv
        <5>3. CASE received[e] = 0
          BY <4>1, <5>3
        <5> QED
          BY <1>0, <5>2, <5>3
      <4>3. CASE InboundSaved(h)
        <5>1. received[e] = 0 \/ e \in deleted \cup unchecked
          BY <1>a, <4>1, <4>3 DEF InboundSaved
        <5> QED
          BY <2>2, <3>1, <4>1, <5>1
      <4> QED
        BY <4>1, <4>2, <4>3
    <3> QED
      BY <3>2, <3>3
  <2> QED
    BY <2>4, <2>5, <2>6, <2>7 DEF ReceivedInv
<1> QED
  BY <1>1, <1>2

\* chat-engine.ts 1038-1117: over redeliveries, concurrent deliveries and page reloads
\* message:received is emitted once per id, with the exceptions the property names.
THEOREM MessagesAreReceivedOnce == Spec => []ReceivedAtMostOnce
<1>1. Init => OnceInv /\ ReceivedInv
  BY ConstantsAssumption DEF Init, OnceInv, Accepting, Idle, ReceivedInv, AnnouncedIsStored, SavedIsNew,
     SessionIsAll, ReceivedAtMostOnce
<1>2. TypeOK /\ TypeOK' /\ ReservationExclusive /\ OnceInv /\ ReceivedInv /\ [Next]_vars
          => OnceInv' /\ ReceivedInv'
  BY OnceStep, ReceivedStep
<1>3. ReceivedInv => ReceivedAtMostOnce
  BY DEF ReceivedInv
<1> QED
  BY <1>1, <1>2, <1>3, TypeCorrect, ReservationsAreExclusive, PTL DEF Spec

-------------------------------------------------------------------------------
\* Where an own message stands.
Unsaved(m)  == send[m].pc \in {"idle", "pipeline", "saving"}
Ended(m)    == send[m].pc \in {"done", "failed", "lost"}

\* What has not reached the store has not reached the server, so no handler holds it; calls
\* in progress edit ended messages only; a message that has not ended still has its first
\* body; and the copies that are to be put back agree with what was told of the message.
UnsavedIsUnknown == \A m \in Own : Unsaved(m) => store[m] = None /\ m \notin onWire
HandledIsOnWire  == \A h \in Handlers : handler[h].msg \in Own => handler[h].msg \in onWire
EditedHasEnded   == \A o \in Editors : editor[o].msg \in Own => Ended(editor[o].msg)
FirstBody == \A m \in Own : ~Ended(m) =>
    /\ shown[m] = Original
    /\ send[m].pc = "putting" => send[m].copy.content = Original
ToldIsStored == \A id \in Ids : store[id] # None => store[id].content = shown[id]
SentIsStored ==
    /\ \A m \in Own : send[m].pc = "done" /\ store[m] # None => store[m].status = "sent"
    /\ \A o \in Editors : editor[o].pc \in {"updating", "putting"} /\ editor[o].msg \in Own =>
         (send[editor[o].msg].pc = "done" => editor[o].copy.status = "sent")

KeepInv == /\ UnsavedIsUnknown /\ HandledIsOnWire /\ EditedHasEnded
           /\ FirstBody /\ ToldIsStored /\ SentIsStored

\* A send stores what its events say.
LEMMA SendKeepsTheTold ==
    ASSUME TypeOK, KeepInv, NEW m \in Own,
         \/ SendMessage(m) \/ PipelineRejects(m) \/ PipelineDone(m)
         \/ SaveDone(m) \/ SaveFails(m) \/ WireAccepts(m) \/ SendAcked(m) \/ SendRejected(m)
         \/ MarkSent(m) \/ PutSent(m) \/ MarkFails(m)
    PROVE  KeepInv'
<1>0. /\ send \in [Own -> SendCalls] /\ handler \in [Handlers -> HandlerCalls]
      /\ editor \in [Editors -> EditorCalls] /\ store \in [Ids -> Record \cup {None}]
      /\ shown \in [Ids -> Contents] /\ None \notin Record /\ None \notin Ids /\ Own \subseteq Ids
      /\ [content |-> Original, status |-> "pending"] \in Record
      /\ [content |-> Original, status |-> "sent"] \in Record
  BY ConstantsAssumption DEF TypeOK, CallsOK, StoreOK, HistoryOK, Ids, Record
<1> USE <1>0 DEF KeepInv, UnsavedIsUnknown, HandledIsOnWire, EditedHasEnded, FirstBody,
                 ToldIsStored, SentIsStored, Unsaved, Ended
<1>1. CASE SendMessage(m)
  BY <1>1 DEF SendMessage, past
<1>2. CASE PipelineRejects(m) \/ SaveFails(m) \/ SendRejected(m)
  <2>1. /\ send' = [send EXCEPT ![m].pc = "failed"]
        /\ UNCHANGED <<handler, editor, store, onWire, shown>>
    BY <1>2 DEF PipelineRejects, SaveFails, SendRejected, past
  <2> QED
    BY <2>1
<1>3. CASE PipelineDone(m)
  <2>1. UNCHANGED <<handler, editor, onWire, shown>> /\ send[m].pc = "pipeline"
    BY <1>3 DEF PipelineDone
  <2>2. CASE Storage = "none"
    <3>1. /\ store' = [store EXCEPT ![m] = [content |-> Original, status |-> "pending"]]
          /\ send' = [send EXCEPT ![m].pc = "sending"]
      BY <1>3, <2>2 DEF PipelineDone
    <3> QED
      BY <2>1, <3>1
  <2>3. CASE Storage # "none"
    <3>1. UNCHANGED store /\ send' = [send EXCEPT ![m].pc = "saving"]
      BY <1>3, <2>3 DEF PipelineDone
    <3> QED
      BY <2>1, <3>1
  <2> QED
    BY <2>2, <2>3
<1>4. CASE SaveDone(m)
  BY <1>4 DEF SaveDone
<1>5. CASE WireAccepts(m)
  BY <1>5 DEF WireAccepts, calls, past
<1>6. CASE SendAcked(m)
  <2>1. UNCHANGED <<handler, editor, onWire>> /\ send[m].pc = "sending"
    BY <1>6 DEF SendAcked
  <2>2. CASE Storage = "none"
    <3>1. /\ store' = [store EXCEPT ![m] = [content |-> Original, status |-> "sent"]]
          /\ send' = [send EXCEPT ![m].pc = "done"]
          /\ shown' = [shown EXCEPT ![m] = Original]
      BY <1>6, <2>2 DEF SendAcked
    <3> QED
      BY <2>1, <3>1
  <2>3. CASE Storage # "none"
    <3>1. UNCHANGED <<store, shown>> /\ send' = [send EXCEPT ![m].pc = "marking"]
      BY <1>6, <2>3 DEF SendAcked
    <3> QED
      BY <2>1, <3>1
  <2> QED
    BY <2>2, <2>3
<1>7. CASE MarkSent(m)
  <2>1. UNCHANGED <<handler, editor, onWire>> /\ send[m].pc = "marking"
    BY <1>7 DEF MarkSent
  <2>2. CASE Storage = "indexeddb" /\ store[m] # None
    <3>1. UNCHANGED <<store, shown>> /\ send' = [send EXCEPT ![m] = [pc |-> "putting", copy |-> store[m]]]
      BY <1>7, <2>2 DEF MarkSent
    <3> QED
      BY <2>1, <2>2, <3>1
  <2>3. CASE ~(Storage = "indexeddb" /\ store[m] # None)
    <3>1. /\ store' = [store EXCEPT ![m] = IF @ = None THEN @ ELSE [@ EXCEPT !.status = "sent"]]
          /\ send' = [send EXCEPT ![m].pc = "done"]
          /\ shown' = [shown EXCEPT ![m] = Original]
      BY <1>7, <2>3 DEF MarkSent
    <3> QED
      BY <2>1, <3>1
  <2> QED
    BY <2>2, <2>3
<1>8. CASE PutSent(m)
  BY <1>8 DEF PutSent
<1>9. CASE MarkFails(m)
  BY <1>9 DEF MarkFails, past
<1> QED
  BY <1>1, <1>2, <1>3, <1>4, <1>5, <1>6, <1>7, <1>8, <1>9

\* So does an edit of a message whose send is over.
LEMMA EditorKeepsTheTold ==
    ASSUME TypeOK, KeepInv, ~EditPending, NEW o \in Editors,
         \/ \E id \in Ids : DeleteMessage(o, id) \/ \E c \in Contents : UpdateMessage(o, id, c)
         \/ UpdateRead(o) \/ UpdateMerge(o) \/ UpdatePut(o)
         \/ DeleteRead(o) \/ DeleteDone(o) \/ EditFails(o)
    PROVE  KeepInv'
<1>0. /\ send \in [Own -> SendCalls] /\ handler \in [Handlers -> HandlerCalls]
      /\ editor \in [Editors -> EditorCalls] /\ store \in [Ids -> Record \cup {None}]
      /\ shown \in [Ids -> Contents] /\ None \notin Record /\ None \notin Ids /\ Own \subseteq Ids
  BY ConstantsAssumption DEF TypeOK, CallsOK, StoreOK, HistoryOK, Ids
<1> USE <1>0 DEF KeepInv, UnsavedIsUnknown, HandledIsOnWire, EditedHasEnded, FirstBody,
                 ToldIsStored, SentIsStored, Unsaved, Ended, NoEdit
<1>1. ASSUME NEW id \in Ids, Settled(id), store[id] # None, id \in Own PROVE Ended(id)
  BY <1>1 DEF Settled
<1>2. ASSUME NEW id \in Ids, DeleteMessage(o, id) PROVE KeepInv'
  <2>1. UNCHANGED <<send, handler, onWire, shown>> /\ (id \in Own => Ended(id))
    BY <1>1, <1>2 DEF DeleteMessage
  <2>2. CASE Storage = "none"
    <3>1. store' = [store EXCEPT ![id] = None] /\ UNCHANGED editor
      BY <1>2, <2>2 DEF DeleteMessage
    <3> QED
      BY <2>1, <3>1
  <2>3. CASE Storage # "none"
    <3>1. UNCHANGED store /\ editor' = [editor EXCEPT ![o] = [NoEdit EXCEPT !.pc = "finding", !.msg = id]]
      BY <1>2, <2>3 DEF DeleteMessage
    <3> QED
      BY <2>1, <3>1
  <2> QED
    BY <2>2, <2>3
<1>3. ASSUME NEW id \in Ids, NEW c \in Contents, UpdateMessage(o, id, c) PROVE KeepInv'
  <2>1. UNCHANGED <<send, handler, onWire>> /\ (id \in Own => Ended(id)) /\ store[id] \in Record
    BY <1>1, <1>3 DEF UpdateMessage
  <2>2. CASE Storage = "none"
    <3>1. /\ store' = [store EXCEPT ![id].content = c] /\ UNCHANGED editor
          /\ shown' = [shown EXCEPT ![id] = c]
      BY <1>3, <2>2 DEF UpdateMessage
    <3> QED
      BY <2>1, <3>1 DEF Record
  <2>3. CASE Storage # "none"
    <3>1. /\ editor' = [editor EXCEPT ![o] = [pc |-> "reading", msg |-> id, content |-> c, copy |-> None]]
          /\ UNCHANGED <<store, shown>>
      BY <1>3, <2>3 DEF UpdateMessage
    <3> QED
      BY <2>1, <3>1
  <2> QED
    BY <2>2, <2>3
<1>4. CASE UpdateRead(o)
  <2> DEFINE id == editor[o].msg
  <2>1. UNCHANGED <<send, handler, onWire, store, shown>> /\ id \in Ids /\ editor[o].pc = "reading"
    BY <1>4 DEF UpdateRead, EditorCalls, past
  <2>2. CASE store[id] = None
    <3>1. editor' = [editor EXCEPT ![o] = NoEdit]
      BY <1>4, <2>2 DEF UpdateRead
    <3> QED
      BY <2>1, <3>1
  <2>3. CASE store[id] # None
    <3>1. editor' = [editor EXCEPT ![o] = [@ EXCEPT !.pc = "updating", !.copy = store[id]]]
      BY <1>4, <2>3 DEF UpdateRead
    <3> QED
      BY <2>1, <2>3, <3>1 DEF EditorCalls
  <2> QED
    BY <2>2, <2>3
<1>5. CASE UpdateMerge(o) \/ UpdatePut(o)
  <2> DEFINE id == editor[o].msg
             r == [editor[o].copy EXCEPT !.content = editor[o].content]
  <2>1. /\ UNCHANGED <<send, handler, onWire>> /\ editor[o].pc \in {"updating", "putting"}
        /\ id \in Ids /\ editor[o].copy \in Record
    BY <1>5 DEF UpdateMerge, UpdatePut, EditorCalls
  <2>2. CASE UNCHANGED <<store, shown>> /\ editor' = [editor EXCEPT ![o].pc = "putting"]
    BY <2>1, <2>2 DEF EditorCalls
  <2>3. CASE /\ store' = [store EXCEPT ![id] = IF @ = None THEN @ ELSE r] \/ store' = [store EXCEPT ![id] = r]
             /\ shown' = [shown EXCEPT ![id] = editor[o].content]
             /\ editor' = [editor EXCEPT ![o] = NoEdit]
    <3>1. r.content = editor[o].content /\ r.status = editor[o].copy.status
      BY <2>1 DEF Record
    <3>2. store'[id] = None \/ store'[id] = r
      BY <2>1, <2>3
    <3>3. \A x \in Ids : x # id => store'[x] = store[x] /\ shown'[x] = shown[x]
      BY <2>1, <2>3
    <3>4. shown'[id] = editor[o].content
      BY <2>1, <2>3
    <3>5. \A p \in Editors : editor'[p] = editor[p] \/ editor'[p] = NoEdit
      BY <2>3
    <3>6. id \in Own => Ended(id)
      OBVIOUS
    <3> HIDE DEF r, id
    <3> QED
      BY <2>1, <3>1, <3>2, <3>3, <3>4, <3>5, <3>6 DEF id
  <2> QED
    BY <1>5, <2>2, <2>3 DEF UpdateMerge, UpdatePut
<1>6. CASE DeleteRead(o)
  BY <1>6 DEF DeleteRead, past
<1>7. CASE DeleteDone(o)
  BY <1>7 DEF DeleteDone
<1>8. CASE EditFails(o)
  BY <1>8 DEF EditFails, past
<1> QED
  BY <1>2, <1>3, <1>4, <1>5, <1>6, <1>7, <1>8

\* So does a delivery.
LEMMA HandlerKeepsTheTold ==
    ASSUME TypeOK, KeepInv, HandlerStep
    PROVE  KeepInv'
<1>0. /\ send \in [Own -> SendCalls] /\ handler \in [Handlers -> HandlerCalls]
      /\ editor \in [Editors -> EditorCalls] /\ store \in [Ids -> Record \cup {None}]
      /\ shown \in [Ids -> Contents] /\ None \notin Record /\ None \notin Ids /\ Own \subseteq Ids
      /\ [content |-> Original, status |-> "sent"] \in Record
  BY ConstantsAssumption DEF TypeOK, CallsOK, StoreOK, HistoryOK, Ids, Record
<1> DEFINE Takes(e) ==
      /\ store' = [store EXCEPT ![e] = [content |-> Original, status |-> "sent"]]
      /\ shown' = [shown EXCEPT ![e] = Original]
<1>1. ASSUME NEW h \in Handlers, NEW e \in Ids, e \in Own => e \in onWire, UNCHANGED <<send, editor, onWire>>,
             handler' \in [Handlers -> HandlerCalls],
             \A g \in Handlers : handler'[g] = handler[g] \/ handler'[g].msg \in {e, None},
             Takes(e) \/ UNCHANGED <<store, shown>>
      PROVE  KeepInv'
  BY <1>0, <1>1 DEF KeepInv, UnsavedIsUnknown, HandledIsOnWire, EditedHasEnded, FirstBody,
                 ToldIsStored, SentIsStored, Unsaved, Ended
<1>2. ASSUME NEW h \in Handlers, handler[h].pc # "idle"
      PROVE  handler[h].msg \in Ids /\ (handler[h].msg \in Own => handler[h].msg \in onWire)
  BY <1>0, <1>2 DEF HandlerCalls, Idle, KeepInv, HandledIsOnWire
<1>3. Idle \in HandlerCalls /\ Idle.msg = None
  BY DEF HandlerCalls, Idle
<1>4. ASSUME NEW h \in Handlers, NEW e \in Ids, NEW r \in HandlerCalls, r.msg \in {e, None},
             handler' = [handler EXCEPT ![h] = r]
      PROVE  /\ handler' \in [Handlers -> HandlerCalls]
             /\ \A g \in Handlers : handler'[g] = handler[g] \/ handler'[g].msg \in {e, None}
  BY <1>0, <1>4
<1>5. \A e \in Ids, pc \in HandlerStates : [pc |-> pc, msg |-> e] \in HandlerCalls
  BY DEF HandlerCalls
<1>6. ASSUME NEW h \in Handlers, NEW e \in Ids, Deliver(h, e) PROVE KeepInv'
  <2>1. /\ UNCHANGED <<send, editor, onWire, store, shown>> /\ (e \in Own => e \in onWire)
    BY <1>0, <1>6 DEF Deliver, Deliverable, NonceOf
  <2>2. \E r \in HandlerCalls : r.msg \in {e, None} /\ handler' = [handler EXCEPT ![h] = r]
    BY <1>3, <1>5, <1>6 DEF Deliver, Classify, HandlerStates
  <2> QED
    BY <1>1, <1>4, <2>1, <2>2
<1>7. ASSUME NEW h \in Handlers, NEW e \in Ids, EmitStreamEnd(h, e) PROVE KeepInv'
  <2>1. UNCHANGED <<send, editor, onWire>> /\ e \notin Own
    BY <1>0, <1>7 DEF EmitStreamEnd, NonceOf
  <2>2. CASE Takes(e) /\ UNCHANGED handler
    BY <1>0, <1>1, <2>1, <2>2
  <2>3. CASE UNCHANGED <<store, shown>> /\ handler' = [handler EXCEPT ![h] = [pc |-> "stream", msg |-> e]]
    <3>1. \E r \in HandlerCalls : r.msg \in {e, None} /\ handler' = [handler EXCEPT ![h] = r]
      BY <1>5, <2>3 DEF HandlerStates
    <3> QED
      BY <1>1, <1>4, <2>1, <2>3, <3>1
  <2> QED
    BY <1>7, <2>2, <2>3 DEF EmitStreamEnd
<1>8. ASSUME NEW h \in Handlers, Resume(h) PROVE KeepInv'
  <2> DEFINE e == handler[h].msg
  <2>1. UNCHANGED <<send, editor, onWire, store, shown>> /\ e \in Ids /\ (e \in Own => e \in onWire)
    BY <1>2, <1>8 DEF Resume
  <2>2. \E r \in HandlerCalls : r.msg \in {e, None} /\ handler' = [handler EXCEPT ![h] = r]
    BY <1>3, <1>5, <1>8, <2>1 DEF Resume, Classify, HandlerStates
  <2> HIDE DEF e
  <2> QED
    BY <1>1, <1>4, <2>1, <2>2
<1>9. ASSUME NEW h \in Handlers, LookupDone(h) \/ LookupFails(h) PROVE KeepInv'
  <2> DEFINE e == handler[h].msg
  <2>1. UNCHANGED <<send, editor, onWire, store, shown>> /\ e \in Ids /\ (e \in Own => e \in onWire)
    BY <1>2, <1>9 DEF LookupDone, LookupFails
  <2>2. [handler[h] EXCEPT !.pc = "save"] \in HandlerCalls /\ [handler[h] EXCEPT !.pc = "save"].msg = e
    BY <1>0, <1>9 DEF LookupDone, LookupFails, HandlerCalls, HandlerStates, Idle
  <2>3. \/ handler' = [handler EXCEPT ![h] = Idle]
        \/ handler' = [handler EXCEPT ![h] = [handler[h] EXCEPT !.pc = "save"]]
    BY <1>0, <1>9 DEF LookupDone, LookupFails
  <2>4. \E r \in HandlerCalls : r.msg \in {e, None} /\ handler' = [handler EXCEPT ![h] = r]
    BY <1>3, <2>2, <2>3
  <2> HIDE DEF e
  <2> QED
    BY <1>1, <1>4, <2>1, <2>4
<1>10. ASSUME NEW h \in Handlers, InMemoryAccept(h) \/ InboundSaved(h) \/ StreamSaved(h) PROVE KeepInv'
  <2> DEFINE e == handler[h].msg
  <2>1. UNCHANGED <<send, editor, onWire>> /\ e \in Ids /\ (e \in Own => e \in onWire)
    BY <1>2, <1>10 DEF InMemoryAccept, InboundSaved, StreamSaved
  <2>2. Takes(e) /\ handler' = [handler EXCEPT ![h] = Idle]
    BY <1>10 DEF InMemoryAccept, InboundSaved, StreamSaved, Accept
  <2> HIDE DEF e, Takes
  <2> QED
    BY <1>1, <1>3, <1>4, <2>1, <2>2
<1>11. ASSUME NEW h \in Handlers, InboundSaveFails(h) \/ StreamSaveFails(h) PROVE KeepInv'
  <2> DEFINE e == handler[h].msg
  <2>1. UNCHANGED <<send, editor, onWire, store, shown>> /\ e \in Ids /\ (e \in Own => e \in onWire)
    BY <1>2, <1>11 DEF InboundSaveFails, StreamSaveFails
  <2>2. handler' = [handler EXCEPT ![h] = Idle]
    BY <1>11 DEF InboundSaveFails, StreamSaveFails
  <2> HIDE DEF e, Takes
  <2> QED
    BY <1>1, <1>3, <1>4, <2>1, <2>2
<1>12. CASE HydrationFails
  <2>1. /\ UNCHANGED <<send, editor, onWire, store, shown>>
        /\ \A h \in Handlers : handler'[h] = handler[h] \/ handler'[h] = Idle
    BY <1>0, <1>12 DEF HydrationFails, past
  <2> QED
    BY <1>0, <1>3, <2>1 DEF KeepInv, UnsavedIsUnknown, HandledIsOnWire, EditedHasEnded, FirstBody,
                            ToldIsStored, SentIsStored, Unsaved, Ended
<1>13. CASE Restart
  <2>1. /\ send' = [m \in Own |-> IF Settled(m) THEN send[m] ELSE [pc |-> "lost", copy |-> None]]
        /\ handler' = [h \in Handlers |-> Idle] /\ editor' = [o \in Editors |-> NoEdit]
        /\ UNCHANGED onWire
    BY <1>13 DEF Restart
  <2>2. CASE store' = [id \in Ids |-> None] /\ UNCHANGED shown
    BY <1>0, <1>3, <2>1, <2>2 DEF KeepInv, UnsavedIsUnknown, HandledIsOnWire, EditedHasEnded, FirstBody,
                            ToldIsStored, SentIsStored, Unsaved, Ended, Settled, NoEdit
  <2>3. CASE /\ shown' = [id \in Ids |-> IF store[id] = None THEN shown[id] ELSE store[id].content]
             /\ UNCHANGED store
    BY <1>0, <1>3, <2>1, <2>3 DEF KeepInv, UnsavedIsUnknown, HandledIsOnWire, EditedHasEnded, FirstBody,
                            ToldIsStored, SentIsStored, Unsaved, Ended, Settled, NoEdit
  <2> QED
    BY <1>13, <2>2, <2>3 DEF Restart
<1> QED
  BY <1>6, <1>7, <1>8, <1>9, <1>10, <1>11, <1>12, <1>13 DEF HandlerStep

\* chat-engine.ts sendMessage, updateMessage and deleteMessage: if no message is edited or deleted while its
\* sendMessage is outstanding, what was said of a message is what the store keeps, over any
\* storage.  EngineMessages_editrace shows that the condition is needed.
THEOREM SettledEditsAreKept ==
    ASSUME ~EditPending
    PROVE  Spec => []StoreKeepsWhatWasSaid
<1>1. Init => KeepInv
  BY ConstantsAssumption DEF Init, KeepInv, UnsavedIsUnknown, HandledIsOnWire, EditedHasEnded, FirstBody,
     ToldIsStored, SentIsStored, Unsaved, Ended, NoSend, NoEdit, Idle, Ids
<1>2. TypeOK /\ KeepInv /\ [Next]_vars => KeepInv'
  <2>1. CASE HydrationDone \/ UNCHANGED vars
    <3>1. UNCHANGED <<send, handler, editor, store, onWire, shown>>
      BY <2>1 DEF HydrationDone, vars, calls, past
    <3> QED
      BY <3>1 DEF KeepInv, UnsavedIsUnknown, HandledIsOnWire, EditedHasEnded, FirstBody,
                  ToldIsStored, SentIsStored, Unsaved, Ended
  <2> QED
    BY <2>1, SendKeepsTheTold, EditorKeepsTheTold, HandlerKeepsTheTold DEF Next, HandlerStep
<1>3. KeepInv => StoreKeepsWhatWasSaid
  BY DEF KeepInv, SentIsStored, ToldIsStored, StoreKeepsWhatWasSaid, SentStatusDurable, EventsMatchStore
<1> QED
  BY <1>1, <1>2, <1>3, TypeCorrect, PTL DEF Spec

===============================================================================
