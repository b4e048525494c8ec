--------------------------- MODULE StatisticsProofs ---------------------------
(***************************************************************************)
(* Proofs about Statistics for any number of requests.                     *)
(***************************************************************************)
EXTENDS Statistics, TLAPS

ModeOrNone == StatParseMode \cup {"none"}

Flags ==
    /\ statDataReady \in BOOLEAN
    /\ written \in BOOLEAN
    /\ link \in BOOLEAN
    /\ asDocumented \in BOOLEAN

\* What a parser stores.
Value == [request : 0..MaxRequests, written : BOOLEAN, announced : BOOLEAN, stats : Stats]

Data ==
    /\ pc \in {"idle", "poll"}
    /\ request \in 0..MaxRequests
    /\ polls \in 0..Retries
    /\ statParserMode \in ModeOrNone
    /\ values \in [StatParseMode -> Value]
    /\ accepted \in Stats
    /\ prepared \in Stats
    /\ pc = "poll" => statParserMode \in StatParseMode

LEMMA DataInit == Init => Flags /\ Data
  <1>1. Init => Flags
    BY Zenon DEF Init, Flags
  <1>2. Init => Data
    BY MaxRequestsAssumption
    DEF Init, Data, Value, ModeOrNone, Retries, Stats, Unread, None
  <1> QED
    BY <1>1, <1>2

LEMMA FlagsNext == ASSUME Flags, [Next]_vars PROVE Flags'
  <1> USE DEF Flags
  <1>1. ASSUME NEW mode \in StatParseMode, Request(mode) PROVE Flags'
    BY Zenon, <1>1 DEF Request, Write
  <1>2. CASE Poll
    BY Zenon, <1>2 DEF Poll, maker
  <1>3. CASE ReadData
    BY Zenon, <1>3 DEF ReadData, maker
  <1>4. CASE Prepare
    BY Zenon, <1>4 DEF Prepare, client, maker
  <1>5. CASE LoseLink
    BY Zenon, <1>5 DEF LoseLink, client, maker
  <1>6. CASE Reconnect
    BY Zenon, <1>6 DEF Reconnect, maker
  <1>7. CASE UNCHANGED vars
    BY Zenon, <1>7 DEF vars, client, maker
  <1> QED
    BY <1>1, <1>2, <1>3, <1>4, <1>5, <1>6, <1>7 DEF Next

LEMMA DataNext == ASSUME Flags, Data, [Next]_vars PROVE Data'
  <1> USE MaxRequestsAssumption DEF Data, ModeOrNone, Retries, Stats
  <1>1. ASSUME NEW mode \in StatParseMode, Request(mode) PROVE Data'
    <2>1. accepted' \in [request : 0..MaxRequests, mode : ModeOrNone]
      BY <1>1 DEF Request, Write, None
    <2> QED
      BY <1>1, <2>1 DEF Request
  <1>2. CASE Poll
    BY <1>2 DEF Poll, Answers, MayPoll, maker
  <1>3. CASE ReadData
    <2>1. written \in BOOLEAN /\ statDataReady \in BOOLEAN
      BY Zenon DEF Flags
    <2>2. [request |-> request, written |-> written, announced |-> statDataReady,
           stats |-> prepared] \in Value
      BY <2>1 DEF Value
    <2>3. values' \in [StatParseMode -> Value]
      BY Zenon, <1>3, <2>2 DEF ReadData
    <2> QED
      BY <1>3, <2>3 DEF ReadData, maker
  <1>4. CASE Prepare
    BY <1>4 DEF Prepare, client, maker
  <1>5. CASE LoseLink
    BY <1>5 DEF LoseLink, client, maker
  <1>6. CASE Reconnect
    BY <1>6 DEF Reconnect, Unread, None, maker, Value
  <1>7. CASE UNCHANGED vars
    BY <1>7 DEF vars, client, maker
  <1> QED
    BY <1>1, <1>2, <1>3, <1>4, <1>5, <1>6, <1>7 DEF Next

(* Every variable has its type: in particular the loop polls the coffee    *)
(* maker 20 times at most.                                                 *)
THEOREM StatisticsTypeCorrect == Spec => []TypeOK
  <1>1. Flags /\ Data /\ [Next]_vars => (Flags /\ Data)'
    BY FlagsNext, DataNext
  <1>2. Flags /\ Data => TypeOK
    BY DEF Flags, Data, Value, TypeOK, ModeOrNone
  <1> QED
    BY <1>1, <1>2, DataInit, PTL DEF Spec

-----------------------------------------------------------------------------
LEMMA AnnouncedInit == Init => Announced
  BY MaxRequestsAssumption DEF Init, Announced, None

LEMMA AnnouncedNext ==
  ASSUME Data, Announced, [Next]_vars
  PROVE  Announced'
  <1> USE MaxRequestsAssumption
      DEF Announced, Data, ModeOrNone, Retries, Current, Stats, None
  <1>1. ASSUME NEW mode \in StatParseMode, Request(mode) PROVE Announced'
    BY <1>1 DEF Request, Write, StatParseMode
  <1>2. CASE Poll
    <2>1. statDataReady' /\ ~asDocumented => accepted # None /\ prepared = accepted
      BY ONLY Zenon, <1>2 DEF Poll, Answers, Ready
    <2>2. statDataReady' /\ asDocumented => accepted = None
      BY ONLY Zenon, <1>2 DEF Poll, Answers, Ready
    <2>3. /\ pc = "poll"
          /\ UNCHANGED <<pc, request, statParserMode, written, accepted, prepared, asDocumented>>
      BY Zenon, <1>2 DEF Poll, maker
    <2>4. UNCHANGED <<Current, None>>
      BY <2>3
    <2> QED
      BY ONLY Zenon, Announced, <2>1, <2>2, <2>3, <2>4 DEF Announced
  <1>3. CASE ReadData
    BY <1>3 DEF ReadData, maker
  <1>4. CASE Prepare
    BY <1>4 DEF Prepare, client
  <1>5. CASE LoseLink
    BY <1>5 DEF LoseLink, client, maker
  <1>6. CASE Reconnect
    BY <1>6 DEF Reconnect, maker
  <1>7. CASE UNCHANGED vars
    BY <1>7 DEF vars, client, maker
  <1> QED
    BY <1>1, <1>2, <1>3, <1>4, <1>5, <1>6, <1>7 DEF Next

(* The inductive invariant of what follows: the coffee maker's answers are *)
(* about the request that polls; what an answer of 0x0E says of it depends *)
(* on the kind of coffee maker.                                            *)
THEOREM AnnouncedCorrect == Spec => []Announced
  <1>1. Flags /\ Data /\ [Next]_vars => (Flags /\ Data)'
    BY FlagsNext, DataNext
  <1>2. Data /\ Announced /\ [Next]_vars => Announced'
    BY AnnouncedNext
  <1> QED
    BY <1>1, <1>2, DataInit, AnnouncedInit, PTL DEF Spec

-----------------------------------------------------------------------------
(* What is stored.                                                         *)

\* The actions other than ReadData and Reconnect store nothing.
LEMMA ValuesChange ==
  ASSUME [Next]_vars PROVE UNCHANGED asDocumented /\ (ReadData \/ Reconnect \/ UNCHANGED values)
  BY DEF Next, Request, Poll, ReadData, Prepare, LoseLink, Reconnect, client, maker, vars

LEMMA ReadDataStores ==
  ASSUME Data, ReadData, values' # values, NEW m \in StatParseMode
  PROVE  values'[m] = IF m = statParserMode
                      THEN [request |-> request, written |-> written,
                            announced |-> statDataReady, stats |-> prepared]
                      ELSE values[m]
  BY Zenon DEF ReadData, Data

LEMMA SuccessNext ==
  ASSUME Flags, Data, Announced, SuccessIsTheRequests, [Next]_vars
  PROVE  SuccessIsTheRequests'
  <1> USE DEF SuccessIsTheRequests
  <1>1. CASE ReadData /\ values' # values
    <2> SUFFICES ASSUME ~asDocumented, NEW m \in StatParseMode,
                        values'[m].written, values'[m].announced
                 PROVE  values'[m].stats = [request |-> values'[m].request, mode |-> m]
      BY ValuesChange
    <2>1. CASE m = statParserMode
      <3>1. values'[m] = [request |-> request, written |-> written,
                          announced |-> statDataReady, stats |-> prepared]
        BY <1>1, <2>1, ReadDataStores
      <3>2. written /\ statDataReady
        BY <3>1
      <3>3. prepared = Current
        BY <1>1, <3>2 DEF ReadData, Announced
      <3> QED
        BY <2>1, <3>1, <3>3 DEF Current
    <2>2. CASE m # statParserMode
      <3>1. values'[m] = values[m]
        BY <1>1, <2>2, ReadDataStores
      <3> QED
        BY <3>1
    <2> QED
      BY <2>1, <2>2
  <1>2. CASE Reconnect
    BY <1>2 DEF Reconnect, Unread
  <1>3. CASE UNCHANGED values
    BY <1>3, ValuesChange
  <1> QED
    BY <1>1, <1>2, <1>3, ValuesChange

(* With a coffee maker that answers as the parser takes it, a request      *)
(* whose command was written and whose polls an answer ended never stores  *)
(* the statistics of another, wherever the link is lost or gattlib fails   *)
(* and however slow the coffee maker is.                                   *)
THEOREM SuccessIsTheRequestsCorrect == Spec => []SuccessIsTheRequests
  <1>1. Init => SuccessIsTheRequests
    BY DEF Init, Unread, SuccessIsTheRequests
  <1>2. Flags /\ Data /\ [Next]_vars => (Flags /\ Data)'
    BY FlagsNext, DataNext
  <1>3. Flags /\ Data /\ Announced /\ SuccessIsTheRequests /\ [Next]_vars
          => SuccessIsTheRequests'
    BY SuccessNext
  <1> QED
    BY <1>1, <1>2, <1>3, DataInit, AnnouncedCorrect, PTL DEF Spec

\* None of what ended a request's polls is what it asked for.
Refused ==
    asDocumented =>
        \A m \in StatParseMode:
            values[m].announced
                => values[m].stats # [request |-> values[m].request, mode |-> m]

LEMMA RefusedNext ==
  ASSUME Flags, Data, Announced, Refused, [Next]_vars PROVE Refused'
  <1> USE DEF Refused
  <1>1. CASE ReadData /\ values' # values
    <2> SUFFICES ASSUME asDocumented, NEW m \in StatParseMode, values'[m].announced
                 PROVE  values'[m].stats # [request |-> values'[m].request, mode |-> m]
      BY ValuesChange
    <2>1. CASE m = statParserMode
      <3>1. values'[m] = [request |-> request, written |-> written,
                          announced |-> statDataReady, stats |-> prepared]
        BY <1>1, <2>1, ReadDataStores
      <3>2. statDataReady
        BY <3>1
      <3>3. accepted = None /\ request # 0
        BY <1>1, <3>2 DEF ReadData, Announced
      <3>4. prepared # Current
        BY <1>1, <3>3 DEF ReadData, Announced, None, Current
      <3> QED
        BY <2>1, <3>1, <3>4 DEF Current
    <2>2. CASE m # statParserMode
      <3>1. values'[m] = values[m]
        BY <1>1, <2>2, ReadDataStores
      <3> QED
        BY <3>1
    <2> QED
      BY <2>1, <2>2
  <1>2. CASE Reconnect
    BY <1>2 DEF Reconnect, Unread
  <1>3. CASE UNCHANGED values
    BY <1>3, ValuesChange
  <1> QED
    BY <1>1, <1>2, <1>3, ValuesChange

(* With a coffee maker that answers as README.md has it, no request whose  *)
(* polls an answer ended stores what it asked for, and no request whose    *)
(* command was taken has its polls ended.                                  *)
THEOREM RefusalIsTakenForSuccessCorrect == Spec => []RefusalIsTakenForSuccess
  <1>1. Init => Refused
    BY DEF Init, Unread, Refused
  <1>2. Flags /\ Data /\ [Next]_vars => (Flags /\ Data)'
    BY FlagsNext, DataNext
  <1>3. Flags /\ Data /\ Announced /\ Refused /\ [Next]_vars => Refused'
    BY RefusedNext
  <1>4. Data /\ Announced /\ Refused => RefusalIsTakenForSuccess
    <2> SUFFICES ASSUME Data, Announced, asDocumented, pc = "poll", accepted = Current
                 PROVE  ~statDataReady
      BY DEF Refused, RefusalIsTakenForSuccess
    <2> QED
      BY DEF Announced, None, Current
  <1> QED
    BY <1>1, <1>2, <1>3, <1>4, DataInit, AnnouncedCorrect, PTL DEF Spec

(* All of it together is inductive, for any number of requests.            *)
THEOREM InductiveCorrect == Spec => []Inductive
  BY StatisticsTypeCorrect, AnnouncedCorrect, SuccessIsTheRequestsCorrect,
     RefusalIsTakenForSuccessCorrect, PTL
  DEF Inductive
=============================================================================
