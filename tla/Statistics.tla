------------------------------ MODULE Statistics ------------------------------
(***************************************************************************)
(* CoffeeMaker::request_statistics() (src/jutta_bt_proto/CoffeeMaker.cpp)  *)
(* on the client's thread: a command is written, the command's             *)
(* characteristic is polled until it announces the statistics, and they    *)
(* are read and stored in the Joe by the mode of the request.              *)
(*                                                                         *)
(* The coffee maker is external: it accepts or refuses the command that    *)
(* reaches it, takes its time to prepare the statistics and keeps the old  *)
(* ones until then.  The repository says two things of its answers: 0x0E   *)
(* comes first when the statistics are ready (CoffeeMaker.cpp:170-171), or *)
(* when the command was invalid (README.md:233-238).  Every behaviour has  *)
(* a coffee maker of the one kind or of the other.                         *)
(***************************************************************************)
EXTENDS Naturals

CONSTANT MaxRequests    \* bound on the requests of a behaviour

ASSUME MaxRequestsAssumption == MaxRequests \in Nat

StatParseMode == {"PRODUCT_COUNTERS", "MAINTENANCE_COUNTER", "MAINTENANCE_PERCENT"}

\* The times request_statistics() polls, 500 ms apart.
Retries == 20

VARIABLES
    pc,              \* "idle", or "poll" inside request_statistics()
    request,         \* number of the latest request
    polls,           \* the loop counter
    statParserMode, statDataReady,  \* of CoffeeMaker
    written,         \* what write() returned for the command; nobody looks at it
    values,          \* Joe: what the parser of each mode stored last
    link,            \* radio: the link is up
    accepted,        \* coffee maker: the request it received last, if it took it
    prepared,        \* coffee maker: the request whose statistics it offers
    asDocumented     \* coffee maker: its answers are those of README.md

client == <<pc, request, polls, statParserMode, statDataReady, written, values>>
maker == <<accepted, prepared, asDocumented>>
vars == <<client, link, maker>>

None == [request |-> 0, mode |-> "none"]
Current == [request |-> request, mode |-> statParserMode]

Ready == accepted # None /\ prepared = accepted

(* What a parser stores, with the request it was stored by, whether its    *)
(* command was written and whether an answer ended its polls.              *)
Unread ==
    [m \in StatParseMode |->
        [request |-> 0, written |-> FALSE, announced |-> FALSE, stats |-> None]]

Init ==
    /\ pc = "idle"
    /\ request = 0
    /\ polls = 0
    /\ statParserMode = "none"
    /\ statDataReady = FALSE
    /\ written = FALSE
    /\ values = Unread
    /\ link = TRUE
    /\ accepted = None
    /\ prepared = None
    /\ asDocumented \in BOOLEAN

-----------------------------------------------------------------------------
(* The command is written, and the coffee maker takes it or refuses it, or *)
(* the write fails.                                                        *)
Write(mode) ==
    \/ /\ link
       /\ written' = TRUE
       /\ accepted' \in {None, [request |-> request + 1, mode |-> mode]}
    \/ written' = FALSE /\ UNCHANGED accepted

\* Mutant: statDataReady keeps the value of the last request.
RequestResetsNot(mode) ==
    /\ pc = "idle" /\ request < MaxRequests
    /\ Write(mode)
    /\ pc' = "poll"
    /\ request' = request + 1
    /\ polls' = 0
    /\ statParserMode' = mode
    /\ UNCHANGED <<statDataReady, values, link, prepared, asDocumented>>

Request(mode) ==
    /\ pc = "idle" /\ request < MaxRequests
    /\ Write(mode)
    /\ pc' = "poll"
    /\ request' = request + 1
    /\ polls' = 0
    /\ statParserMode' = mode
    /\ statDataReady' = FALSE
    /\ UNCHANGED <<values, link, prepared, asDocumented>>

(* What a poll may read: 0x0E comes first, or anything else, or there are  *)
(* less than two bytes.                                                    *)
Answers ==
    IF (asDocumented /\ accepted = None) \/ (~asDocumented /\ Ready)
    THEN {"0x0E"}
    ELSE {"other", "short"}

MayPoll == polls < Retries

\* Mutant: the polls are not counted.
PollUncounted ==
    /\ pc = "poll" /\ MayPoll /\ ~statDataReady
    /\ \/ /\ link
          /\ \E answer \in Answers: statDataReady' = (answer = "0x0E")
       \/ UNCHANGED statDataReady
    /\ UNCHANGED <<pc, request, polls, statParserMode, written, values, link, maker>>

\* Mutant: any answer of two bytes announces the statistics.
PollTakesAny ==
    /\ pc = "poll" /\ MayPoll /\ ~statDataReady
    /\ polls' = polls + 1
    /\ \/ /\ link
          /\ \E answer \in Answers: statDataReady' = (answer # "short")
       \/ UNCHANGED statDataReady
    /\ UNCHANGED <<pc, request, statParserMode, written, values, link, maker>>

(* The loop's body, read_characteristic() and parse_statistics_command().  *)
Poll ==
    /\ pc = "poll" /\ MayPoll /\ ~statDataReady
    /\ polls' = polls + 1
    /\ \/ /\ link
          /\ \E answer \in Answers: statDataReady' = (answer = "0x0E")
       \/ UNCHANGED statDataReady
    /\ UNCHANGED <<pc, request, statParserMode, written, values, link, maker>>

(* After the loop the statistics are read and parsed by the mode, and the  *)
(* handler of the mode is called.                                          *)
ReadData ==
    /\ pc = "poll" /\ (statDataReady \/ ~MayPoll)
    /\ pc' = "idle"
    /\ \/ /\ link
          /\ values' = [values EXCEPT ![statParserMode] =
                           [request |-> request, written |-> written,
                            announced |-> statDataReady, stats |-> prepared]]
       \/ UNCHANGED values
    /\ UNCHANGED <<request, polls, statParserMode, statDataReady, written, link, maker>>

-----------------------------------------------------------------------------
Prepare ==
    /\ accepted # None /\ prepared # accepted
    /\ prepared' = accepted
    /\ UNCHANGED <<client, link, accepted, asDocumented>>

LoseLink ==
    /\ link
    /\ link' = FALSE
    /\ UNCHANGED <<client, maker>>

(* The client connects again: parse_man_data() makes a new Joe.            *)
Reconnect ==
    /\ pc = "idle" /\ ~link
    /\ link' = TRUE
    /\ values' = Unread
    /\ UNCHANGED <<pc, request, polls, statParserMode, statDataReady, written, maker>>

Next ==
    \/ \E mode \in StatParseMode: Request(mode)
    \/ Poll
    \/ ReadData
    \/ Prepare
    \/ LoseLink
    \/ Reconnect

Spec == Init /\ [][Next]_vars

(* The client's thread runs; the coffee maker need not ever be ready.      *)
FairSpec == Spec /\ WF_vars(Poll \/ ReadData)

-----------------------------------------------------------------------------
Stats == [request : 0..MaxRequests, mode : StatParseMode \cup {"none"}]

(* Every variable has its type; the loop polls 20 times at most.           *)
TypeOK ==
    /\ pc \in {"idle", "poll"}
    /\ request \in 0..MaxRequests
    /\ polls \in 0..Retries
    /\ statParserMode \in StatParseMode \cup {"none"}
    /\ statDataReady \in BOOLEAN
    /\ written \in BOOLEAN
    /\ values \in [StatParseMode ->
                      [request : 0..MaxRequests, written : BOOLEAN,
                       announced : BOOLEAN, stats : Stats]]
    /\ link \in BOOLEAN
    /\ accepted \in Stats
    /\ prepared \in Stats
    /\ asDocumented \in BOOLEAN

(* With a coffee maker whose answers are as the parser takes them, a       *)
(* request whose command was written and whose polls were ended by an      *)
(* answer stored the statistics it asked for, under its own mode: "On      *)
(* success the appropriate event gets triggered inside Joe."               *)
(* (CoffeeMaker.hpp:171), although every request shares one statDataReady  *)
(* and one characteristic with those before it.  (Of a request that was    *)
(* given up, or whose write failed, it says nothing: the code triggers the *)
(* event for it too, with whatever is read.)                               *)
SuccessIsTheRequests ==
    ~asDocumented =>
        \A m \in StatParseMode:
            LET v == values[m]
            IN  v.written /\ v.announced => v.stats = [request |-> v.request, mode |-> m]

(* With a coffee maker whose answers are as README.md:233-238 has them it  *)
(* is the other way round: no request whose polls an answer ended stores   *)
(* what it asked for, and one whose command was taken is polled to the     *)
(* end.  Whoever corrects the parser or the document has to choose.        *)
RefusalIsTakenForSuccess ==
    asDocumented =>
        /\ pc = "poll" /\ accepted = Current => ~statDataReady
        /\ \A m \in StatParseMode:
              LET v == values[m]
              IN  v.announced => v.stats # [request |-> v.request, mode |-> m]

(* request_statistics() returns, whether the coffee maker answers, the     *)
(* link is lost or the statistics never get ready.                         *)
RequestReturns == pc = "poll" ~> pc = "idle"

(* Why: until request_statistics() returns, the coffee maker has received  *)
(* no command but that of the request that polls, so that what it answers  *)
(* is about that one.                                                      *)
Announced ==
    /\ prepared.request <= request
    /\ accepted.request <= request
    /\ pc = "poll" =>
          /\ statParserMode # "none" /\ request # 0
          /\ written => accepted \in {Current, None}
          /\ prepared = Current => accepted = Current
          /\ ~asDocumented /\ written /\ statDataReady => prepared = Current
          /\ asDocumented /\ statDataReady => accepted = None

Inductive == TypeOK /\ Announced /\ SuccessIsTheRequests /\ RefusalIsTakenForSuccess
=============================================================================
