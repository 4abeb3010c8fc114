------------------------- MODULE MessageSynchronizer -------------------------
(***************************************************************************)
(* isaac_common/messaging: MessageStreamSynchronizer, which matches the    *)
(* messages of several topics by their timestamps, and the MessageBuffer   *)
(* it keeps for each of them.                                              *)
(*                                                                         *)
(* AddMessage pushes a message and runs the loop of                        *)
(* PopBuffersAndTriggerCallback, one Round at a time; nothing else runs    *)
(* until the loop returns.  last_msg_ts_, which nothing here reads, is     *)
(* left out.                                                               *)
(***************************************************************************)
EXTENDS Integers, Sequences, FiniteSets

CONSTANTS
    Streams,      \* the topics
    Threshold,    \* timestamp_delta_threshold_ns
    BufferSize,   \* buffer_size
    MinNumbers,   \* values of min_num_messages
    MaxTime,      \* bound: timestamps
    MaxMessages   \* bound: messages added

(* pop_front of an empty list is undefined: a buffer has room for one.     *)
ASSUME SyncAssumption ==
    /\ Streams # {}
    /\ Threshold \in Nat /\ MaxTime \in Nat /\ MaxMessages \in Nat
    /\ BufferSize \in Nat \ {0}
    /\ MinNumbers \subseteq Nat

VARIABLES
    minNumber,  \* min_num_messages_
    ordered,    \* whether every stream arrives in the order of its timestamps
    buffer,     \* stream -> messages of buffer_, [ts, serial]
    next,       \* stream -> next_msg_ts_
    current,    \* stream -> current_msg_ts_
    looping,    \* the loop of PopBuffersAndTriggerCallback runs
    waiting,    \* a message was added without running the loop since
    serial,     \* messages added so far
    calls,      \* calls of the callback
    stamp,      \* timestamp of the last call
    match,      \* stream -> message of the last call
    latest      \* stream -> serial of the message delivered last

syncVars == <<minNumber, ordered, buffer, next, current, looping, waiting, serial, calls, stamp, match, latest>>
callback == <<calls, stamp, match, latest>>
config == <<minNumber, ordered>>

None == -1

Init ==
    /\ minNumber \in MinNumbers /\ ordered \in BOOLEAN
    /\ buffer = [s \in Streams |-> <<>>]
    /\ next = [s \in Streams |-> None] /\ current = [s \in Streams |-> None]
    /\ looping = FALSE /\ waiting = FALSE
    /\ serial = 0 /\ calls = 0 /\ stamp = None /\ match = <<>>
    /\ latest = [s \in Streams |-> 0]

-------------------------------------------------------------------------------
(* MessageBuffer: Push makes room by dropping the front.                   *)
Pushed(messages, m) == Append(IF Len(messages) >= BufferSize THEN Tail(messages) ELSE messages, m)

NextAfterPush(messages) == messages[1].ts

NextAfterPop(messages) == IF messages = <<>> THEN None ELSE messages[1].ts

-------------------------------------------------------------------------------
(* AddMessage.                                                             *)
AddMessage(s, ts, trigger) ==
    /\ ~looping /\ serial < MaxMessages
    /\ ordered => ts >= current[s]
    /\ serial' = serial + 1
    /\ buffer' = [buffer EXCEPT ![s] = Pushed(buffer[s], [ts |-> ts, serial |-> serial'])]
    /\ next' = [next EXCEPT ![s] = NextAfterPush(buffer'[s])]
    /\ current' = [current EXCEPT ![s] = ts]
    /\ looping' = trigger /\ waiting' = ~trigger
    /\ UNCHANGED <<config, callback>>

(* PeekMessageTimestamps returns nothing unless every buffer has a message. *)
AllHaveOne == \A s \in Streams : buffer[s] # <<>>

Before(ts, min) == ts <= min + Threshold

(* Mutant: the threshold is measured from the latest front.                *)
FrontMatches_FromLatest == {s \in Streams : \E r \in Streams : Before(next[s], next[r])}

(* GetIndicesOfMessagesBeforeThreshold: the fronts within the threshold of *)
(* the earliest one.                                                       *)
FrontMatches == {s \in Streams : \A r \in Streams : Before(next[s], next[r])}

Enough(group) == Cardinality(group) >= minNumber

(* Mutant: only the earliest message is removed.                           *)
ToPop_Earliest(group) == {s \in group : \A r \in group : next[s] <= next[r]}

ToPop(group) == group

(* TriggerCallbackWithMessages.                                            *)
TriggerCallback(group) ==
    /\ calls' = calls + 1
    /\ stamp' \in {next[s] : s \in group} /\ \A s \in group : next[s] <= stamp'
    /\ match' = [s \in group |-> buffer[s][1]]
    /\ latest' = [s \in Streams |-> IF s \in group THEN buffer[s][1].serial ELSE latest[s]]

PopBuffers(group) ==
    /\ buffer' = [s \in Streams |-> IF s \in group THEN Tail(buffer[s]) ELSE buffer[s]]
    /\ next' = [s \in Streams |-> IF s \in group THEN NextAfterPop(buffer'[s]) ELSE next[s]]

(* A turn of the loop.                                                     *)
Round ==
    /\ looping /\ AllHaveOne
    /\ IF Enough(FrontMatches) THEN TriggerCallback(FrontMatches) ELSE UNCHANGED callback
    /\ PopBuffers(ToPop(FrontMatches))
    /\ UNCHANGED <<config, looping, current, waiting, serial>>

(* The loop returns when a buffer is empty.                                *)
LoopReturns ==
    /\ looping /\ ~AllHaveOne
    /\ looping' = FALSE
    /\ UNCHANGED <<config, buffer, next, current, waiting, serial, callback>>

(* ClearBuffers: ClearAll leaves next_msg_ts_ as it is.                    *)
ClearBuffers ==
    /\ ~looping
    /\ buffer' = [s \in Streams |-> <<>>]
    /\ waiting' = FALSE
    /\ UNCHANGED <<config, next, current, looping, serial, callback>>

Loop == Round \/ LoopReturns

Next ==
    \/ \E s \in Streams, ts \in 0 .. MaxTime, trigger \in BOOLEAN : AddMessage(s, ts, trigger)
    \/ Loop
    \/ ClearBuffers

Spec == Init /\ [][Next]_syncVars

-------------------------------------------------------------------------------
(* next_msg_ts_ is the timestamp of the front, also when Push has dropped  *)
(* the front of a full buffer and after ClearAll, which leaves it alone.   *)
(* Messages wait in the order in which they were added.                    *)
NextIsFront ==
    \A s \in Streams :
        /\ buffer[s] # <<>> => next[s] = buffer[s][1].ts
        /\ \A i, j \in 1 .. Len(buffer[s]) : i < j => buffer[s][i].serial < buffer[s][j].serial

(* What the callback gets belongs together: the timestamps the messages    *)
(* themselves have are within the threshold of each other, and the time of *)
(* the call is the latest of them.                                         *)
MatchesBelongTogether ==
    calls > 0 =>
        /\ \A s, r \in DOMAIN match : match[s].ts <= match[r].ts + Threshold
        /\ \E s \in DOMAIN match : match[s].ts = stamp
        /\ \A s \in DOMAIN match : match[s].ts <= stamp

(* No message is delivered twice, and those of a stream in their order,    *)
(* whatever is dropped or cleared in between.                              *)
OnceAndInOrder == [][calls' # calls => \A s \in DOMAIN match' : match'[s].serial > latest[s]]_syncVars

(* Once AddMessage has run the loop, nothing that could be matched is left *)
(* behind: some stream has no message.                                     *)
NothingLeftBehind == ~looping /\ ~waiting => \E s \in Streams : buffer[s] = <<>>

=============================================================================
