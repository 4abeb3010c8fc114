------------------------------ MODULE NanoOwlNode ------------------------------
(***************************************************************************)
(* nano_owl_py.py: the node that runs the NanoOWL detector on the newest   *)
(* camera image, for the labels of the query it received last, and reports *)
(* what it finds as a text message on /yolo/detections.                    *)
(*                                                                         *)
(* Its subscriptions exist, and buffer queries, while the constructor      *)
(* still loads the model.  It runs on rclpy's single-threaded executor: a  *)
(* query is taken before or after an inference, never during one.  No      *)
(* callback catches its exceptions, so any failure ends the process.       *)
(*                                                                         *)
(* The encodings of a list of texts (OwlPredictor.encode_text) are         *)
(* represented by the list itself.                                         *)
(***************************************************************************)
EXTENDS Topics, SequencesExt

CONSTANTS
    QueryStrings,          \* the queries other nodes may publish
    InitialQuery,          \* the query of the constructor, "a person, a box"
    QueryDepth,            \* depth of the input_query subscription
    ImageBoxes,            \* the boxes of detections
    Scores,                \* confidences of detections, in hundredths
    MaxDetections,         \* bound on the detections of an image
    PublishLegacyOutputs,  \* publish_legacy_outputs
    ThresholdsSet          \* the thresholds parameter, declared without a
                           \* default, has been given a value

VARIABLES
    owl,              \* "loading", "idle", "inferring" or "dead"
    queryQueue,       \* buffer of the input_query subscription
    imagePending,     \* buffer of the input_image subscription, depth 1
    query,            \* self.query
    queryText,        \* self.query_text
    textEncodings,    \* self.query_text_encodings
    processingImage,  \* self.processing_image
    usedEncodings,    \* the encodings passed to the running inference
    legacyOut,        \* the detection messages published by the last step
    found,            \* history: the label indices the last inference gave
    lastReceived      \* history: <<the query that arrived last>>, or <<>>

cache == <<query, queryText, textEncodings>>
owlVars == <<owl, queryQueue, imagePending, query, queryText, textEncodings,
             processingImage, usedEncodings, legacyOut, found, lastReceived>>

NoEncodings == <<>>

ASSUME BoundsAssumption == QueryDepth \in Nat \ {0} /\ MaxDetections \in Nat

-------------------------------------------------------------------------------
(* The texts of a query: its non-blank items, and "a person" if there are  *)
(* none.                                                                   *)
QueryTexts(q) == IF NonBlank(q) = <<>> THEN << <<"a", "person">> >> ELSE NonBlank(q)

(* _update_query_cache.                                                    *)
UpdateQueryCache(q) ==
    /\ query' = q
    /\ queryText' = QueryTexts(q)
    /\ textEncodings' = QueryTexts(q)

(* The text of an entry: the name of the label if the index is one of the  *)
(* query's, the index otherwise.                                           *)
ClassName(index) == IF index \in DOMAIN queryText THEN queryText[index] ELSE <<"index">>

Init ==
    /\ owl = "loading"
    /\ queryQueue = <<>>
    /\ imagePending = FALSE
    /\ query = <<>> /\ queryText = <<>> /\ textEncodings = NoEncodings
    /\ processingImage = FALSE
    /\ usedEncodings = NoEncodings
    /\ legacyOut = <<>>
    /\ found = <<>>
    /\ lastReceived = <<>>

(* The constructor returns, with the initial query encoded.                *)
Load ==
    /\ owl = "loading"
    /\ owl' = "idle"
    /\ UpdateQueryCache(InitialQuery)
    /\ legacyOut' = <<>>
    /\ UNCHANGED <<queryQueue, imagePending, processingImage, usedEncodings, found, lastReceived>>

(* The middleware puts queries and images into the buffers at any time.    *)
ReceiveQueries(sent, linked) ==
    /\ queryQueue' = Deliver(queryQueue, sent, linked, QueryDepth)
    /\ lastReceived' = IF linked /\ sent # <<>> THEN <<Last(sent)>> ELSE lastReceived
    /\ UNCHANGED <<owl, imagePending, cache, processingImage, usedEncodings, found>>

ReceiveImage ==
    /\ imagePending' = TRUE
    /\ legacyOut' = <<>>
    /\ UNCHANGED <<owl, queryQueue, cache, processingImage, usedEncodings, found, lastReceived>>

(* Mutant: as on a multi-threaded executor, a query may be taken during an *)
(* inference.                                                              *)
MayTakeQuery_AnyTime == owl \in {"idle", "inferring"}

MayTakeQuery == owl = "idle"

(* Mutant: queries are compared by their number of items.                  *)
IsNewQuery_ByLength(q) == Len(q) # Len(query)

IsNewQuery(q) == q # query

(* query_listener_callback.                                                *)
QueryListenerCallback ==
    /\ MayTakeQuery
    /\ queryQueue # <<>>
    /\ queryQueue' = Tail(queryQueue)
    /\ IF IsNewQuery(Head(queryQueue)) THEN UpdateQueryCache(Head(queryQueue)) ELSE UNCHANGED cache
    /\ legacyOut' = <<>>
    /\ UNCHANGED <<owl, imagePending, processingImage, usedEncodings, found, lastReceived>>

(* listener_callback up to the call of the model.                          *)
ListenerStart ==
    /\ owl = "idle"
    /\ imagePending
    /\ imagePending' = FALSE
    /\ IF processingImage
       THEN UNCHANGED <<owl, processingImage, usedEncodings>>
       ELSE /\ processingImage' = TRUE
            /\ IF ThresholdsSet
               THEN owl' = "inferring" /\ usedEncodings' = textEncodings
               ELSE owl' = "dead" /\ UNCHANGED usedEncodings
    /\ legacyOut' = <<>>
    /\ UNCHANGED <<queryQueue, cache, found, lastReceived>>

(* Mutant: nothing is published when nothing was found.                    *)
LegacyMessages_SilentWhenEmpty(labels, entries) == IF labels = <<>> THEN <<>> ELSE <<entries>>

LegacyMessages(labels, entries) == IF PublishLegacyOutputs THEN <<entries>> ELSE <<>>

(* The rest of listener_callback: the model returns detections, each with  *)
(* the index of a text whose encoding it was given.                        *)
ListenerFinish ==
    /\ owl = "inferring"
    /\ \E labels \in BoundedSeq(DOMAIN usedEncodings, MaxDetections) :
       \E boxes \in [DOMAIN labels -> ImageBoxes], score \in Scores :
          /\ found' = labels
          /\ legacyOut' = LegacyMessages(labels, [i \in DOMAIN labels |->
                 [label |-> ClassName(labels[i]), box |-> boxes[i], confidence |-> score]])
          /\ processingImage' = FALSE
    /\ owl' = "idle"
    /\ UNCHANGED <<queryQueue, imagePending, cache, usedEncodings, lastReceived>>

(* The model cannot be loaded, or a callback raises (an image that does    *)
(* not convert, the GPU out of memory): spin ends with the exception.  The *)
(* finally clause has run.                                                 *)
Fail ==
    /\ owl \in {"loading", "idle", "inferring"}
    /\ owl' = "dead"
    /\ processingImage' = FALSE
    /\ legacyOut' = <<>>
    /\ UNCHANGED <<queryQueue, imagePending, cache, usedEncodings, found, lastReceived>>

Callback == QueryListenerCallback \/ ListenerStart \/ ListenerFinish

Next ==
    \/ Load \/ Callback \/ Fail \/ ReceiveImage
    \/ legacyOut' = <<>> /\ \E q \in QueryStrings : ReceiveQueries(<<q>>, TRUE)

(* The executor keeps serving a buffered query and a buffered image in     *)
(* turn, and the model returns.  Nothing obliges the node to fail.         *)
Fairness ==
    /\ WF_owlVars(Load) /\ WF_owlVars(ListenerFinish)
    /\ SF_owlVars(QueryListenerCallback) /\ SF_owlVars(ListenerStart)

Spec == Init /\ [][Next]_owlVars /\ Fairness
-------------------------------------------------------------------------------
Running == owl \in {"idle", "inferring"}

(* The types of the fields; the buffer of queries stays within its depth,  *)
(* also while the model loads (query_subscription).                        *)
OwlTypeOK ==
    /\ owl \in {"loading", "idle", "inferring", "dead"}
    /\ queryQueue \in BoundedSeq(QueryStrings, QueryDepth)
    /\ query \in QueryStrings \cup {InitialQuery, <<>>}
    /\ imagePending \in BOOLEAN /\ processingImage \in BOOLEAN
    /\ Len(legacyOut) <= 1 /\ Len(found) <= MaxDetections

(* Every entry of a published message carries the name of the label whose  *)
(* encoding the model matched, although listener_callback reads            *)
(* self.query_text again after the inference.                              *)
LabelsNameWhatWasFound ==
    \A k \in DOMAIN legacyOut :
        /\ DOMAIN legacyOut[k] = DOMAIN found
        /\ \A i \in DOMAIN found : legacyOut[k][i].label = usedEncodings[found[i]]

(* The buffer never outgrows its depth, and once the node has worked it    *)
(* off it looks for what was asked last, with the texts and the encodings  *)
(* of that very query, however many queries arrived, were dropped or were  *)
(* repeated while it was loading or inferring (query_listener_callback,    *)
(* _update_query_cache).                                                   *)
NewestQueryWins ==
    /\ OwlTypeOK
    /\ Running => queryText = QueryTexts(query) /\ textEncodings = queryText
    /\ owl = "idle" /\ queryQueue = <<>> /\ lastReceived # <<>> => lastReceived = <<query>>

(* Every buffered image is eventually answered by a message, even if it is *)
(* 'no detections', unless the process ends (listener_callback).           *)
EveryImageAnswered == imagePending ~> (legacyOut # <<>> \/ owl = "dead")

-------------------------------------------------------------------------------
(* The inductive invariant behind the safety properties: the cache belongs *)
(* to the query, a running inference was given the encodings of the cache, *)
(* and what arrived last is either still the last in the buffer or the     *)
(* current query.                                                          *)
CacheInv == Running => queryText = QueryTexts(query) /\ textEncodings = queryText

InferenceInv == owl = "inferring" => usedEncodings = textEncodings

BufferInv ==
    lastReceived # <<>> =>
        \/ queryQueue # <<>> /\ lastReceived = <<Last(queryQueue)>>
        \/ queryQueue = <<>> /\ owl # "loading" /\ lastReceived = <<query>>

OwlInv == OwlTypeOK /\ CacheInv /\ InferenceInv /\ BufferInv /\ LabelsNameWhatWasFound
===============================================================================
