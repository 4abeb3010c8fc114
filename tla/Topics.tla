-------------------------------- MODULE Topics --------------------------------
(***************************************************************************)
(* What the nodes of the car exchange: object labels, label lists and      *)
(* detection messages, and the topics that carry them.                     *)
(*                                                                         *)
(* A label is the sequence of its words: case, runs of blanks and the      *)
(* underscores that normalize_label turns into blanks are abstracted away, *)
(* the leading article it removes is not.  A query is the sequence of the  *)
(* comma-separated items of a query string; an item that is blank is <<>>. *)
(*                                                                         *)
(* A detection message (/yolo/detections) is the sequence of its           *)
(* ';'-separated entries.  The message 'no detections' is <<>>.            *)
(***************************************************************************)
EXTENDS Sequences, Integers

Articles == {"a", "an", "the"}

(* Mutant: articles are kept.                                              *)
NormalizeLabel_Verbatim(label) == label

(* One leading article is dropped when something follows it; "a" alone and *)
(* the second article of "a the car" stay.                                 *)
NormalizeLabel(label) ==
    IF Len(label) > 1 /\ Head(label) \in Articles THEN Tail(label) ELSE label

(* parse_label_list and parse_label_set: the non-blank items, normalised.  *)
(* Both results are only used as sets.                                     *)
ParseLabelSet(query) ==
    {NormalizeLabel(query[i]) : i \in DOMAIN query} \ {<<>>}

(* The non-blank items of a query in their order, as they are written,     *)
(* articles included (_update_query_cache).                                *)
NonBlank(query) ==
    LET texts[k \in 0..Len(query)] ==
            IF k = 0 THEN <<>>
            ELSE IF query[k] = <<>> THEN texts[k - 1] ELSE Append(texts[k - 1], query[k])
    IN  texts[Len(query)]

(* The confidence, box or depth of an entry that does not parse.           *)
Unparsable == -1

(* The sum of a sequence of numbers.                                       *)
SumOf(values) ==
    LET sum[k \in 0..Len(values)] == IF k = 0 THEN 0 ELSE sum[k - 1] + values[k]
    IN  sum[Len(values)]

-------------------------------------------------------------------------------
(* ROS 2 topics, as the nodes use them (external: rclpy and the DDS layer, *)
(* modelled from the arguments of create_publisher and                     *)
(* create_subscription).  All topics of the car are volatile and keep the  *)
(* last `depth` samples: a subscription buffers what is published after it *)
(* has been discovered, in order, and drops the oldest samples when full.  *)
KeepLast(samples, depth) ==
    IF Len(samples) > depth THEN SubSeq(samples, Len(samples) - depth + 1, Len(samples)) ELSE samples

(* A buffer after the samples of `sent` are published in turn.  Nothing is *)
(* kept for a subscription that has not been discovered yet.               *)
Deliver(queue, sent, linked, depth) ==
    IF linked THEN KeepLast(queue \o sent, depth) ELSE queue
===============================================================================
