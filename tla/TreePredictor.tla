----------------------------- MODULE TreePredictor -----------------------------
(***************************************************************************)
(* nanoowl/tree_predictor.py: TreePredictor.predict walks the labels of a  *)
(* tree from the image downwards.  For a label that has instances it runs  *)
(* the detect nodes under it, which find new instances inside the old      *)
(* ones, and the classify nodes, which hand each instance on to one of     *)
(* their labels.  At the end the instances of all labels are merged by id. *)
(*                                                                         *)
(* The detectors are abstract: OwlPredictor.decode returns, in the order   *)
(* of the regions, some detections (the region and the index of the text), *)
(* ClipPredictor.decode one index of a text per region.  A new detection   *)
(* has a box of its own, named like its instance.                          *)
(***************************************************************************)
EXTENDS Tree

CONSTANTS
    Trees,          \* the node lists of the trees to predict with
    MaxDetections,  \* bound on the detections of one node
    OwlMeshGrid     \* OwlPredictor.mesh_grid has been built

VARIABLES
    tree,         \* the nodes of the tree
    pc,           \* "pop", "nodes", "done" or "error" (an exception)
    queue,        \* queue
    current,      \* label_index
    work,         \* the detect_nodes and classify_nodes still to be decoded
    keys,         \* the keys of boxes, in the order of insertion
    boxes, instanceIds, parentInstanceIds,  \* label -> list, in parallel
    globalInstanceId,
    visited       \* history: the labels taken from the queue

predictVars == <<tree, pc, queue, current, work, keys, boxes, instanceIds, parentInstanceIds,
                 globalInstanceId, visited>>
buffers == <<keys, boxes, instanceIds, parentInstanceIds, globalInstanceId>>

LastLabel(ns) == Cardinality(UNION {Range(ns[k].outputs) : k \in DOMAIN ns})

(* encode_owl_text and encode_clip_text: the labels that have an encoding. *)
TextEncodings(ns, op) == LabelIndicesWithOp(ns, LastLabel(ns), op)

-------------------------------------------------------------------------------
(* predict starts with one instance, the image.                            *)
PredictInit ==
    /\ tree \in Trees
    /\ pc = "pop"
    /\ queue = <<0>>
    /\ current = 0
    /\ work = <<>>
    /\ keys = <<0>>
    /\ boxes = (0 :> <<0>>)
    /\ instanceIds = (0 :> <<0>>)
    /\ parentInstanceIds = (0 :> <<-1>>)
    /\ globalInstanceId = 1
    /\ visited = <<>>

(* encode_rois: extract_rois returns one value instead of two if there are *)
(* no regions, and reads the mesh grid to mask the padding.                *)
EncodeRoisRaises(op, label) == boxes[label] = <<>> \/ (op = DETECT /\ ~OwlMeshGrid)

(* A label is taken from the queue and its regions are encoded, for each   *)
(* kind of node it has.                                                    *)
PopLabel ==
    /\ pc = "pop"
    /\ queue # <<>>
    /\ LET label == Head(queue)
           detectNodes == FindNodesWithInput(tree, label, DETECT)
           classifyNodes == FindNodesWithInput(tree, label, CLASSIFY)
           raises == \/ detectNodes # <<>> /\ EncodeRoisRaises(DETECT, label)
                     \/ classifyNodes # <<>> /\ EncodeRoisRaises(CLASSIFY, label)
       IN  /\ current' = label
           /\ queue' = Tail(queue)
           /\ visited' = Append(visited, label)
           /\ work' = detectNodes \o classifyNodes
           /\ pc' = IF raises THEN "error" ELSE "nodes"
    /\ UNCHANGED <<tree, buffers>>

(* The elements of a list at which a mask is set.                          *)
Masked(list, Mask(_)) ==
    LET kept == SelectSeq([i \in DOMAIN list |-> i], Mask)
    IN  [n \in DOMAIN kept |-> list[kept[n]]]

(* Write one list per output of a node.                                    *)
Fill(buffer, node, List(_)) ==
    [label \in DOMAIN buffer \cup Range(node.outputs) |->
        IF label \in Range(node.outputs)
        THEN List(CHOOSE i \in DOMAIN node.outputs : node.outputs[i] = label)
        ELSE buffer[label]]

AddKeys(node) == keys \o SelectSeq(node.outputs, LAMBDA label : label \notin DOMAIN boxes)

(* What OwlPredictor.decode may return for a number of regions and texts.  *)
OwlOutputs(regions, texts) ==
    {out \in UNION {[1 .. n -> [region: 1 .. regions, text: 1 .. texts]] : n \in 0 .. MaxDetections} :
        \A i, j \in DOMAIN out : i < j => out[i].region <= out[j].region}

(* Mutant: the parent of a detection is numbered within its label.         *)
ParentsOf_Local(node, out) == [n \in DOMAIN out |-> out[n].region]

(* instance_ids[node.input][owl_node_output.input_indices].                *)
ParentsOf(node, out) == [n \in DOMAIN out |-> instanceIds[node.input][out[n].region]]

NextInstanceId(found) == globalInstanceId + found

(* One pass of the loop over detect_nodes.                                 *)
DecodeDetectNode ==
    /\ pc = "nodes" /\ work # <<>> /\ Head(work).op = DETECT
    /\ LET node == Head(work)
       IN  IF ~(Range(node.outputs) \subseteq TextEncodings(tree, DETECT))
           THEN pc' = "error" /\ UNCHANGED <<work, buffers>>   \* KeyError
           ELSE \E out \in OwlOutputs(Len(boxes[node.input]), Len(node.outputs)) :
                  LET ids == [n \in DOMAIN out |-> globalInstanceId + n - 1]
                      parents == ParentsOf(node, out)
                      Of(list, i) == Masked(list, LAMBDA n : out[n].text = i)
                  IN  /\ boxes' = Fill(boxes, node, LAMBDA i : Of(ids, i))
                      /\ instanceIds' = Fill(instanceIds, node, LAMBDA i : Of(ids, i))
                      /\ parentInstanceIds' = Fill(parentInstanceIds, node, LAMBDA i : Of(parents, i))
                      /\ globalInstanceId' = NextInstanceId(Len(out))
                      /\ keys' = AddKeys(node)
                      /\ work' = Tail(work)
                      /\ UNCHANGED pc
    /\ UNCHANGED <<tree, queue, current, visited>>

ClassifiedParents(node) == parentInstanceIds[node.input]

(* clip_node_output.labels == i.                                           *)
Chosen(best, i) == best = i

(* One pass of the loop over classify_nodes.                               *)
DecodeClassifyNode ==
    /\ pc = "nodes" /\ work # <<>> /\ Head(work).op = CLASSIFY
    /\ LET node == Head(work)
       IN  IF ~(Range(node.outputs) \subseteq TextEncodings(tree, CLASSIFY))
           THEN pc' = "error" /\ UNCHANGED <<work, buffers>>   \* KeyError
           ELSE \E out \in [DOMAIN boxes[node.input] -> DOMAIN node.outputs] :
                  LET Of(list, i) == Masked(list, LAMBDA n : Chosen(out[n], i))
                  IN  /\ boxes' = Fill(boxes, node, LAMBDA i : Of(boxes[current], i))
                      /\ instanceIds' = Fill(instanceIds, node, LAMBDA i : Of(instanceIds[node.input], i))
                      /\ parentInstanceIds' =
                            Fill(parentInstanceIds, node, LAMBDA i : Of(ClassifiedParents(node), i))
                      /\ keys' = AddKeys(node)
                      /\ work' = Tail(work)
                      /\ UNCHANGED <<pc, globalInstanceId>>
    /\ UNCHANGED <<tree, queue, current, visited>>

Worthwhile(label) == label \in DOMAIN boxes /\ boxes[label] # <<>>

(* The two last loops over the nodes of a label.                           *)
LabelsToQueue(label) ==
    SelectSeq(FlattenSeq([k \in 1 .. Len(FindNodesWithInput(tree, label, DETECT))
                             |-> FindNodesWithInput(tree, label, DETECT)[k].outputs])
              \o FlattenSeq([k \in 1 .. Len(FindNodesWithInput(tree, label, CLASSIFY))
                             |-> FindNodesWithInput(tree, label, CLASSIFY)[k].outputs]),
              Worthwhile)

QueueOutputs ==
    /\ pc = "nodes" /\ work = <<>>
    /\ queue' = queue \o LabelsToQueue(current)
    /\ pc' = "pop"
    /\ UNCHANGED <<tree, current, work, buffers, visited>>

(* The queue is empty: predict merges the instances and returns.           *)
FillOutputs ==
    /\ pc = "pop" /\ queue = <<>>
    /\ pc' = "done"
    /\ UNCHANGED <<tree, queue, current, work, buffers, visited>>

PredictNext == PopLabel \/ DecodeDetectNode \/ DecodeClassifyNode \/ QueueOutputs \/ FillOutputs

-------------------------------------------------------------------------------
(* The list of TreeDetections: for every id the labels it was seen under,  *)
(* in the order of the keys, with the box and the parent of the first.     *)
Instances == UNION {Range(instanceIds[label]) : label \in DOMAIN instanceIds}

Detections ==
    [id \in Instances |->
        LET found == SelectSeq(keys, LAMBDA label : id \in Range(instanceIds[label]))
            place == CHOOSE n \in DOMAIN instanceIds[found[1]] : instanceIds[found[1]][n] = id
        IN  [labels |-> found, box |-> boxes[found[1]][place],
             parent |-> parentInstanceIds[found[1]][place]]]

PredictTypeOK ==
    /\ pc \in {"pop", "nodes", "done", "error"}
    /\ queue \in Seq(0 .. LastLabel(tree))
    /\ work \in Seq(Range(tree))
    /\ DOMAIN boxes = Range(keys) /\ IsInjective(keys)
    /\ DOMAIN instanceIds = Range(keys) /\ DOMAIN parentInstanceIds = Range(keys)
    /\ globalInstanceId \in Nat

(* The masks cut the parallel lists of a label in the same places: an      *)
(* instance has the same box and the same parent under every label it was  *)
(* given, so that taking them from the first loses nothing, and no two     *)
(* instances have the same id.                                             *)
InstancesStayTogether ==
    \A a, b \in DOMAIN boxes :
        /\ Len(boxes[a]) = Len(instanceIds[a]) /\ Len(boxes[a]) = Len(parentInstanceIds[a])
        /\ \A i \in DOMAIN boxes[a], j \in DOMAIN boxes[b] :
              instanceIds[a][i] = instanceIds[b][j] =>
                  /\ boxes[a][i] = boxes[b][j]
                  /\ parentInstanceIds[a][i] = parentInstanceIds[b][j]
                  /\ a = b => i = j

(* Every detection of the output is explained by the tree: it was found by *)
(* a detect node in an instance of the node's input label, which is its    *)
(* parent and in the output itself, and its other labels were each given   *)
(* by a classify node under one of its earlier labels.                     *)
OutputExplained ==
    pc = "done" =>
        \A id \in DOMAIN Detections \ {0} :
            LET d == Detections[id]
                Producer(label) == tree[CHOOSE k \in Producers(tree, label) : TRUE]
            IN  /\ Producer(d.labels[1]).op = DETECT
                /\ d.parent \in DOMAIN Detections
                /\ Producer(d.labels[1]).input \in Range(Detections[d.parent].labels)
                /\ \A n \in 2 .. Len(d.labels) :
                      /\ Producer(d.labels[n]).op = CLASSIFY
                      /\ \E e \in 1 .. n - 1 : d.labels[e] = Producer(d.labels[n]).input

(* A classify node decides: an instance under its input label ends with    *)
(* exactly one of its labels.                                              *)
ClassifiedOnce ==
    pc = "done" =>
        \A k \in DOMAIN tree : \A id \in DOMAIN Detections :
            tree[k].op = CLASSIFY /\ tree[k].input \in Range(Detections[id].labels) =>
                Cardinality(Range(tree[k].outputs) \cap Range(Detections[id].labels)) = 1

(* predict never raises: no region list handed to an encoder is empty and  *)
(* every text encoding it looks up exists.                                 *)
NeverRaises == pc # "error"

(* No label is taken from the queue twice, and none before its parent.     *)
VisitedOnce ==
    /\ IsInjective(visited)
    /\ \A n \in DOMAIN visited : visited[n] # 0 =>
          \E e \in 1 .. n - 1 : \E k \in Producers(tree, visited[n]) : tree[k].input = visited[e]

(* What predict promises of its detections, with the types.                *)
PredictionsExplained ==
    /\ PredictTypeOK /\ InstancesStayTogether /\ OutputExplained
    /\ ClassifiedOnce /\ NeverRaises /\ VisitedOnce
===============================================================================
