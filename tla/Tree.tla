--------------------------------- MODULE Tree ---------------------------------
(***************************************************************************)
(* nanoowl/tree.py: the nodes of a tree and the lookups of class Tree.  A  *)
(* node is [op, input, outputs], input and outputs being indices of        *)
(* labels, and a tree is the list of its nodes.                            *)
(***************************************************************************)
EXTENDS Integers, Sequences, FiniteSets, SequencesExt

(* A member of TreeOp, and the plain string it is written as.              *)
TreeOp(value) == [enum |-> TRUE, value |-> value]
OpString(value) == [enum |-> FALSE, value |-> value]
DETECT == TreeOp("detect")
CLASSIFY == TreeOp("classify")

(* The nodes that have a label among their outputs.                        *)
Producers(ns, label) == {k \in DOMAIN ns : label \in Range(ns[k].outputs)}

(* _build_label_index_to_node_map does not raise "Duplicate output label". *)
NoDuplicateOutput(ns) ==
    /\ \A k \in DOMAIN ns : IsInjective(ns[k].outputs)
    /\ \A k, j \in DOMAIN ns :
          k # j => Range(ns[k].outputs) \cap Range(ns[j].outputs) = {}

(* get_label_indices_with_op: the labels that a node with this op produces. *)
LabelIndicesWithOp(ns, last, op) ==
    {label \in 0 .. last : \E k \in Producers(ns, label) : ns[k].op = op}

(* find_detect_nodes_with_input and find_classify_nodes_with_input.        *)
FindNodesWithInput(ns, input, op) ==
    SelectSeq(ns, LAMBDA n : n.input = input /\ n.op = op)

(* get_label_depth: how often one can go from a label to the input of the  *)
(* node that produces it.                                                  *)
LabelDepth(ns, last) ==
    LET depth[label \in 0 .. last] ==
            IF Producers(ns, label) = {} THEN 0
            ELSE 1 + depth[ns[CHOOSE k \in Producers(ns, label) : TRUE].input]
    IN  depth
===============================================================================
