------------------------------ MODULE PromptTree ------------------------------
(***************************************************************************)
(* nanoowl/tree.py: Tree.from_prompt reads a prompt such as                *)
(* "[an owl [a wing, an eye]](indoors, outdoors)" one character at a time  *)
(* and builds a tree of detect nodes, "[...]", and classify nodes,         *)
(* "(...)".  Label 0 is the whole image; every "[", "(" and "," starts a   *)
(* new label, and the nodes opened inside a label take it as their input.  *)
(*                                                                         *)
(* The parser is the state machine.  A tree may then be written as JSON    *)
(* and read back (to_json, from_json).                                     *)
(***************************************************************************)
EXTENDS Tree

CONSTANTS
    Chars,      \* the characters of labels, the blank " " among them
    MaxPrompt   \* bound on the length of a prompt

VARIABLES
    parse,            \* "reading", "done" or "error" (an exception)
    prompt,           \* history: the characters read
    nodes,            \* the list of TreeNodes
    nodeStack,        \* node_stack, as positions in nodes
    labelIndexStack,  \* label_index_stack
    labels,           \* labels, a function on 0 .. labelIndex
    labelIndex,       \* label_index
    reloaded          \* the tree went through to_json and from_json

treeVars == <<parse, prompt, nodes, nodeStack, labelIndexStack, labels, labelIndex, reloaded>>
stacks == <<nodes, nodeStack, labelIndexStack, labels, labelIndex>>

Openers == {"[", "("}
Closers == {"]", ")"}
OpenedBy(ch) == IF ch = "[" THEN DETECT ELSE CLASSIFY
ClosedBy(ch) == IF ch = "]" THEN DETECT ELSE CLASSIFY

ASSUME CharsAssumption == Chars \cap (Openers \cup Closers \cup {","}) = {}

-------------------------------------------------------------------------------
(* str.strip.                                                              *)
Strip(text) ==
    LET solid == {i \in DOMAIN text : text[i] # " "}
    IN  IF solid = {} THEN <<>>
        ELSE SubSeq(text, CHOOSE i \in solid : \A j \in solid : i <= j,
                          CHOOSE i \in solid : \A j \in solid : i >= j)

-------------------------------------------------------------------------------
(* Tree.from_prompt.                                                       *)

Init ==
    /\ parse = "reading"
    /\ prompt = <<>>
    /\ nodes = <<>>
    /\ nodeStack = <<>>
    /\ labelIndexStack = <<0>>
    /\ labels = [label \in {0} |-> <<"image">>]
    /\ labelIndex = 0
    /\ reloaded = FALSE

(* An exception: everything local to from_prompt is lost.                  *)
Raise ==
    /\ parse' = "error"
    /\ UNCHANGED stacks

(* labels.append("").                                                      *)
WithNewLabel == [label \in 0 .. labelIndex + 1 |-> IF label = labelIndex + 1 THEN <<>> ELSE labels[label]]

(* Mutant: a node takes the last label that was started as its input.      *)
InputOfNewNode_LastStarted == labelIndex

InputOfNewNode == Last(labelIndexStack)

(* "[" and "(" open a node inside the current label.                       *)
Open(ch) ==
    /\ ch \in Openers
    /\ labelIndex' = labelIndex + 1
    /\ nodes' = Append(nodes, [op |-> OpenedBy(ch),
                               input |-> InputOfNewNode,
                               outputs |-> <<labelIndex + 1>>])
    /\ nodeStack' = Append(nodeStack, Len(nodes) + 1)
    /\ labelIndexStack' = Append(labelIndexStack, labelIndex + 1)
    /\ labels' = WithNewLabel
    /\ UNCHANGED parse

Closable(ch) == nodeStack # <<>> /\ nodes[Last(nodeStack)].op = ClosedBy(ch)

(* "]" and ")" close the innermost node, of their own kind.                *)
Close(ch) ==
    /\ ch \in Closers
    /\ IF Closable(ch)
       THEN /\ nodeStack' = Front(nodeStack)
            /\ labelIndexStack' = Front(labelIndexStack)
            /\ UNCHANGED <<parse, nodes, labels, labelIndex>>
       ELSE Raise

LabelStackAtComma == Append(Front(labelIndexStack), labelIndex + 1)

(* "," starts the next label of the innermost node; outside every node     *)
(* node_stack[-1] is an IndexError.                                        *)
Comma(ch) ==
    /\ ch = ","
    /\ IF nodeStack = <<>>
       THEN Raise
       ELSE /\ labelIndex' = labelIndex + 1
            /\ labelIndexStack' = LabelStackAtComma
            /\ nodes' = [nodes EXCEPT ![Last(nodeStack)].outputs = Append(@, labelIndex + 1)]
            /\ labels' = WithNewLabel
            /\ UNCHANGED <<parse, nodeStack>>

(* Any other character belongs to the current label, also outside every    *)
(* node, where it is appended to the label "image".                        *)
Text(ch) ==
    /\ ch \in Chars
    /\ labels' = [labels EXCEPT ![Last(labelIndexStack)] = Append(@, ch)]
    /\ UNCHANGED <<parse, nodes, nodeStack, labelIndexStack, labelIndex>>

ReadCharacter(ch) ==
    /\ parse = "reading"
    /\ Len(prompt) < MaxPrompt
    /\ prompt' = Append(prompt, ch)
    /\ Open(ch) \/ Close(ch) \/ Comma(ch) \/ Text(ch)
    /\ UNCHANGED reloaded

MayEnd == nodeStack = <<>>

(* The end of the prompt: the constructor of Tree builds its label map.    *)
Finish ==
    /\ parse = "reading"
    /\ IF MayEnd /\ NoDuplicateOutput(nodes)
       THEN /\ parse' = "done"
            /\ labels' = [l \in DOMAIN labels |-> Strip(labels[l])]
            /\ UNCHANGED <<nodes, nodeStack, labelIndexStack, labelIndex>>
       ELSE Raise
    /\ UNCHANGED <<prompt, reloaded>>

(* to_json writes an op as its string, str(self.op); from_json hands the   *)
(* string to TreeNode unchanged and builds the label map again.            *)
Reload ==
    /\ parse = "done"
    /\ ~reloaded
    /\ reloaded' = TRUE
    /\ nodes' = [k \in DOMAIN nodes |-> [nodes[k] EXCEPT !.op = OpString(nodes[k].op.value)]]
    /\ parse' = IF NoDuplicateOutput(nodes') THEN "done" ELSE "error"
    /\ UNCHANGED <<prompt, nodeStack, labelIndexStack, labels, labelIndex>>

(* The reader may stop using the tree, or go on with the next character.   *)
Next ==
    \/ \E ch \in Openers \cup Closers \cup {","} \cup Chars : ReadCharacter(ch)
    \/ Finish
    \/ Reload

Spec == Init /\ [][Next]_treeVars

-------------------------------------------------------------------------------
(* What a prompt means, without a stack.                                   *)

Count(p, i, set) == Cardinality({j \in 1 .. i : p[j] \in set})
Depth(p, i) == Count(p, i, Openers) - Count(p, i, Closers)

(* The bracket at j is closed by the one at i.                             *)
Matches(p, j, i) ==
    /\ j < i
    /\ p[j] \in Openers /\ p[i] \in Closers
    /\ Depth(p, j - 1) = Depth(p, i)
    /\ \A k \in j .. i - 1 : Depth(p, k) > Depth(p, i)

(* Every bracket has a partner of its own kind, and commas stand inside.   *)
Nested(p) ==
    /\ \A i \in DOMAIN p : p[i] \in Closers =>
          \E j \in DOMAIN p : Matches(p, j, i) /\ OpenedBy(p[j]) = ClosedBy(p[i])
    /\ \A j \in DOMAIN p : p[j] \in Openers => \E i \in DOMAIN p : Matches(p, j, i)
    /\ \A i \in DOMAIN p : p[i] = "," => Depth(p, i) > 0

(* The number of the item that position i stands in, 0 for the image.      *)
ItemNumber(p, i) ==
    LET starts == {j \in 1 .. i - 1 :
                      /\ p[j] \in Openers \cup {","}
                      /\ Depth(p, j) = Depth(p, i - 1)
                      /\ \A k \in j .. i - 1 : Depth(p, k) >= Depth(p, j)}
    IN  IF starts = {} THEN 0
        ELSE Count(p, CHOOSE j \in starts : \A k \in starts : k <= j, Openers \cup {","})

(* The positions, in order, at which something holds.                      *)
Positions(p, Holds(_)) == SelectSeq([i \in DOMAIN p |-> i], Holds)

(* The items of the bracket at position b.                                 *)
ItemsOf(p, b) ==
    Positions(p, LAMBDA i :
        \/ i = b
        \/ /\ p[i] = "," /\ i > b
           /\ Depth(p, i) = Depth(p, b)
           /\ \A k \in b .. i : Depth(p, k) >= Depth(p, b))

MeaningOfNodes(p) ==
    LET opened == Positions(p, LAMBDA i : p[i] \in Openers)
    IN  [k \in DOMAIN opened |->
            [op |-> OpenedBy(p[opened[k]]),
             input |-> ItemNumber(p, opened[k]),
             outputs |-> LET items == ItemsOf(p, opened[k])
                         IN  [n \in DOMAIN items |-> Count(p, items[n], Openers \cup {","})]]]

MeaningOfLabels(p) ==
    [label \in 0 .. Count(p, Len(p), Openers \cup {","}) |->
        LET text == Positions(p, LAMBDA i : p[i] \in Chars /\ ItemNumber(p, i) = label)
        IN  Strip((IF label = 0 THEN <<"image">> ELSE <<>>) \o [n \in DOMAIN text |-> p[text[n]]])]

-------------------------------------------------------------------------------
NodeType == [op: [enum: BOOLEAN, value: {"detect", "classify"}], input: Nat, outputs: Seq(Nat)]

TreeTypeOK ==
    /\ parse \in {"reading", "done", "error"}
    /\ nodes \in Seq(NodeType)
    /\ nodeStack \in Seq(DOMAIN nodes)
    /\ labelIndex \in Nat
    /\ labelIndexStack \in Seq(0 .. labelIndex)
    /\ Len(labelIndexStack) = Len(nodeStack) + 1
    /\ DOMAIN labels = 0 .. labelIndex
    /\ reloaded \in BOOLEAN

(* from_prompt accepts a prompt exactly if its brackets are nested, each   *)
(* closed by its own kind, and its commas stand inside brackets; the       *)
(* duplicate-label check of the constructor never rejects one.             *)
AcceptsExactlyNested ==
    /\ (parse = "done" => Nested(prompt))
    /\ (parse = "reading" /\ Nested(prompt) => nodeStack = <<>> /\ NoDuplicateOutput(nodes))
    /\ (parse = "error" => ~Nested(prompt))

(* The stack machine of from_prompt builds what the prompt means: a node   *)
(* for every bracket, in order, whose input is the item around it and      *)
(* whose outputs are its own items, each with the text written in it.      *)
ParsedAsMeant ==
    parse = "done" /\ ~reloaded =>
        /\ nodes = MeaningOfNodes(prompt)
        /\ labels = MeaningOfLabels(prompt)

(* Going from a label to the input of its node ends at the image, after as *)
(* many steps as brackets are open where the label starts, so that         *)
(* get_label_depth terminates and is the depth of the nesting.             *)
DepthIsNesting ==
    parse = "done" =>
        LET starts == Positions(prompt, LAMBDA i : prompt[i] \in Openers \cup {","})
        IN  \A label \in 1 .. labelIndex :
               LabelDepth(nodes, labelIndex)[label] = Depth(prompt, starts[label])

(* Every label but the image is produced by one node, which comes after    *)
(* the node that produces its input: encode_clip_text and encode_owl_text  *)
(* together encode each of them once, and predict meets a label only after *)
(* its parent.  This holds at every point of the parse.                    *)
LabelsFormATree ==
    /\ NoDuplicateOutput(nodes)
    /\ \A label \in 1 .. labelIndex : Cardinality(Producers(nodes, label)) = 1
    /\ Producers(nodes, 0) = {}
    /\ \A k \in DOMAIN nodes : \A n \in DOMAIN nodes[k].outputs :
          nodes[k].input < nodes[k].outputs[n]

(* from_prompt understands its prompts: what it accepts, and the tree it   *)
(* builds, with the types.                                                 *)
PromptUnderstood ==
    TreeTypeOK /\ AcceptsExactlyNested /\ ParsedAsMeant /\ DepthIsNesting /\ LabelsFormATree
===============================================================================
