------------------------------ MODULE MCNanoOwl ------------------------------
(***************************************************************************)
(* The nanoowl package: the parser of prompts, the predictor that walks a  *)
(* tree, the OWL predictor under it and the server of the tree demo.  They *)
(* call each other one level at a time, and each specification takes the   *)
(* results of the level below as arbitrary, so that each behaviour is one  *)
(* of one part, the others resting in an initial state.  The demo has two  *)
(* browsers and three prompts.                                             *)
(***************************************************************************)
EXTENDS PromptTree, TreeDemo

CONSTANTS
    Parts,         \* the parts that are explored
    OwlMeshGrid    \* OwlPredictor.mesh_grid has been built

VARIABLES
    part,
    \* TreePredictor
    tree, pc, queue, current, work, keys, boxes, instanceIds, parentInstanceIds,
    globalInstanceId, visited,
    \* OwlPredictor, whose pc is owlPc
    owlPc, engine, device, maxBatch, meshGrid, boxBias, padSquare, rois, squares, batches,
    encodings, scores, thresholds, detections

predictVars == <<tree, pc, queue, current, work, keys, boxes, instanceIds, parentInstanceIds,
                 globalInstanceId, visited>>
owlPredictorVars == <<owlPc, engine, device, maxBatch, meshGrid, boxBias, padSquare, rois, squares,
                      batches, encodings, scores, thresholds, detections>>

DetectNode(input, outputs) == [op |-> DETECT, input |-> input, outputs |-> outputs]
ClassifyNode(input, outputs) == [op |-> CLASSIFY, input |-> input, outputs |-> outputs]

(* The trees of "[a [b, c]]", the form of the README's first prompt, of    *)
(* "[a [b, c (d, e)]]", of "(a (b, c), d [e])" and of "[a (b, c [d])] (e)".*)
ReadmeTree == <<DetectNode(0, <<1>>), DetectNode(1, <<2, 3>>)>>
MCTrees ==
    { ReadmeTree,
      <<DetectNode(0, <<1>>), DetectNode(1, <<2, 3>>), ClassifyNode(3, <<4, 5>>)>>,
      <<ClassifyNode(0, <<1, 4>>), ClassifyNode(1, <<2, 3>>), DetectNode(4, <<5>>)>>,
      <<DetectNode(0, <<1>>), ClassifyNode(1, <<2, 3>>), DetectNode(3, <<4>>), ClassifyNode(0, <<5>>)>> }

Predictor == INSTANCE TreePredictor WITH Trees <- MCTrees, MaxDetections <- 3

(* A wide and a tall region, an encoder of five pixels with two patches,   *)
(* two texts, a tie among the scores, and threshold lists of every length  *)
(* up to three.                                                            *)
Owl == INSTANCE OwlPredictor WITH
    Rois <- { <<0, 0, 3, 2>>, <<1, 0, 2, 4>> }, MaxRois <- 3, BatchSizes <- {1, 2},
    ImageSize <- 5, NumPatches <- 2, ScoreRows <- { <<0, 1>>, <<1, 0>>, <<1, 1>> },
    Thresholds <- { <<>>, <<1>>, <<0, 1>>, <<1, 0, 0>> }, pc <- owlPc

mcVars == <<treeVars, predictVars, owlPredictorVars, demoVars, part>>

MCInit ==
    /\ Init /\ Predictor!PredictInit /\ Owl!Init /\ DemoInit
    /\ part \in Parts
    /\ part # "predictor" => tree = ReadmeTree
    /\ part # "owl" => ~engine /\ device = "cpu" /\ maxBatch = 1

MCNext ==
    \/ part = "prompt" /\ Next /\ UNCHANGED <<predictVars, owlPredictorVars, demoVars, part>>
    \/ part = "predictor" /\ Predictor!PredictNext
         /\ UNCHANGED <<treeVars, owlPredictorVars, demoVars, part>>
    \/ part = "owl" /\ Owl!Next /\ UNCHANGED <<treeVars, predictVars, demoVars, part>>
    \/ part = "demo" /\ DemoNext /\ UNCHANGED <<treeVars, predictVars, owlPredictorVars, part>>

MCSpec == MCInit /\ [][MCNext]_mcVars

(* The demo's own fairness; part never changes.                            *)
DemoStep(A) ==
    part = "demo" /\ A /\ UNCHANGED <<treeVars, predictVars, owlPredictorVars, part>>

MCLiveSpec ==
    /\ MCSpec
    /\ WF_mcVars(DemoStep(\E ok \in BOOLEAN : ReadCamera(ok)))
    /\ WF_mcVars(DemoStep(Executor)) /\ WF_mcVars(DemoStep(LoopStep))
    /\ WF_mcVars(DemoStep(SendDone))

(* Every detection of predict is explained by its parent and its label     *)
(* (TreePredictor).                                                        *)
PredictionsExplained == Predictor!PredictionsExplained

(* README: a tree is predicted with an image encoder engine; predict never *)
(* raises (TreePredictor).                                                 *)
NeverRaises == Predictor!NeverRaises

(* Regions pass through mask, batches, decoding and back unharmed          *)
(* (OwlPredictor).                                                         *)
RegionsComeBack == Owl!RegionsComeBack
===============================================================================
