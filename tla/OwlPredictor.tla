----------------------------- MODULE OwlPredictor -----------------------------
(***************************************************************************)
(* nanoowl/owl_predictor.py: one predictor is built, with or without a     *)
(* TensorRT engine for the image encoder, and then asked for regions: it   *)
(* cuts the regions out of the image, encodes them, in batches if there is *)
(* an engine, and decodes the encodings into detections.                   *)
(*                                                                         *)
(* A region is its four coordinates; the half widths and centres that the  *)
(* code divides by two are kept in half pixels.  The networks are          *)
(* abstract: the encoding of region k is the number k, and the scores of   *)
(* its patches for the texts are any scores.                               *)
(***************************************************************************)
EXTENDS Integers, Sequences, FiniteSets, SequencesExt

CONSTANTS
    Rois,           \* regions <<x0, y0, x1, y1>> a caller may ask for
    MaxRois,        \* bound on the regions of a call
    BatchSizes,     \* image_encoder_engine_max_batch_size
    ImageSize,      \* image_size, the side of the encoder's input
    NumPatches,     \* num_patches
    ScoreRows,      \* the scores of a patch for the texts
    Thresholds      \* the lists of thresholds a caller may pass

VARIABLES
    pc,           \* "constructed", "extracted", "encoded", "done" or "error"
    engine,       \* image_encoder_engine is not None
    device,       \* device.type
    maxBatch,     \* max_batch_size of the engine's wrapper
    meshGrid,     \* mesh_grid is not None
    boxBias,      \* box_bias is not None
    padSquare,    \* the argument pad_square of the call
    rois,         \* the regions of the call
    squares,      \* the regions that were cut out
    batches,      \* the batches the engine has run, as lists of regions
    encodings,    \* the regions whose encodings were returned, in order
    scores,       \* scores[region][patch][text]
    thresholds,   \* the argument threshold, as a list
    detections    \* the result of decode

owlPredictorVars == <<pc, engine, device, maxBatch, meshGrid, boxBias, padSquare, rois, squares,
                      batches, encodings, scores, thresholds, detections>>
built == <<engine, device, maxBatch, meshGrid, boxBias>>

-------------------------------------------------------------------------------
(* Geometry, in half pixels.                                               *)

HalfWidth(roi) == roi[3] - roi[1]
HalfHeight(roi) == roi[4] - roi[2]
Larger(a, b) == IF a >= b THEN a ELSE b
HalfSide(roi) == Larger(HalfWidth(roi), HalfHeight(roi))

(* The square around the centre of a region, as extract_rois pads it with  *)
(* padding_scale 1.                                                        *)
Square(roi) ==
    LET cx == roi[1] + roi[3]
        cy == roi[2] + roi[4]
        s == HalfSide(roi)
    IN  <<cx - s, cy - s, cx + s, cy + s>>

(* Pixel j of linspace(0, 1, image_size) lies between pad = (s - w) / (2 s) *)
(* and 1 - pad; for s = 0 the padding is NaN and nothing does.             *)
InMask(s, w, j) ==
    /\ s # 0
    /\ 2 * s * j > (s - w) * (ImageSize - 1)
    /\ 2 * s * (ImageSize - 1 - j) > (s - w) * (ImageSize - 1)

(* Mutant: boxes are scaled by the region before it was padded.            *)
BoxRoiToBoxGlobal_Unpadded(square, roi, j) ==
    2 * roi[1] * (ImageSize - 1) + j * 2 * (roi[3] - roi[1])

(* _owl_box_roi_to_box_global for an abscissa j / (image_size - 1) of a    *)
(* box; the result is scaled by image_size - 1 (half pixels).              *)
BoxRoiToBoxGlobal(square, roi, j) ==
    square[1] * (ImageSize - 1) + j * (square[3] - square[1])

-------------------------------------------------------------------------------
(* The constructor.  With an engine on a GPU the parts that only the torch *)
(* encoder and the padding need are not built; on a CPU the engine is      *)
(* loaded all the same.                                                    *)
UseTrtImageEncoder(withEngine, dev) == withEngine /\ dev = "cuda"

Init ==
    /\ pc = "constructed"
    /\ engine \in BOOLEAN /\ device \in {"cuda", "cpu"} /\ maxBatch \in BatchSizes
    /\ meshGrid = ~UseTrtImageEncoder(engine, device)
    /\ boxBias = ~UseTrtImageEncoder(engine, device)
    /\ padSquare = FALSE
    /\ rois = <<>> /\ squares = <<>> /\ batches = <<>> /\ encodings = <<>>
    /\ scores = <<>> /\ thresholds = <<>> /\ detections = <<>>

(* extract_rois: without regions it returns one value where encode_rois    *)
(* unpacks two, and the mask needs the mesh grid.                          *)
ExtractRois(regions, pad) ==
    /\ pc = "constructed"
    /\ rois' = regions
    /\ padSquare' = pad
    /\ squares' = [k \in DOMAIN regions |->
                      IF pad THEN Square(regions[k]) ELSE [c \in 1 .. 4 |-> 2 * regions[k][c]]]
    /\ pc' = IF regions = <<>> \/ (pad /\ ~meshGrid) THEN "error" ELSE "extracted"
    /\ UNCHANGED <<built, batches, encodings, scores, thresholds, detections>>

BatchEnd(start) == IF Len(rois) <= start + maxBatch THEN Len(rois) ELSE start + maxBatch

BatchStart == Len(batches) * maxBatch

(* One pass of the loop in Wrapper.forward.                                *)
RunEngine ==
    /\ pc = "extracted" /\ engine
    /\ LET start == BatchStart
       IN  IF start < Len(rois)
           THEN /\ batches' = Append(batches, [k \in 1 .. BatchEnd(start) - start |-> start + k])
                /\ UNCHANGED <<pc, encodings>>
           ELSE /\ encodings' = FlattenSeq(batches)
                /\ pc' = "encoded"
                /\ UNCHANGED batches
    /\ UNCHANGED <<built, padSquare, rois, squares, scores, thresholds, detections>>

(* encode_image_torch: it adds the box bias to the predicted boxes.        *)
EncodeImageTorch ==
    /\ pc = "extracted" /\ ~engine
    /\ IF boxBias
       THEN pc' = "encoded" /\ encodings' = [k \in DOMAIN rois |-> k]
       ELSE pc' = "error" /\ UNCHANGED encodings
    /\ UNCHANGED <<built, padSquare, rois, squares, batches, scores, thresholds, detections>>

(* export_image_encoder_onnx and build_image_encoder_engine trace          *)
(* encode_image_torch, also on a predictor that has an engine.             *)
ExportImageEncoder ==
    /\ pc = "constructed"
    /\ pc' = IF boxBias THEN "constructed" ELSE "error"
    /\ UNCHANGED <<built, padSquare, rois, squares, batches, encodings, scores, thresholds, detections>>

(* scores_sigmoid.max(dim=-1): the first of the best texts.                *)
BestText(row) ==
    CHOOSE t \in DOMAIN row : /\ \A u \in DOMAIN row : row[u] <= row[t]
                              /\ \A u \in 1 .. t - 1 : row[u] < row[t]

(* label_mask and score_mask for threshold i.                              *)
MaskOf(i, label, score) == label = i /\ score > thresholds'[i]

(* decode: the mask of the patches is the disjunction of one mask per      *)
(* threshold, so that masks[0] must exist; masked tensors come in the      *)
(* order of regions, then patches, and input_indices repeats the number of *)
(* a region for each of its patches.                                       *)
Decode ==
    /\ pc = "encoded"
    /\ \E sc \in [DOMAIN rois -> [1 .. NumPatches -> ScoreRows]], th \in Thresholds :
          /\ scores' = sc
          /\ thresholds' = th
          /\ IF th = <<>>
             THEN pc' = "error" /\ UNCHANGED detections
             ELSE LET flat == [n \in 1 .. Len(rois) * NumPatches |->
                                  LET k == 1 + ((n - 1) \div NumPatches)
                                      patch == 1 + ((n - 1) % NumPatches)
                                      best == BestText(sc[k][patch])
                                  IN  [input |-> encodings[k], patch |-> patch,
                                       label |-> best, score |-> sc[k][patch][best]]]
                  IN  /\ detections' = SelectSeq(flat, LAMBDA d :
                                          \E i \in DOMAIN th : MaskOf(i, d.label, d.score))
                      /\ pc' = "done"
    /\ UNCHANGED <<built, padSquare, rois, squares, batches, encodings>>

Next ==
    \/ \E n \in 0 .. MaxRois : \E regions \in [1 .. n -> Rois], pad \in BOOLEAN : ExtractRois(regions, pad)
    \/ RunEngine
    \/ EncodeImageTorch
    \/ ExportImageEncoder
    \/ Decode

Spec == Init /\ [][Next]_owlPredictorVars

-------------------------------------------------------------------------------
TypeOK ==
    /\ pc \in {"constructed", "extracted", "encoded", "done", "error"}
    /\ engine \in BOOLEAN /\ meshGrid \in BOOLEAN /\ boxBias \in BOOLEAN /\ padSquare \in BOOLEAN
    /\ rois \in Seq(Rois) /\ Len(squares) = Len(rois)
    /\ \A b \in DOMAIN batches : batches[b] \in Seq(DOMAIN rois) /\ Len(batches[b]) \in 1 .. maxBatch
    /\ encodings \in Seq(DOMAIN rois)

(* A call fails only for an empty list of regions or of thresholds, for an *)
(* export from a predictor with an engine, or because padding was asked of *)
(* a predictor with an engine: what nano_owl_py and owl_predict.py do      *)
(* (pad_square=False) is always answered.                                  *)
FailsOnlyAsKnown ==
    pc = "error" =>
        \/ rois = <<>>
        \/ encodings # <<>> /\ thresholds = <<>>
        \/ padSquare /\ UseTrtImageEncoder(engine, device)

(* However the regions are cut into batches, the engine's wrapper returns  *)
(* the encodings of all regions, once each and in order.                   *)
BatchesKeepOrder ==
    pc \in {"encoded", "done"} => encodings = [k \in DOMAIN rois |-> k]

(* A patch is a detection exactly if the text it fits best has a threshold *)
(* and its score is above it; no other text of the patch is considered.    *)
(* The detections come in the order of the regions, which are their        *)
(* input_indices.                                                          *)
DecodedByOwnThreshold ==
    pc = "done" =>
        /\ \A k \in DOMAIN rois, p \in 1 .. NumPatches :
              LET best == BestText(scores[k][p])
              IN  (\E n \in DOMAIN detections : detections[n].input = k /\ detections[n].patch = p)
                     <=> best \in DOMAIN thresholds /\ scores[k][p][best] > thresholds[best]
        /\ \A n \in DOMAIN detections :
              LET d == detections[n]
              IN  /\ d.score = scores[d.input][d.patch][d.label]
                  /\ \A t \in 1 .. d.label - 1 : scores[d.input][d.patch][t] < d.score
        /\ \A n, m \in DOMAIN detections : n < m => detections[n].input <= detections[m].input

(* The mask of a padded region keeps the pixels that show the region, and  *)
(* no pixel of the padding: pixel j of a row shows the abscissa            *)
(* x0 + j (x1 - x0) / (image_size - 1) of the square.                      *)
MaskKeepsTheRegion ==
    padSquare /\ pc \in {"extracted", "encoded", "done"} =>
        \A k \in DOMAIN rois : \A j \in 0 .. ImageSize - 1 :
            LET shown == squares[k][1] * (ImageSize - 1) + j * (squares[k][3] - squares[k][1])
            IN  HalfSide(rois[k]) # 0 =>
                   (InMask(HalfSide(rois[k]), HalfWidth(rois[k]), j)
                        <=> /\ 2 * rois[k][1] * (ImageSize - 1) < shown
                            /\ shown < 2 * rois[k][3] * (ImageSize - 1))

(* Boxes come back in the coordinates of the image: a box around pixel j   *)
(* of the crop is reported where that pixel was taken from, padded or not. *)
BoxesComeBack ==
    pc \in {"encoded", "done"} =>
        \A k \in DOMAIN rois : \A j \in 0 .. ImageSize - 1 :
            LET cx == rois[k][1] + rois[k][3]
                half == IF padSquare THEN HalfSide(rois[k]) ELSE HalfWidth(rois[k])
            IN  BoxRoiToBoxGlobal(squares[k], rois[k], j)
                   = (cx - half) * (ImageSize - 1) + j * 2 * half

(* From regions to detections and back, with the types: what a call of     *)
(* encode_rois and decode promises, and when it may fail.                  *)
RegionsComeBack ==
    /\ TypeOK /\ FailsOnlyAsKnown /\ BatchesKeepOrder
    /\ DecodedByOwnThreshold /\ MaskKeepsTheRegion /\ BoxesComeBack
===============================================================================
