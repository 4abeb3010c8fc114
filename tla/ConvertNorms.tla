---------------------------- MODULE ConvertNorms ----------------------------
(***************************************************************************)
(* native_converters.py: the converters of the normalisation layers.  Each *)
(* action is a call by the traced program: torch is what PyTorch returns,  *)
(* trt what the layers the converter adds compute.  Running statistics are *)
(* given as the mean and as 1 / sqrt(var + eps), here an integer.          *)
(***************************************************************************)
EXTENDS TrtLayers

CONSTANTS
    Inputs,       \* the program's possible inputs
    Eps,          \* what is added to a variance
    MaxCalls,     \* bound: calls in the program
    MaxMagnitude  \* bound: the numbers that are computed on

VARIABLES
    torch, trt,   \* the tensor, as PyTorch and as the network have it
    method,       \* the last method called
    supported,    \* whether its arguments are ones the converter handles
    calls

vars == <<torch, trt, method, supported, calls>>

Returns(name, result, converted, ok) ==
    /\ calls < MaxCalls /\ trt = torch
    /\ \A idx \in DOMAIN torch.at : Abs(torch.at[idx]) <= MaxMagnitude
    /\ torch' = result /\ trt' = converted
    /\ method' = name /\ supported' = ok
    /\ calls' = calls + 1

Channels == torch.shape[2]
PerChannel(f(_)) == [c \in 1..Channels |-> f(c)]

(* An optional parameter of one number per channel.                        *)
NotGiven == <<>>
Weights == {NotGiven, PerChannel(LAMBDA c : c + 1)}
Biases == {NotGiven, PerChannel(LAMBDA c : 10 * c)}
RunningMeans == {PerChannel(LAMBDA c : 0), PerChannel(LAMBDA c : 5 - c)}
InverseStds == {PerChannel(LAMBDA c : 1), PerChannel(LAMBDA c : 1 + (c % 2))}
OrOnes(w) == IF w = NotGiven THEN PerChannel(LAMBDA c : 1) ELSE w
OrZeros(b) == IF b = NotGiven THEN PerChannel(LAMBDA c : 0) ELSE b

(* What PyTorch computes (external): the statistics of the indices that    *)
(* are normalised together, and weight and bias.                           *)
Standard(idx, Together(_, _)) ==
    LET S    == {k \in DOMAIN torch.at : Together(idx, k)}
        mean(f(_)) == ElementWiseOperation("DIV", FoldSet(LAMBDA k, acc : acc + f(k), 0, S), Cardinality(S))
        m    == mean(LAMBDA k : torch.at[k])
        var  == mean(LAMBDA k : (torch.at[k] - m) * (torch.at[k] - m))
    IN  ElementWiseOperation("DIV", torch.at[idx] - m, UnaryOperation("SQRT", var + Eps))

TorchRunning(mean, inv, weight, bias) ==
    MakeTensor(torch.shape, LAMBDA idx :
        LET c == idx[2] + 1 IN (torch.at[idx] - mean[c]) * inv[c] * OrOnes(weight)[c] + OrZeros(bias)[c])

-------------------------------------------------------------------------------
BatchOffset(mean, scale, bias) == [c \in DOMAIN scale |-> bias[c] - mean[c] * scale[c]]

(* convert_batch_norm: three axes are made four and back; weight and bias  *)
(* have to be given, and two axes are never made four.                     *)
BatchNormLayers(mean, inv, weight, bias) ==
    LET scale  == [c \in DOMAIN inv |-> weight[c] * inv[c]]
        offset == BatchOffset(mean, scale, bias)
    IN  IF Ndim(trt) = 3
        THEN Reshape(ScaleByChannel(Reshape(trt, Append(trt.shape, 1)), offset, scale), trt.shape)
        ELSE ScaleByChannel(trt, offset, scale)

BatchNorm ==
    \E mean \in RunningMeans, inv \in InverseStds, weight \in Weights, bias \in Biases :
        Returns("batch_norm", TorchRunning(mean, inv, weight, bias),
                IF NotGiven \in {weight, bias} THEN Failed ELSE BatchNormLayers(mean, inv, weight, bias),
                NotGiven \notin {weight, bias} /\ Ndim(torch) > 2)

-------------------------------------------------------------------------------
(* sqrt(AVG((x - AVG(x))^2) + eps) by the layers, and the quotient.        *)
Difference(t, axes) == Binary("SUB", t, Average(t, axes, TRUE))
Standardised(t, axes) ==
    LET diff == Difference(t, axes)
        var  == Average(Binary("PROD", diff, diff), axes, TRUE)
        eps  == MakeTensor([i \in 1..Ndim(t) |-> 1], LAMBDA idx : Eps)
    IN  IF diff = Failed THEN Failed
        ELSE Binary("DIV", diff, Apply("SQRT", Binary("SUM", var, eps)))

(* Mutant: the channels of a group are not next to each other.             *)
SplitShape_Strided(shape, groups) ==
    <<shape[1], shape[2] \div groups, groups>> \o SubSeq(shape, 3, Len(shape))
SplitShape(shape, groups) ==
    <<shape[1], groups, shape[2] \div groups>> \o SubSeq(shape, 3, Len(shape))

(* convert_group_norm: split, normalise over the axes from 2, join; then   *)
(* the affine version by a scale layer.                                    *)
GroupNorm ==
    \E groups \in {1, 2}, weight \in Weights, bias \in Biases :
        LET split  == SplitShape(trt.shape, groups)
            joined == Reshape(Standardised(Reshape(trt, split), 2..(Len(split) - 1)), trt.shape)
            group(idx) == idx[2] \div (Channels \div groups)
        IN  /\ Channels % groups = 0
            /\ Returns("group_norm",
                  MakeTensor(torch.shape, LAMBDA idx :
                     OrOnes(weight)[idx[2] + 1]
                        * Standard(idx, LAMBDA i, k : k[1] = i[1] /\ group(k) = group(i))
                     + OrZeros(bias)[idx[2] + 1]),
                  IF weight = NotGiven /\ bias = NotGiven THEN joined
                  ELSE ScaleByChannel(joined, OrZeros(bias), OrOnes(weight)),
                  Ndim(torch) > 3 \/ (weight = NotGiven /\ bias = NotGiven))

LayerAxes(n, ndim) == {ndim - i - 1 : i \in 0..(n - 1)}

(* convert_layer_norm: weight and bias have the shape of the last n axes,  *)
(* and lose leading ones before they are broadcast.                        *)
LayerNorm ==
    \E n \in 1..Ndim(torch), affine \in BOOLEAN :
        LET last == SubSeq(torch.shape, Ndim(torch) - n + 1, Ndim(torch))
            w    == Arange(last)
            full == Reshape(w, [i \in 1..(Ndim(torch) - n) |-> 1] \o last)
            y    == Standardised(trt, LayerAxes(n, Ndim(trt)))
            inLast(idx) == SubSeq(idx, Ndim(torch) - n + 1, Ndim(torch))
            first(idx)  == SubSeq(idx, 1, Ndim(torch) - n)
        IN  Returns("layer_norm",
              MakeTensor(torch.shape, LAMBDA idx :
                 LET s == Standard(idx, LAMBDA i, k : first(k) = first(i))
                 IN  IF affine THEN s * w.at[inLast(idx)] + w.at[inLast(idx)] ELSE s),
              IF affine THEN Binary("SUM", Binary("PROD", y, full), full) ELSE y, TRUE)

-------------------------------------------------------------------------------
(* _add_scale_1d2d3d: unless there are four axes, what is given its shape  *)
(* back is the output of the first shuffle, not that of the scale layer.   *)
AddScale1d2d3d(t, offset, scale) ==
    IF t = Failed \/ Ndim(t) < 3 THEN Failed
    ELSE IF Ndim(t) = 4 THEN ScaleByChannel(t, offset, scale)
    ELSE Reshape(Reshape(t, <<t.shape[1], t.shape[2], t.shape[3], -1>>), t.shape)

(* convert_instance_norm, case 1: running statistics.                      *)
InstanceNormRunning ==
    \E mean \in RunningMeans, inv \in InverseStds, affine \in BOOLEAN :
        LET weight == IF affine THEN PerChannel(LAMBDA c : c + 1) ELSE NotGiven
            bias   == IF affine THEN PerChannel(LAMBDA c : 10 * c) ELSE NotGiven
            scale  == [c \in 1..Channels |-> inv[c] * OrOnes(weight)[c]]
            offset == [c \in 1..Channels |-> OrZeros(bias)[c] - mean[c] * inv[c]]
        IN  /\ Ndim(torch) > 2
            /\ Returns(IF affine THEN "instance_norm_affine" ELSE "instance_norm",
                  TorchRunning(mean, inv, weight, bias), AddScale1d2d3d(trt, offset, scale),
                  Ndim(torch) = 4 /\ (affine => \A c \in 1..Channels : mean[c] = 0))

InstanceAxes(ndim) == 2..(ndim - 1)

(* Case 2: the statistics of the input.                                    *)
InstanceNormInput ==
    \E affine \in BOOLEAN :
        LET y == Standardised(trt, InstanceAxes(Ndim(trt)))
            weight == PerChannel(LAMBDA c : c + 1)
            bias == PerChannel(LAMBDA c : 10 * c)
            standard(idx) == Standard(idx, LAMBDA i, k : k[1] = i[1] /\ k[2] = i[2])
        IN  /\ Ndim(torch) > 2
            /\ Returns("instance_norm",
                  MakeTensor(torch.shape, LAMBDA idx :
                     IF affine THEN standard(idx) * weight[idx[2] + 1] + bias[idx[2] + 1] ELSE standard(idx)),
                  IF affine THEN AddScale1d2d3d(y, bias, weight) ELSE y,
                  affine => Ndim(torch) = 4)

Init ==
    /\ torch \in Inputs /\ trt = torch
    /\ method = "none" /\ supported = TRUE /\ calls = 0

Next == BatchNorm \/ GroupNorm \/ LayerNorm \/ InstanceNormRunning \/ InstanceNormInput

Spec == Init /\ [][Next]_vars

-------------------------------------------------------------------------------
Agrees(methods) == method \in methods /\ supported => trt = torch

(* Batch normalisation computes (x - mean) / std * weight + bias for       *)
(* inputs of three to five axes, also after another normalisation.         *)
BatchNormAsTorch == Agrees({"batch_norm"})

(* Group and layer normalisation use the mean and the variance of exactly  *)
(* the elements PyTorch normalises together, and put weight and bias on    *)
(* the axes PyTorch does.                                                  *)
GroupAndLayerNormAsTorch == Agrees({"group_norm", "layer_norm"})

(* Instance normalisation normalises every channel of every sample by      *)
(* itself, or by its running statistics.                                   *)
InstanceNormAsTorch == Agrees({"instance_norm", "instance_norm_affine"})

(* The normalisation layers normalise as PyTorch does, for the arguments   *)
(* they handle.                                                            *)
NormsAsTorch ==
    BatchNormAsTorch /\ GroupAndLayerNormAsTorch /\ InstanceNormAsTorch
===============================================================================
