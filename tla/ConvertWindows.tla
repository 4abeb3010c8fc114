--------------------------- MODULE ConvertWindows ---------------------------
(***************************************************************************)
(* native_converters.py: convolutions, pooling and interpolation.  Each    *)
(* action is a call by the traced program: torch is what PyTorch returns,  *)
(* trt what the layer computes with the arguments the converter gives it.  *)
(* PyTorch and TensorRT slide a window in the same way (external); they    *)
(* differ in the arguments they get and in the axes: TensorRT wants two    *)
(* spatial axes at least.                                                  *)
(***************************************************************************)
EXTENDS TrtLayers

CONSTANTS
    Inputs,    \* the program's possible inputs
    MaxCalls   \* bound: calls in the program

VARIABLES
    torch, trt,   \* the tensor, as PyTorch and as the network have it
    method,       \* the last method called
    supported,    \* whether its arguments are ones the converter handles
    calls

vars == <<torch, trt, method, supported, calls>>

Returns(name, result, converted, ok) ==
    /\ torch' = result /\ trt' = converted
    /\ method' = name /\ supported' = ok
    /\ calls' = calls + 1

Spatial(shape) == SubSeq(shape, 3, Len(shape))
InputDim == Ndim(torch) - 2
FloorQuotient(u, v) == IF u < 0 THEN -1 ELSE u \div v

(* An argument that is a number or a tuple of one per spatial axis.        *)
Each(n) == [kind |-> "int", n |-> n]
Per(seq) == [kind |-> "tuple", seq |-> seq]
AsTuple(arg, dim) == IF arg.kind = "int" THEN [i \in 1..dim |-> arg.n] ELSE arg.seq
Arguments(S) == {Each(n) : n \in S} \cup {Per([i \in 1..InputDim |-> IF i = 1 THEN Min(S) ELSE Max(S)])}

(* "Handle reshape 1D to 2D" and back.                                     *)
Unsqueezed(t, dim) == IF dim = 1 THEN Reshape(t, Append(t.shape, 1)) ELSE t
Squeezed(t, dim) == IF dim = 1 /\ t # Failed THEN Reshape(t, SubSeq(t.shape, 1, 3)) ELSE t

Extended(seq, dim, last) == IF dim = 1 THEN Append(seq, last) ELSE seq

-------------------------------------------------------------------------------
(* Convolution (external), of weights (out, in / groups, kernel).          *)
Convolve(x, w, stride, padding, dilation, groups) ==
    LET k     == Spatial(w.shape)
        n     == Len(k)
        outs  == [i \in 1..n |-> 1 + FloorQuotient(x.shape[i + 2] + 2 * padding[i] - dilation[i] * (k[i] - 1) - 1,
                                                   stride[i])]
        ins   == x.shape[2] \div groups
        first(o) == (o \div (w.shape[1] \div groups)) * ins
        from(idx, c, j) == <<idx[1], first(idx[2]) + c>>
                           \o [i \in 1..n |-> idx[i + 2] * stride[i] + j[i] * dilation[i] - padding[i]]
        hits(idx) == {j \in Indices(k) : Within(x.shape, from(idx, 0, j))}
    IN  IF \E i \in 1..n : outs[i] < 1 THEN Failed
        ELSE MakeTensor(<<x.shape[1], w.shape[1]>> \o outs, LAMBDA idx :
                FoldSet(LAMBDA q, acc : acc + x.at[from(idx, q[1], q[2])] * w.at[<<idx[2], q[1]>> \o q[2]],
                        0, (0..(ins - 1)) \X hits(idx)))

(* Transposed convolution (external), of weights (in, out / groups,        *)
(* kernel).                                                                *)
Deconvolve(x, w, outs, stride, padding, outPadding, dilation, groups) ==
    LET k     == Spatial(w.shape)
        n     == Len(k)
        sizes == [i \in 1..n |-> (x.shape[i + 2] - 1) * stride[i] - 2 * padding[i]
                                 + dilation[i] * (k[i] - 1) + outPadding[i] + 1]
        per   == outs \div groups
        of(o) == {c \in 0..(x.shape[2] - 1) : c \div (x.shape[2] \div groups) = o \div per}
        reached(idx, j) == [i \in 1..n |-> idx[i + 2] + padding[i] - j[i] * dilation[i]]
        from(idx, j) == [i \in 1..n |-> reached(idx, j)[i] \div stride[i]]
        hits(idx) == {j \in Indices(k) : /\ \A i \in 1..n : reached(idx, j)[i] % stride[i] = 0
                                        /\ Within(Spatial(x.shape), from(idx, j))}
    IN  IF per # w.shape[2] \/ x.shape[2] # w.shape[1] \/ \E i \in 1..n : sizes[i] < 1 THEN Failed
        ELSE MakeTensor(<<x.shape[1], outs>> \o sizes, LAMBDA idx :
                FoldSet(LAMBDA q, acc :
                    acc + x.at[<<idx[1], q[1]>> \o from(idx, q[2])] * w.at[<<q[1], idx[2] % per>> \o q[2]],
                    0, of(idx[2]) \X hits(idx)))

Biased(t, bias) ==
    IF t = Failed THEN Failed ELSE MakeTensor(t.shape, LAMBDA idx : t.at[idx] + (IF bias THEN 3 * idx[2] + 1 ELSE 0))

(* convert_conv2d3d.                                                       *)
Conv ==
    \E out \in {2, 4}, kernel \in {2, 3}, stride \in Arguments({1, 2}), padding \in Arguments({0, 1}),
       dilation \in {Each(1), Each(2)}, groups \in {1, 2}, bias \in BOOLEAN :
        LET dim == InputDim
            w   == Arange(<<out, torch.shape[2] \div groups>> \o [i \in 1..dim |-> kernel])
            result == Biased(Convolve(torch, w, AsTuple(stride, dim), AsTuple(padding, dim), AsTuple(dilation, dim),
                                      groups), bias)
        IN  /\ torch.shape[2] % groups = 0 /\ result # Failed
            /\ Returns("conv", result,
                  Squeezed(Biased(Convolve(Unsqueezed(trt, dim), Unsqueezed(w, dim),
                                           Extended(AsTuple(stride, dim), dim, 1),
                                           Extended(AsTuple(padding, dim), dim, 0),
                                           Extended(AsTuple(dilation, dim), dim, 1), groups), bias), dim), TRUE)

(* convert_conv_transpose2d3d: the output maps are counted by the first    *)
(* axis of the weights, and neither dilation nor output padding is set.    *)
OutChannels(w) == w.shape[1]
ConvTranspose ==
    \E out \in {1, 2}, kernel \in {2, 3}, stride \in Arguments({1, 2}), padding \in {Each(0), Each(1)},
       outPadding \in {0, 1}, dilation \in {1, 2}, groups \in {1, 2}, bias \in BOOLEAN :
        LET dim == InputDim
            ins == torch.shape[2]
            w   == Arange(<<ins, out>> \o [i \in 1..dim |-> kernel])
            result == Biased(Deconvolve(torch, w, out * groups, AsTuple(stride, dim), AsTuple(padding, dim),
                                        AsTuple(Each(outPadding), dim), AsTuple(Each(dilation), dim), groups), bias)
        IN  /\ ins % groups = 0 /\ result # Failed
            /\ \A i \in 1..dim : outPadding < AsTuple(stride, dim)[i]
            /\ Returns(IF dilation > 1 /\ outPadding = 0 THEN "dilated_transpose" ELSE "conv_transpose", result,
                  Squeezed(Biased(Deconvolve(Unsqueezed(trt, dim), Unsqueezed(w, dim), OutChannels(w),
                                             Extended(AsTuple(stride, dim), dim, 1),
                                             Extended(AsTuple(padding, dim), dim, 0),
                                             Extended(AsTuple(Each(0), dim), dim, 0),
                                             Extended(AsTuple(Each(1), dim), dim, 1), groups), bias), dim),
                  out * groups = ins /\ dilation = 1 /\ outPadding = 0)

-------------------------------------------------------------------------------
(* Pooling (external): the numbers of a window, the padding left out of a  *)
(* maximum and counted in an average unless it is excluded.                *)
Pool(type, x, outs, window, stride, padding, dilation, excludes) ==
    LET n == Len(window)
        from(idx, j) == <<idx[1], idx[2]>> \o [i \in 1..n |-> idx[i + 2] * stride[i] + j[i] * dilation[i] - padding[i]]
        inside(idx) == {j \in Indices(window) : Within(x.shape, from(idx, j))}
        sum(idx) == FoldSet(LAMBDA j, acc : acc + x.at[from(idx, j)], 0, inside(idx))
    IN  IF x = Failed \/ \E i \in 1..n : outs[i] < 1 THEN Failed
        ELSE MakeTensor(<<x.shape[1], x.shape[2]>> \o outs, LAMBDA idx :
                IF inside(idx) = {} THEN NaN
                ELSE IF type = "MAX" THEN Max({x.at[from(idx, j)] : j \in inside(idx)})
                ELSE ElementWiseOperation("DIV", sum(idx),
                        IF excludes THEN Cardinality(inside(idx)) ELSE Numel(window)))

Rounded(size, window, stride, ceil) ==
    1 + (IF ceil THEN FloorQuotient(size - window + stride - 1, stride) ELSE FloorQuotient(size - window, stride))

(* In PyTorch the last window of ceil_mode starts in the input or in the   *)
(* padding before it (external).                                           *)
TorchPoolSize(n, k, s, p, d, ceil) ==
    LET out == Rounded(n + 2 * p, d * (k - 1) + 1, s, ceil)
    IN  IF ceil /\ (out - 1) * s >= n + p THEN out - 1 ELSE out

(* convert_max_pool_nd and convert_avg_pool_nd: dilation is not passed on, *)
(* and a stride that is not given is not one the layer takes.              *)
PoolLayer(type, dim, window, stride, padding, ceil, excludes) ==
    LET w == Extended(window, dim, 1)
        s == Extended(stride, dim, 1)
        p == Extended(padding, dim, 0)
        x == Unsqueezed(trt, dim)
        outs == [i \in DOMAIN w |-> Rounded(x.shape[i + 2] + 2 * p[i], w[i], s[i], ceil)]
    IN  Squeezed(Pool(type, x, outs, w, s, p, [i \in DOMAIN w |-> 1], excludes), dim)

(* Mutant: padding is excluded when it is to be included.                  *)
Excludes_Swapped(countIncludePad) == countIncludePad
Excludes(countIncludePad) == ~countIncludePad

NoStride == Each(0)
MaxOrAvgPool ==
    \E type \in {"MAX", "AVERAGE"}, kernel \in Arguments({2, 3}), stride \in Arguments({1, 2}) \cup {NoStride},
       padding \in {Each(0), Each(1)}, dilation \in {1, 2}, ceil \in BOOLEAN, countIncludePad \in BOOLEAN :
        LET dim == InputDim
            k == AsTuple(kernel, dim)
            s == IF stride = NoStride THEN k ELSE AsTuple(stride, dim)
            p == AsTuple(padding, dim)
            d == [i \in 1..dim |-> dilation]
            outs == [i \in 1..dim |-> TorchPoolSize(torch.shape[i + 2], k[i], s[i], p[i], d[i], ceil)]
        IN  /\ type = "AVERAGE" => dilation = 1
            /\ type = "MAX" => countIncludePad
            /\ \A i \in 1..dim : 2 * p[i] <= k[i] /\ outs[i] > 0
            /\ Returns("pool",
                  Pool(type, torch, outs, k, s, p, d, ~countIncludePad),
                  IF stride = NoStride THEN Failed
                  ELSE PoolLayer(type, dim, k, s, p, ceil, Excludes(countIncludePad)),
                  stride # NoStride /\ dilation = 1 /\ ~ceil)

AdaptiveStride(n, out) == n \div out

(* convert_adaptive_pool: windows of in // out, side by side.              *)
AdaptivePool ==
    \E type \in {"MAX", "AVERAGE"}, size \in Arguments({1, 2, 3}) :
        LET dim == InputDim
            out == AsTuple(size, dim)
            n(i) == torch.shape[i + 2]
            of(idx) == {k \in DOMAIN torch.at : k[1] = idx[1] /\ k[2] = idx[2]
                          /\ \A i \in 1..dim : /\ k[i + 2] >= (idx[i + 2] * n(i)) \div out[i]
                                               /\ k[i + 2] < ((idx[i + 2] + 1) * n(i) + out[i] - 1) \div out[i]}
            sum(S) == FoldSet(LAMBDA k, acc : acc + torch.at[k], 0, S)
            s == [i \in 1..dim |-> AdaptiveStride(n(i), out[i])]
        IN  /\ \A i \in 1..dim : out[i] <= n(i)
            /\ Returns("adaptive_pool",
                  MakeTensor(<<torch.shape[1], torch.shape[2]>> \o out, LAMBDA idx :
                     IF type = "MAX" THEN Max({torch.at[k] : k \in of(idx)})
                     ELSE ElementWiseOperation("DIV", sum(of(idx)), Cardinality(of(idx)))),
                  IF dim = 1 THEN Failed
                  ELSE Pool(type, trt, [i \in 1..dim |-> Rounded(n(i), s[i], s[i], FALSE)], s, s,
                            [i \in 1..dim |-> 0], [i \in 1..dim |-> 1], FALSE),
                  dim > 1 /\ \A i \in 1..dim : n(i) % out[i] = 0)

-------------------------------------------------------------------------------
(* Where a number of the result is taken from, in 1/(2 outs)ths of an      *)
(* element (external): the left neighbour, or the point to interpolate at. *)
Coordinate(mode, transformation, i, n, out) ==
    IF mode = "NEAREST" THEN ((i * n) \div out) * 2 * out
    ELSE IF transformation = "ALIGN_CORNERS" THEN (IF out = 1 THEN 0 ELSE (i * (n - 1) * 2 * out) \div (out - 1))
    ELSE Max({0, (2 * i + 1) * n - out})
Curve == [NEAREST |-> 0, LINEAR |-> 1, CUBIC |-> 2]
Resized(x, outs, mode, transformation) ==
    MakeTensor(<<x.shape[1], x.shape[2]>> \o outs, LAMBDA idx :
        FoldSet(LAMBDA i, acc : acc * 50 + Coordinate(mode, transformation, idx[i + 2], x.shape[i + 2], outs[i]),
                100 * Curve[mode] + 10 * idx[1] + idx[2], DOMAIN outs))

SizeOf(size, dim) == AsTuple(size, dim)

(* configure_resize, and align_corners (TensorRT after 8.0).               *)
ResizeMode(mode) == IF mode = "nearest" THEN "NEAREST" ELSE IF mode = "bicubic" THEN "CUBIC" ELSE "LINEAR"
Transformation(mode, alignCorners) ==
    IF alignCorners THEN "ALIGN_CORNERS" ELSE IF mode = "nearest" THEN "ASYMMETRIC" ELSE "HALF_PIXEL"

(* convert_interpolate, by size or by scale factor.                        *)
Interpolate ==
    \E mode \in {"nearest", "linear", "bicubic", "area"}, alignCorners \in BOOLEAN,
       size \in Arguments({2, 5}), byScale \in BOOLEAN :
        LET dim   == InputDim
            outs  == IF byScale THEN [i \in 1..dim |-> torch.shape[i + 2] * AsTuple(size, dim)[i]] ELSE AsTuple(size, dim)
            asked == IF byScale THEN outs ELSE SizeOf(size, dim)
            corners == IF alignCorners THEN "ALIGN_CORNERS" ELSE "HALF_PIXEL"
        IN  /\ alignCorners => mode \in {"linear", "bicubic"}
            /\ mode = "bicubic" => dim = 2
            /\ Returns("interpolate",
                  IF mode = "area" THEN torch
                  ELSE Resized(torch, outs,
                          [nearest |-> "NEAREST", linear |-> "LINEAR", bicubic |-> "CUBIC"][mode], corners),
                  IF mode = "area" THEN Failed
                  ELSE Resized(trt, asked, ResizeMode(mode), Transformation(mode, alignCorners)),
                  mode # "area")

Init ==
    /\ torch \in Inputs /\ trt = torch
    /\ method = "none" /\ supported = TRUE /\ calls = 0

Next ==
    /\ calls < MaxCalls /\ trt = torch
    /\ Conv \/ ConvTranspose \/ MaxOrAvgPool \/ AdaptivePool \/ Interpolate

Spec == Init /\ [][Next]_vars

-------------------------------------------------------------------------------
Agrees(methods) == method \in methods /\ supported => trt = torch

(* A convolution with one spatial axis gives what PyTorch's does, through  *)
(* two axes and back, as one with two does: strides, padding, dilation     *)
(* (numbers or tuples), groups and bias.                                   *)
ConvolvesAsTorch == Agrees({"conv", "conv_transpose", "dilated_transpose"})

(* Pooling does too, with padding counted or not, and adaptive pooling     *)
(* when the sizes divide the input.                                        *)
PoolsAsTorch == Agrees({"pool", "adaptive_pool"})

(* Interpolation takes every number of the result from the place PyTorch   *)
(* does, for sizes and scale factors per axis.                             *)
InterpolatesAsTorch == Agrees({"interpolate"})

(* The layers with windows see the elements PyTorch sees, for the          *)
(* arguments they handle.                                                  *)
WindowsAsTorch ==
    ConvolvesAsTorch /\ PoolsAsTorch /\ InterpolatesAsTorch
===============================================================================
