-------------------------- MODULE ConvertArithmetic --------------------------
(***************************************************************************)
(* native_converters.py: the converters that compute, with the helpers of  *)
(* torch2trt.py that give them TensorRT tensors.  Each action is a call of *)
(* the method by the traced program: torch is what PyTorch returns, trt    *)
(* what the layers its converter adds compute; the next call takes the     *)
(* result of this one.  The program's constants (parameters and buffers)   *)
(* get a TensorRT tensor when a converter first meets them, and keep it.   *)
(*                                                                         *)
(* Numbers are integers, quotients and functions as in TrtLayers.          *)
(***************************************************************************)
EXTENDS TrtLayers

CONSTANTS
    Inputs,       \* the program's possible inputs
    Parameters,   \* the program's constants, by name
    HalfDtype,    \* the constants of another dtype than the input's
    MaxCalls,     \* bound: calls in the program
    MaxMagnitude  \* bound: the numbers that are computed on

VARIABLES
    torch,     \* the tensor the program has
    trt,       \* the tensor of the network that stands for it
    constants, \* the _trt of each constant, Failed while it has none
    method,    \* the last method called
    supported, \* whether its arguments are ones the converter handles
    calls

vars == <<torch, trt, constants, method, supported, calls>>

-------------------------------------------------------------------------------
(* An argument is the program's tensor, one of its constants or a number.  *)
Traced == [kind |-> "traced"]
Constant(c) == [kind |-> "constant", name |-> c]
Number(n) == [kind |-> "number", value |-> n]

TorchOf(arg) ==
    CASE arg.kind = "traced" -> torch
      [] arg.kind = "constant" -> Parameters[arg.name]
      [] arg.kind = "number" -> MakeTensor(<<>>, LAMBDA idx : arg.value)

(* Mutant: the ones after the leading ones are removed too.                *)
WithoutLeadingOnes_All(shape) == SelectSeq(shape, LAMBDA n : n # 1)

(* add_missing_trt_tensors: all preceding ones of a constant are removed.  *)
WithoutLeadingOnes(shape) ==
    LET first == {i \in DOMAIN shape : shape[i] # 1}
    IN  IF first = {} THEN <<>> ELSE SubSeq(shape, Min(first), Len(shape))

Missing(arg) == arg.kind = "constant" /\ constants[arg.name] = Failed

AddMissing(arg) ==
    CASE arg.kind = "traced" -> trt
      [] arg.kind = "number" -> MakeTensor(<<1>>, LAMBDA idx : arg.value)
      [] arg.kind = "constant" ->
            IF Missing(arg) THEN Reshape(TorchOf(arg), WithoutLeadingOnes(TorchOf(arg).shape))
            ELSE constants[arg.name]

(* trt_, of one tensor: a constant keeps its shape.                        *)
TrtOf(arg) == IF Missing(arg) THEN TorchOf(arg) ELSE AddMissing(arg)

(* t._trt = ...: what is left on the constants among the arguments.        *)
Attached(args, converted) ==
    [c \in DOMAIN constants |->
        IF \E i \in DOMAIN args : args[i] = Constant(c)
        THEN converted[CHOOSE i \in DOMAIN args : args[i] = Constant(c)] ELSE constants[c]]

(* check_torch_dtype: an assertion.                                        *)
SameDtype(args) == \A i \in DOMAIN args : args[i].kind = "constant" => args[i].name \notin HalfDtype

(* broadcast_trt_tensors.                                                  *)
Broadcast(t, ndim) ==
    IF Ndim(t) < ndim THEN Reshape(t, [i \in 1..(ndim - Ndim(t)) |-> 1] \o t.shape) ELSE t

(* What PyTorch computes (external): shapes aligned at the end.            *)
TorchBinary(Op(_, _), a, b) ==
    LET n == Max({Ndim(a), Ndim(b)})
        size(t, i) == IF i > n - Ndim(t) THEN t.shape[i - (n - Ndim(t))] ELSE 1
        of(t, idx) == t.at[[i \in 1..Ndim(t) |-> IF t.shape[i] = 1 THEN 0 ELSE idx[i + n - Ndim(t)]]]
    IN  MakeTensor([i \in 1..n |-> Max({size(a, i), size(b, i)})], LAMBDA idx : Op(of(a, idx), of(b, idx)))

TorchAligns(a, b) ==
    \A i \in 0..(Min({Ndim(a), Ndim(b)}) - 1) :
        LET x == a.shape[Ndim(a) - i]
            y == b.shape[Ndim(b) - i]
        IN  x = y \/ x = 1 \/ y = 1

Comparisons == {"gt", "lt", "eq", "ne"}

(* What a call leaves.                                                     *)
Returns(name, args, result, converted, ok) ==
    /\ calls < MaxCalls /\ trt = torch /\ method \notin Comparisons
    /\ \A idx \in DOMAIN torch.at : Abs(torch.at[idx]) <= MaxMagnitude
    /\ torch' = result
    /\ trt' = IF SameDtype(args) THEN converted ELSE Failed
    /\ method' = name /\ supported' = (ok /\ SameDtype(args))
    /\ calls' = calls + 1

Keeps(name, result, converted, ok) ==
    Returns(name, <<>>, result, converted, ok) /\ UNCHANGED constants

-------------------------------------------------------------------------------
(* The methods of two operands: what PyTorch computes (external; with      *)
(* floor_divide truncating, as the converter's comment has it) ...         *)
TorchElement(op, u, v) ==
    CASE op \in {"floordiv", "fmod", "mod"} /\ v = 0 -> NaN
      [] op = "floordiv" /\ v # 0 -> Truncated(u, v)
      [] op = "fmod" /\ v # 0 -> u - Truncated(u, v) * v
      [] op = "mod" /\ v # 0 -> u - FloorDiv(u, v) * v
      [] op = "ne" -> IF u # v THEN 1 ELSE 0
      [] op \in {"rsub", "rdiv", "rpow"} ->
            ElementWiseOperation(CASE op = "rsub" -> "SUB" [] op = "rdiv" -> "DIV" [] op = "rpow" -> "POW", v, u)
      [] OTHER -> ElementWiseOperation(
            CASE op = "add" -> "SUM" [] op = "sub" -> "SUB" [] op = "mul" -> "PROD" [] op = "div" -> "DIV"
              [] op = "pow" -> "POW" [] op = "max" -> "MAX" [] op = "min" -> "MIN"
              [] op = "gt" -> "GREATER" [] op = "lt" -> "LESS" [] op = "eq" -> "EQUAL", u, v)

(* ... and the layers: most converters add one ...                         *)
ConvertAdd(a, b) == Binary("SUM", a, b)
ConvertSub(a, b) == Binary("SUB", a, b)
ConvertRsub(a, b) == Binary("SUB", b, a)
ConvertMul(a, b) == Binary("PROD", a, b)
ConvertDiv(a, b) == Binary("DIV", a, b)
ConvertRdiv(a, b) == Binary("DIV", b, a)
ConvertPow(a, b) == Binary("POW", a, b)
ConvertRpow(a, b) == Binary("POW", b, a)
ConvertMaxElementwise(a, b) == Binary("MAX", a, b)
ConvertMinElementwise(a, b) == Binary("MIN", a, b)
ConvertElementwise(op, a, b) ==
    Binary(CASE op = "gt" -> "GREATER" [] op = "lt" -> "LESS" [] op = "eq" -> "EQUAL", a, b)

(* ... and some several: not (a = b) ...                                   *)
ConvertNe(a, b) == Apply("NOT", Binary("EQUAL", a, b))

(* ... sign * (|a| // |b|) ...                                             *)
ConvertFloordiv(a, b) ==
    LET ab == Binary("PROD", a, b)
    IN  Binary("PROD", Binary("DIV", ab, Apply("ABS", ab)), Binary("FLOOR_DIV", Apply("ABS", a), Apply("ABS", b)))

(* ... and a - (a // b) * b, the quotient truncated for fmod.              *)
ConvertFmod(a, b) == Binary("SUB", a, Binary("PROD", ConvertFloordiv(a, b), b))
ConvertMod(a, b) == Binary("SUB", a, Binary("PROD", Binary("FLOOR_DIV", a, b), b))

Converted(op, a, b) ==
    CASE op = "add" -> ConvertAdd(a, b) [] op = "sub" -> ConvertSub(a, b) [] op = "rsub" -> ConvertRsub(a, b)
      [] op = "mul" -> ConvertMul(a, b) [] op = "div" -> ConvertDiv(a, b) [] op = "rdiv" -> ConvertRdiv(a, b)
      [] op = "pow" -> ConvertPow(a, b) [] op = "rpow" -> ConvertRpow(a, b)
      [] op = "max" -> ConvertMaxElementwise(a, b) [] op = "min" -> ConvertMinElementwise(a, b)
      [] op \in {"gt", "lt", "eq"} -> ConvertElementwise(op, a, b) [] op = "ne" -> ConvertNe(a, b)
      [] op = "floordiv" -> ConvertFloordiv(a, b) [] op = "fmod" -> ConvertFmod(a, b)
      [] op = "mod" -> ConvertMod(a, b)

BinaryMethods == {"add", "sub", "rsub", "mul", "div", "rdiv", "pow", "rpow", "max", "min",
                  "gt", "lt", "eq", "ne", "floordiv", "fmod", "mod"}

(* gt, lt and eq go by the ranks of the TensorRT tensors, the others by    *)
(* the rank of PyTorch's result.                                           *)
BroadcastNdim(op, result, a, b) ==
    IF op \in {"gt", "lt", "eq"} THEN Max({Ndim(a), Ndim(b)}) ELSE Ndim(result)

Operands == {Traced} \cup {Constant(c) : c \in DOMAIN Parameters} \cup {Number(n) : n \in {-2, 2}}
Elementwise2 ==
    \E op \in BinaryMethods, arg \in Operands :
        LET other  == TorchOf(arg)
            b      == AddMissing(arg)
            result == TorchBinary(LAMBDA u, v : TorchElement(op, u, v), torch, other)
            ndim   == BroadcastNdim(op, result, trt, b)
        IN  /\ TorchAligns(torch, other)
            /\ op \in {"max", "min", "fmod"} => arg.kind # "number"
            /\ Returns(op, <<arg>>, result, Converted(op, Broadcast(trt, ndim), Broadcast(b, ndim)),
                       /\ ndim = Ndim(result) /\ Ndim(b) <= ndim
                       /\ op \in {"floordiv", "fmod"} => \A idx \in DOMAIN torch.at : torch.at[idx] # 0)
            /\ constants' = Attached(<<arg>>, <<b>>)

-------------------------------------------------------------------------------
(* __add_clamp: a bound that is a number has the rank of the input, and a  *)
(* bound that is a tensor is broadcast against it.                         *)
AddClamp(t, arg, op) ==
    IF arg.kind = "number" THEN Binary(op, t, MakeTensor([i \in 1..Ndim(t) |-> 1], LAMBDA idx : arg.value))
    ELSE LET n == Max({Ndim(t), Ndim(TrtOf(arg))})
         IN  Binary(op, Broadcast(t, n), Broadcast(TrtOf(arg), n))

Clamped(t, low, high) == AddClamp(AddClamp(t, low, "MAX"), high, "MIN")

(* convert_clamp with both bounds.                                         *)
Clamp ==
    \E low, high \in {Number(-1), Number(1)} \cup {Constant(c) : c \in DOMAIN Parameters} :
        LET a == TorchOf(low)
            b == TorchOf(high)
        IN  /\ low.kind = high.kind /\ TorchAligns(torch, a) /\ TorchAligns(torch, b) /\ TorchAligns(a, b)
            /\ Returns("clamp", <<low, high>>,
                  TorchBinary(LAMBDA u, v : Min({u, v}), TorchBinary(LAMBDA u, v : Max({u, v}), torch, a), b),
                  Clamped(trt, low, high), TRUE)
            /\ constants' = Attached(<<low, high>>, <<TrtOf(low), TrtOf(high)>>)

(* convert_clamp_min, convert_clamp_max, and clamp with one bound.         *)
ClampOneSide ==
    \E arg \in {Number(-1), Number(1)}, side \in {"MAX", "MIN"} :
        Keeps("clamp", TorchBinary(LAMBDA u, v : ElementWiseOperation(side, u, v), torch, TorchOf(arg)),
              AddClamp(trt, arg, side), TRUE)

(* The methods of one operand and their layers.                            *)
UnaryMethods ==
    [exp |-> "EXP", log |-> "LOG", sqrt |-> "SQRT", reciprocal |-> "RECIP", abs |-> "ABS", neg |-> "NEG",
     sin |-> "SIN", cos |-> "COS", tan |-> "TAN", sinh |-> "SINH", cosh |-> "COSH", asin |-> "ASIN",
     acos |-> "ACOS", atan |-> "ATAN", ceil |-> "CEIL", floor |-> "FLOOR"]
Activations ==
    [leaky_relu |-> "LEAKY_RELU", elu |-> "ELU", selu |-> "SELU", softsign |-> "SOFTSIGN",
     softplus |-> "SOFTPLUS"]
ConvertRelu(t) == Apply("RELU", t)
ConvertSigmoid(t) == Apply("SIGMOID", t)
ConvertTanh(t) == Apply("TANH", t)

(* None changes more than the tensor's numbers; both sides apply the       *)
(* function of that name.                                                  *)
UnaryMethod ==
    \E op \in Range(UnaryMethods) \cup Range(Activations) \cup {"RELU", "SIGMOID", "TANH"} :
        Keeps("pointwise", MakeTensor(torch.shape, LAMBDA idx : UnaryOperation(op, torch.at[idx])),
              CASE op = "RELU" -> ConvertRelu(trt) [] op = "SIGMOID" -> ConvertSigmoid(trt)
                [] op = "TANH" -> ConvertTanh(trt) [] OTHER -> Apply(op, trt), TRUE)

Filled(t, n) == MakeTensor([i \in 1..Ndim(t) |-> 1], LAMBDA idx : n)

(* convert_relu6, convert_silu and convert_gelu (the constants of the      *)
(* paper's equation 1 are opaque).                                         *)
Relu6(t) == Binary("MIN", Apply("RELU", t), Filled(t, 6))
Silu(t) == Binary("PROD", t, Apply("SIGMOID", t))
Gelu(t) ==
    LET cubed == Binary("PROD", Binary("POW", t, Filled(t, 3)), Filled(t, 2))
        inner == Apply("TANH", Binary("PROD", Binary("SUM", t, cubed), Filled(t, 3)))
    IN  Binary("PROD", Binary("PROD", t, Binary("SUM", inner, Filled(t, 1))), Filled(t, 5))

TorchActivation(name, u) ==
    CASE name = "relu6" -> Max({0, Min({u, 6})})
      [] name = "silu" -> u * UnaryOperation("SIGMOID", u)
      [] name = "gelu" -> 5 * u * (1 + UnaryOperation("TANH", 3 * (u + 2 * u ^ 3)))

Composed ==
    \E name \in {"relu6", "silu", "gelu"} :
        /\ \A idx \in DOMAIN torch.at : Abs(torch.at[idx]) < 5
        /\ Keeps(name, MakeTensor(torch.shape, LAMBDA idx : TorchActivation(name, torch.at[idx])),
                 CASE name = "relu6" -> Relu6(trt) [] name = "silu" -> Silu(trt) [] name = "gelu" -> Gelu(trt), TRUE)

PreluShape(ndim, n) == [i \in 1..ndim |-> IF i = 2 THEN n ELSE 1]

(* convert_prelu: relu(x) + (-w) * relu(-x); it needs a channel axis.      *)
Prelu ==
    \E weight \in {<<2>>} \cup (IF Ndim(torch) > 1 THEN {[i \in 1..torch.shape[2] |-> i]} ELSE {}) :
        LET slope(idx) == IF Len(weight) = 1 THEN weight[1] ELSE weight[idx[2] + 1]
            shape == PreluShape(Ndim(trt), Len(weight))
            minus == MakeTensor(shape, LAMBDA idx : -weight[Place(shape, idx) + 1])
        IN  Keeps("prelu",
                  MakeTensor(torch.shape, LAMBDA idx : IF torch.at[idx] >= 0 THEN torch.at[idx]
                                                       ELSE slope(idx) * torch.at[idx]),
                  IF Ndim(trt) < 2 THEN Failed
                  ELSE Binary("SUM", Apply("RELU", trt), Binary("PROD", Apply("RELU", Apply("NEG", trt)), minus)),
                  Ndim(torch) > 1)

-------------------------------------------------------------------------------
(* The dim argument of a reduction: not given, a number, a tuple or a list. *)
NoDim == [kind |-> "none", dims |-> <<>>]
DimArgs ==
    {NoDim} \cup {[kind |-> "int", dims |-> <<d>>] : d \in -Ndim(torch)..(Ndim(torch) - 1)}
    \cup (IF Ndim(torch) < 2 THEN {} ELSE {[kind |-> k, dims |-> <<0, 1>>] : k \in {"tuple", "list"}})

TorchAxes(arg) ==
    IF arg.kind = "none" THEN 0..(Ndim(torch) - 1)
    ELSE {IF d < 0 THEN d + Ndim(torch) ELSE d : d \in Range(arg.dims)}

(* torch_dim_to_trt_axes: 1 << d raises for a negative d, and for a list.  *)
ToTrtAxes(arg) ==
    IF arg.kind = "list" \/ \E d \in Range(arg.dims) : d < 0 THEN {-1} ELSE Range(arg.dims)

GivenAxes(arg, default) == IF arg.kind = "none" THEN default ELSE ToTrtAxes(arg)
EveryAxis == 0..(Ndim(trt) - 1)
Over(op, axes, keepdim) == Reduce(LAMBDA u, v : ElementWiseOperation(op, u, v), trt, axes, keepdim)

ConvertMaxReduce(arg, keepdim) == Over("MAX", GivenAxes(arg, EveryAxis), keepdim)
ConvertMinReduce(arg, keepdim) == Over("MIN", GivenAxes(arg, EveryAxis), keepdim)

(* convert_mean makes a tuple of a list.                                   *)
ConvertMean(arg, keepdim) ==
    Average(trt, GivenAxes(IF arg.kind = "list" THEN [arg EXCEPT !.kind = "tuple"] ELSE arg, EveryAxis), keepdim)

(* sum and prod have the axes after the first as their default.            *)
ConvertSum(arg, keepdim) == Over("SUM", GivenAxes(arg, EveryAxis \ {0}), keepdim)
ConvertProd(arg, keepdim) == Over("PROD", GivenAxes(arg, EveryAxis \ {0}), keepdim)

(* PyTorch's result (external): the numbers of a set of indices, reduced.  *)
TorchReduce(op, axes, keepdim) ==
    LET left == SelectSeq(Upto(Ndim(torch)), LAMBDA i : i - 1 \notin axes)
        kept == [i \in 1..Ndim(torch) |-> IF i - 1 \in axes THEN 1 ELSE torch.shape[i]]
        of(idx) == {k \in DOMAIN torch.at :
                      IF keepdim THEN \A i \in DOMAIN k : i - 1 \in axes \/ k[i] = idx[i]
                      ELSE \A j \in DOMAIN left : k[left[j]] = idx[j]}
        neutral == IF op = "prod" THEN 1 ELSE 0
        value(S) == IF op = "max" THEN Max({torch.at[k] : k \in S})
                    ELSE IF op = "min" THEN Min({torch.at[k] : k \in S})
                    ELSE FoldSet(LAMBDA k, acc : IF op = "prod" THEN acc * torch.at[k] ELSE acc + torch.at[k], neutral, S)
        mean(S) == IF op = "mean" THEN ElementWiseOperation("DIV", value(S), Cardinality(S)) ELSE value(S)
    IN  MakeTensor(IF keepdim THEN kept ELSE [j \in DOMAIN left |-> torch.shape[left[j]]], LAMBDA idx : mean(of(idx)))

Reduction ==
    \E op \in {"max", "min", "mean", "sum", "prod"}, arg \in DimArgs, keepdim \in BOOLEAN :
        /\ Ndim(torch) > 0
        /\ arg.kind \in {"tuple", "list"} => op \in {"mean", "sum"}
        /\ arg.kind = "none" => ~keepdim
        /\ Keeps(IF arg.kind = "none" /\ op \in {"sum", "prod"} THEN "total" ELSE "reduce",
                 TorchReduce(op, TorchAxes(arg), keepdim),
                 CASE op = "max" -> ConvertMaxReduce(arg, keepdim) [] op = "min" -> ConvertMinReduce(arg, keepdim)
                   [] op = "mean" -> ConvertMean(arg, keepdim) [] op = "sum" -> ConvertSum(arg, keepdim)
                   [] op = "prod" -> ConvertProd(arg, keepdim),
                 /\ \A d \in Range(arg.dims) : d >= 0
                 /\ arg.kind = "list" => op = "mean")

-------------------------------------------------------------------------------
(* add_softmax (external): an element depends on itself and on the numbers *)
(* along the axis.  When no axis is given it is the third from the end.    *)
SoftmaxLayer(t, axes) ==
    IF t = Failed \/ ~(axes \subseteq 0..(Ndim(t) - 1)) THEN Failed
    ELSE Binary("DIV", Apply("EXP", t), Reduce(LAMBDA u, v : u + v, Apply("EXP", t), axes, TRUE))
DefaultAxis(ndim) == Max({0, ndim - 3})

TorchSoftmax(d) ==
    LET e(u) == UnaryOperation("EXP", u)
        along(idx) == [j \in 0..(torch.shape[d + 1] - 1) |-> e(torch.at[[idx EXCEPT ![d + 1] = j]])]
        total(idx) == FoldSet(LAMBDA j, acc : acc + along(idx)[j], 0, DOMAIN along(idx))
    IN  MakeTensor(torch.shape, LAMBDA idx : ElementWiseOperation("DIV", e(torch.at[idx]), total(idx)))

SoftmaxAxes(dim, ndim) == {IF dim < 0 THEN ndim + dim ELSE dim}

ConvertSoftmax(dim) == SoftmaxLayer(trt, SoftmaxAxes(dim, Ndim(trt)))

(* convert_log_softmax does not read dim.                                  *)
ConvertLogSoftmax == Apply("LOG", SoftmaxLayer(trt, {DefaultAxis(Ndim(trt))}))

Softmax ==
    \E dim \in -Ndim(torch)..(Ndim(torch) - 1), log \in BOOLEAN :
        LET result == TorchSoftmax(IF dim < 0 THEN dim + Ndim(torch) ELSE dim)
        IN  IF log
            THEN Keeps("log_softmax", MakeTensor(result.shape, LAMBDA idx : UnaryOperation("LOG", result.at[idx])),
                       ConvertLogSoftmax, TRUE)
            ELSE Keeps("softmax", result, ConvertSoftmax(dim), TRUE)

(* The root of a sum of powers: opaque unless p is 1.                      *)
Root(p, u) == IF p = 1 \/ u \in {0, 1} THEN u ELSE Opaque(30, u, p)

(* convert_normalize: the norm is at least eps, the smallest number.       *)
Normalized(t, p, axes) ==
    LET powers == Binary("POW", Apply("ABS", t), Filled(t, p))
        norm   == Unary(LAMBDA u : Root(p, u), Reduce(LAMBDA u, v : u + v, powers, axes, TRUE))
    IN  Binary("DIV", t, Binary("MAX", norm, Filled(t, 1)))

Normalize ==
    \E p \in {1, 2}, dim \in -Ndim(torch)..(Ndim(torch) - 1) :
        LET d == IF dim < 0 THEN dim + Ndim(torch) ELSE dim
            norm(idx) == FoldSet(LAMBDA j, acc : acc + Abs(torch.at[[idx EXCEPT ![d + 1] = j]]) ^ p, 0,
                                 0..(torch.shape[d + 1] - 1))
        IN  Keeps("normalize",
                  MakeTensor(torch.shape, LAMBDA idx :
                     ElementWiseOperation("DIV", torch.at[idx], Max({Root(p, norm(idx)), 1}))),
                  Normalized(trt, p, ToTrtAxes([kind |-> "int", dims |-> <<dim>>])), dim >= 0)

-------------------------------------------------------------------------------
(* add_matrix_multiply (external): tensors of one rank, at least 2, whose  *)
(* leading axes are equal or 1.                                            *)
MatrixMultiply(a, b, transposed) ==
    LET n == Ndim(a)
        inner(t, swap) == t.shape[IF swap THEN n - 1 ELSE n]
    IN  IF \/ a = Failed \/ b = Failed \/ n < 2 \/ Ndim(b) # n
           \/ a.shape[n] # b.shape[IF transposed THEN n ELSE n - 1]
           \/ \E i \in 1..(n - 2) : a.shape[i] # b.shape[i] /\ a.shape[i] # 1 /\ b.shape[i] # 1
        THEN Failed
        ELSE MakeTensor([i \in 1..n |-> IF i = n THEN inner(b, transposed)
                                         ELSE IF i = n - 1 THEN a.shape[i] ELSE Max({a.shape[i], b.shape[i]})],
                LAMBDA idx : FoldSet(LAMBDA k, acc :
                    acc + a.at[Project(a, [idx EXCEPT ![n] = k])]
                          * b.at[Project(b, IF transposed THEN [idx EXCEPT ![n - 1] = idx[n], ![n] = k]
                                            ELSE [idx EXCEPT ![n - 1] = k])], 0, 0..(a.shape[n] - 1)))

TorchMatmul(a, b, transposed) ==
    LET n == Max({Ndim(a), Ndim(b)})
        padded(t) == [i \in 1..(n - Ndim(t)) |-> 1] \o t.shape
        at(t, idx) == t.at[[i \in 1..Ndim(t) |-> IF t.shape[i] = 1 THEN 0 ELSE idx[i + n - Ndim(t)]]]
        cols == IF transposed THEN padded(b)[n - 1] ELSE padded(b)[n]
        term(idx, k) == at(a, [idx EXCEPT ![n] = k])
                        * at(b, IF transposed THEN [idx EXCEPT ![n - 1] = idx[n], ![n] = k] ELSE [idx EXCEPT ![n - 1] = k])
    IN  MakeTensor([i \in 1..n |-> IF i = n THEN cols ELSE IF i = n - 1 THEN padded(a)[i]
                                    ELSE Max({padded(a)[i], padded(b)[i]})],
            LAMBDA idx : FoldSet(LAMBDA k, acc : acc + term(idx, k), 0, 0..(a.shape[Ndim(a)] - 1)))

TorchMultiplies(a, b) ==
    /\ Ndim(a) >= 2 /\ Ndim(b) >= 2
    /\ a.shape[Ndim(a)] = b.shape[Ndim(b) - 1]
    /\ \A i \in 2..(Min({Ndim(a), Ndim(b)}) - 1) :
          LET x == a.shape[Ndim(a) - i]
              y == b.shape[Ndim(b) - i]
          IN  x = y \/ x = 1 \/ y = 1

(* convert_matmul: there is no broadcast of ranks, and a constant may have *)
(* lost its leading ones.                                                  *)
Matmul ==
    \E c \in DOMAIN Parameters :
        LET arg == Constant(c)
            other == TorchOf(arg)
            b == AddMissing(arg)
        IN  /\ TorchMultiplies(torch, other)
            /\ Returns("matmul", <<arg>>, TorchMatmul(torch, other, FALSE),
                       MatrixMultiply(trt, b, FALSE), Ndim(b) = Ndim(torch) /\ Ndim(other) <= Ndim(torch))
            /\ constants' = Attached(<<arg>>, <<b>>)

(* convert_einsum, of x with its own transpose: both need a _trt already.  *)
Einsum ==
    /\ Ndim(torch) >= 2
    /\ Keeps("einsum", TorchMatmul(torch, torch, TRUE), MatrixMultiply(trt, trt, TRUE), TRUE)

(* add_fully_connected (external): the last axis, by the kernel's rows.    *)
FullyConnected(t, weight, bias) ==
    MakeTensor([t.shape EXCEPT ![Ndim(t)] = weight.shape[1]],
        LAMBDA idx : bias[idx[Ndim(t)] + 1]
            + FoldSet(LAMBDA k, acc : acc + t.at[[idx EXCEPT ![Ndim(t)] = k]] * weight.at[<<idx[Ndim(t)], k>>], 0,
                      0..(t.shape[Ndim(t)] - 1)))

BiasShape(ndim, n) == [i \in 1..ndim |-> IF i = ndim THEN n ELSE 1]

(* convert_linear.  Before TensorRT 10 it is a fully connected layer; then *)
(* a product with the transposed weight, which gets one axis more and no   *)
(* further ones.                                                           *)
Linear ==
    \E weightShape \in {<<2, 3>>, <<3, 3>>}, hasBias \in BOOLEAN, before10 \in BOOLEAN :
        LET weight == Arange(weightShape)
            n == weightShape[1]
            bias == [i \in 1..n |-> IF hasBias THEN 5 * i ELSE 0]
            kernel == IF Ndim(trt) > 2 THEN Reshape(weight, <<1>> \o weightShape) ELSE weight
            shape == BiasShape(Ndim(trt), n)
            added == MakeTensor(shape, LAMBDA idx : bias[Place(shape, idx) + 1])
        IN  /\ Ndim(torch) > 0 /\ torch.shape[Ndim(torch)] = weightShape[2]
            /\ Keeps("linear",
                  MakeTensor([torch.shape EXCEPT ![Ndim(torch)] = n], LAMBDA idx : bias[idx[Ndim(torch)] + 1]
                     + FoldSet(LAMBDA k, acc : acc + torch.at[[idx EXCEPT ![Ndim(torch)] = k]]
                                                     * weight.at[<<idx[Ndim(torch)], k>>], 0, 0..(weightShape[2] - 1))),
                  IF before10 THEN FullyConnected(trt, weight, bias)
                  ELSE Binary("SUM", MatrixMultiply(trt, kernel, TRUE), added),
                  before10 \/ Ndim(torch) \in 2..3)

-------------------------------------------------------------------------------
Init ==
    /\ torch \in Inputs /\ trt = torch
    /\ constants = [c \in DOMAIN Parameters |-> Failed]
    /\ method = "none" /\ supported = TRUE /\ calls = 0

Next ==
    \/ Elementwise2 \/ Clamp \/ ClampOneSide \/ UnaryMethod \/ Composed \/ Prelu
    \/ Reduction \/ Softmax \/ Normalize \/ Matmul \/ Einsum \/ Linear

Spec == Init /\ [][Next]_vars

-------------------------------------------------------------------------------
Agrees(methods) == method \in methods /\ supported => trt = torch

(* The converter of a method of two operands computes what PyTorch does    *)
(* for every pair of shapes PyTorch broadcasts: with numbers, with         *)
(* constants that lost their leading ones to an earlier converter or keep  *)
(* them, and with the operands in the order of the method.                 *)
BroadcastsAsTorch == Agrees(BinaryMethods)

(* Clamps, activations and prelu do, with the bounds and slopes along the  *)
(* axes PyTorch puts them on.                                              *)
BoundsAndSlopesAsTorch == Agrees({"clamp", "pointwise", "relu6", "silu", "gelu", "prelu"})

(* Reductions, softmax and normalize go along the axes that PyTorch's dim  *)
(* means, however dim is written (negative dims of softmax, lists of mean).*)
ReducesAsTorch == Agrees({"reduce", "softmax", "normalize"})

(* Products and linear layers do, with the bias along the last axis,       *)
(* in both branches of convert_linear.                                     *)
MultipliesAsTorch == Agrees({"matmul", "einsum", "linear"})

(* The converters that compute give what PyTorch computes, for the         *)
(* arguments they handle.                                                  *)
ArithmeticAsTorch ==
    BroadcastsAsTorch /\ BoundsAndSlopesAsTorch /\ ReducesAsTorch /\ MultipliesAsTorch
===============================================================================
