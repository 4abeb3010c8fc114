------------------------------ MODULE TrtLayers ------------------------------
(***************************************************************************)
(* Tensors and the TensorRT layers that torch2trt's converters put         *)
(* together (external: as the converters use them).                        *)
(*                                                                         *)
(* A tensor has a shape and an element, an integer, at every index.  Axes  *)
(* and indices count from 0, as in the code.  A layer that TensorRT        *)
(* rejects, and a converter that raises, gives Failed.                     *)
(***************************************************************************)
EXTENDS Integers, Sequences, FiniteSets, SequencesExt, FiniteSetsExt

Failed == [shape |-> <<-1>>, at |-> <<>>]

Ndim(t) == Len(t.shape)
Dim(shape, d) == shape[d + 1]
Numel(shape) == FoldSeq(LAMBDA n, p : n * p, 1, shape)
Upto(n) == [i \in 1..n |-> i]

Indices(shape) ==
    FoldLeft(LAMBDA S, n : {Append(s, i) : s \in S, i \in 0..(n - 1)}, {<<>>}, shape)
Within(shape, idx) == \A i \in DOMAIN shape : idx[i] \in 0..(shape[i] - 1)

MakeTensor(shape, At(_)) == [shape |-> shape, at |-> [idx \in Indices(shape) |-> At(idx)]]

(* The place of an index in row-major order, and the index at a place.     *)
Place(shape, idx) == FoldLeft(LAMBDA acc, i : acc * shape[i] + idx[i], 0, Upto(Len(shape)))
IndexAt(shape, k) ==
    [i \in 1..Len(shape) |-> (k \div Numel(SubSeq(shape, i + 1, Len(shape)))) % shape[i]]

Arange(shape) == MakeTensor(shape, LAMBDA idx : Place(shape, idx) + 1)

(* add_shuffle with reshape_dims: -1 stands for what is left.              *)
Resolved(t, dims) ==
    LET known == Numel(SelectSeq(dims, LAMBDA n : n # -1))
    IN  [i \in DOMAIN dims |->
            IF dims[i] = -1 THEN (IF known = 0 THEN 0 ELSE Numel(t.shape) \div known) ELSE dims[i]]

Reshape(t, dims) ==
    LET shape == Resolved(t, dims)
    IN  IF t = Failed \/ Numel(shape) # Numel(t.shape) \/ \E i \in DOMAIN shape : shape[i] < 0
        THEN Failed
        ELSE MakeTensor(shape, LAMBDA idx : t.at[IndexAt(t.shape, Place(shape, idx))])

(* add_shuffle with second_transpose.                                      *)
Transpose(t, perm) ==
    IF t = Failed \/ Range(perm) # 0..(Ndim(t) - 1) \/ Len(perm) # Ndim(t) THEN Failed
    ELSE MakeTensor([i \in DOMAIN perm |-> Dim(t.shape, perm[i])],
            LAMBDA idx : t.at[[i \in 1..Ndim(t) |-> idx[CHOOSE k \in DOMAIN perm : perm[k] = i - 1]]])

(* add_slice; with wrap, indices past the end start again.                 *)
Slice(t, start, size, stride, wrap) ==
    IF \/ t = Failed \/ Len(start) # Ndim(t) \/ Len(size) # Ndim(t) \/ Len(stride) # Ndim(t)
       \/ \E i \in 1..Ndim(t) :
             \/ size[i] < 0 \/ start[i] < 0
             \/ ~wrap /\ size[i] > 0 /\ start[i] + (size[i] - 1) * stride[i] >= t.shape[i]
    THEN Failed
    ELSE MakeTensor(size, LAMBDA idx : t.at[[i \in 1..Ndim(t) |->
                              IF wrap THEN (start[i] + idx[i] * stride[i]) % t.shape[i]
                                      ELSE start[i] + idx[i] * stride[i]]])

(* add_concatenation.                                                      *)
Concatenation(a, b, axis) ==
    IF \/ a = Failed \/ b = Failed \/ Ndim(a) # Ndim(b) \/ axis \notin 0..(Ndim(a) - 1)
       \/ \E d \in 0..(Ndim(a) - 1) : d # axis /\ Dim(a.shape, d) # Dim(b.shape, d)
    THEN Failed
    ELSE MakeTensor([a.shape EXCEPT ![axis + 1] = @ + Dim(b.shape, axis)],
            LAMBDA idx : IF idx[axis + 1] < Dim(a.shape, axis) THEN a.at[idx]
                         ELSE b.at[[idx EXCEPT ![axis + 1] = @ - Dim(a.shape, axis)]])

(* add_padding: zeros around the last two axes.                            *)
Padding(t, pre, post) ==
    IF t = Failed \/ Ndim(t) < 2 THEN Failed
    ELSE LET first == Ndim(t) - 2
             inside(idx) == [i \in 1..Ndim(t) |-> IF i > first THEN idx[i] - pre[i - first] ELSE idx[i]]
         IN  MakeTensor([i \in 1..Ndim(t) |->
                            IF i > first THEN t.shape[i] + pre[i - first] + post[i - first] ELSE t.shape[i]],
                LAMBDA idx : IF inside(idx) \in DOMAIN t.at THEN t.at[inside(idx)] ELSE 0)

(* add_elementwise: equal ranks, and axes that are equal or 1.             *)
Broadcastable(a, b) == \A i \in DOMAIN a : a[i] = b[i] \/ a[i] = 1 \/ b[i] = 1
Project(t, idx) == [i \in 1..Ndim(t) |-> IF t.shape[i] = 1 THEN 0 ELSE idx[i]]
Elementwise(Op(_, _), a, b) ==
    IF a = Failed \/ b = Failed \/ Ndim(a) # Ndim(b) \/ ~Broadcastable(a.shape, b.shape) THEN Failed
    ELSE MakeTensor([i \in 1..Ndim(a) |-> Max({a.shape[i], b.shape[i]})],
            LAMBDA idx : Op(a.at[Project(a, idx)], b.at[Project(b, idx)]))

(* add_unary and add_activation.                                           *)
Unary(Op(_), t) == IF t = Failed THEN Failed ELSE MakeTensor(t.shape, LAMBDA idx : Op(t.at[idx]))

(* add_reduce with a commutative operation over a set of axes.             *)
Reduce(Op(_, _), t, axes, keepDims) ==
    IF t = Failed \/ axes = {} \/ ~(axes \subseteq 0..(Ndim(t) - 1)) THEN Failed
    ELSE LET kept  == [i \in 1..Ndim(t) |-> IF i - 1 \in axes THEN 1 ELSE t.shape[i]]
             Over(idx) == {k \in Indices(t.shape) : \A i \in 1..Ndim(t) : i - 1 \in axes \/ k[i] = idx[i]}
             Total(idx) == LET first == CHOOSE k \in Over(idx) : TRUE
                           IN  FoldSet(LAMBDA k, acc : Op(acc, t.at[k]), t.at[first], Over(idx) \ {first})
             full  == MakeTensor(kept, Total)
             left  == SelectSeq(Upto(Ndim(t)), LAMBDA i : i - 1 \notin axes)
         IN  IF keepDims THEN full ELSE Reshape(full, [i \in DOMAIN left |-> t.shape[left[i]]])

-------------------------------------------------------------------------------
(* Numbers are integers.  A quotient or a root that is no integer, and the *)
(* value of a transcendental function, is an opaque number that depends on *)
(* its arguments; NaN is what 0/0 gives.                                   *)
NaN == 1000000
Opaque(k, u, v) == 5000 + ((7919 * k + 101 * (u % 4999) + 31 * (v % 4999)) % 4999)
Abs(u) == IF u < 0 THEN -u ELSE u

FloorDiv(u, v) == IF v < 0 THEN (-u) \div (-v) ELSE u \div v
Truncated(u, v) == (IF (u < 0) # (v < 0) THEN -1 ELSE 1) * (Abs(u) \div Abs(v))

(* trt.ElementWiseOperation, on numbers (external).                        *)
ElementWiseOperation(op, u, v) ==
    IF NaN \in {u, v} THEN NaN
    ELSE CASE op = "SUM" -> u + v
           [] op = "SUB" -> u - v
           [] op = "PROD" -> u * v
           [] op = "DIV" -> IF v = 0 THEN (IF u = 0 THEN NaN ELSE Opaque(1, u, v))
                            ELSE IF Abs(u) % Abs(v) = 0 THEN FloorDiv(u, v) ELSE Opaque(1, u, v)
           [] op = "FLOOR_DIV" -> IF v = 0 THEN NaN ELSE FloorDiv(u, v)
           [] op = "POW" -> IF v = 0 THEN 1 ELSE IF v > 0 THEN u ^ v ELSE Opaque(2, u, v)
           [] op = "MAX" -> Max({u, v})
           [] op = "MIN" -> Min({u, v})
           [] op = "GREATER" -> IF u > v THEN 1 ELSE 0
           [] op = "LESS" -> IF u < v THEN 1 ELSE 0
           [] op = "EQUAL" -> IF u = v THEN 1 ELSE 0

(* trt.UnaryOperation and trt.ActivationType, on numbers (external).       *)
Curves == <<"EXP", "LOG", "SQRT", "RECIP", "SIN", "COS", "TAN", "SINH", "COSH", "ASIN", "ACOS", "ATAN",
            "ELU", "SELU", "SOFTSIGN", "SOFTPLUS", "SIGMOID", "TANH">>
UnaryOperation(op, u) ==
    CASE u = NaN -> NaN
      [] u # NaN /\ op = "ABS" -> Abs(u)
      [] u # NaN /\ op = "NEG" -> -u
      [] u # NaN /\ op = "NOT" -> 1 - u
      [] u # NaN /\ op = "RELU" -> Max({u, 0})
      [] u # NaN /\ op = "LEAKY_RELU" -> IF u < 0 THEN Opaque(3, u, 0) ELSE u
      [] u # NaN /\ op \in {"CEIL", "FLOOR"} -> u
      [] OTHER -> Opaque(3 + (CHOOSE i \in DOMAIN Curves : Curves[i] = op), u, 0)

Binary(op, a, b) == Elementwise(LAMBDA u, v : ElementWiseOperation(op, u, v), a, b)
Apply(op, t) == Unary(LAMBDA u : UnaryOperation(op, u), t)

(* add_reduce with AVG.                                                    *)
SizeOver(t, axes) == Numel([i \in 1..Ndim(t) |-> IF i - 1 \in axes THEN t.shape[i] ELSE 1])
Divided(t, n) == Unary(LAMBDA u : ElementWiseOperation("DIV", u, n), t)
Average(t, axes, keepDims) == Divided(Reduce(LAMBDA u, v : u + v, t, axes, keepDims), SizeOver(t, axes))

(* add_scale and add_scale_nd by channel (axis 1), power 1: at least four  *)
(* axes.                                                                   *)
ScaleByChannel(t, offset, scale) ==
    IF t = Failed \/ Ndim(t) < 4 \/ Len(offset) # t.shape[2] THEN Failed
    ELSE MakeTensor(t.shape, LAMBDA idx : t.at[idx] * scale[idx[2] + 1] + offset[idx[2] + 1])
===============================================================================
