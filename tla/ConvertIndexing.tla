--------------------------- MODULE ConvertIndexing ---------------------------
(***************************************************************************)
(* native_converters.py: the converters that move elements without         *)
(* computing on them.  Each action is a call of the method by the traced   *)
(* program: torch is the tensor PyTorch returns, trt what the layers its   *)
(* converter adds compute; the next call takes the result of this one.     *)
(* What PyTorch does is defined by indices, apart from the layers.         *)
(***************************************************************************)
EXTENDS TrtLayers

CONSTANTS
    Shapes,    \* the shapes of the program's input
    MaxCalls   \* bound: calls in the program

VARIABLES
    torch,     \* the tensor the program has
    trt,       \* the tensor of the network that stands for it
    method,    \* the last method called
    supported, \* whether its arguments are ones the converter handles
    calls

vars == <<torch, trt, method, supported, calls>>

None == 99   \* an argument that is not given
AllDims == -3..2
Dims == {d \in AllDims : d \in -Ndim(torch)..(Ndim(torch) - 1)}

(* torch_dim_resolve_negative, for one dim.                                *)
ResolveNegative(dim, ndim) == IF dim < 0 THEN ndim + dim ELSE dim

Zeros(n) == [i \in 1..n |-> 0]
Ones(n) == [i \in 1..n |-> 1]

(* list.insert, and s[:d] + (x,) + s[d:]: a negative position counts from  *)
(* the end of the list as it is.                                           *)
ListInsert(s, d, x) == InsertAt(s, 1 + (IF d < 0 THEN Max({Len(s) + d, 0}) ELSE Min({d, Len(s)})), x)

(* What a call leaves: PyTorch's result, and the converter's.              *)
Returns(name, result, converted, ok) ==
    /\ calls < MaxCalls /\ trt = torch
    /\ Numel(result.shape) > 0
    /\ torch' = result /\ trt' = converted
    /\ method' = name /\ supported' = ok
    /\ calls' = calls + 1

-------------------------------------------------------------------------------
(* convert_tensor_getitem.  An element of the index is a slice, an int,    *)
(* None (a new axis) or Ellipsis.                                          *)
SliceOf(start, stop, step) == [kind |-> "slice", start |-> start, stop |-> stop, step |-> step]
At(i) == [kind |-> "int", at |-> i]
NewAxis == [kind |-> "none"]
Ellipsis == [kind |-> "ellipsis"]
Whole == SliceOf(None, None, None)
TakesAxis(s) == s.kind \in {"slice", "int"}
NumSliceTypes(slices) == Len(SelectSeq(slices, TakesAxis))

(* Step 1: the ellipsis and the missing slices at the end.                 *)
Expanded(slices, ndim) ==
    LET missing == [i \in 1..(ndim - NumSliceTypes(slices)) |-> Whole]
        pos     == {i \in DOMAIN slices : slices[i].kind = "ellipsis"}
    IN  IF pos = {} THEN slices \o missing
        ELSE LET p == Min(pos) IN SubSeq(slices, 1, p - 1) \o missing \o SubSeq(slices, p + 1, Len(slices))

(* slice_to_trt.                                                           *)
SliceSize(start, stop, step) == (stop - start - 1) \div step + 1
Given(x, default) == IF x = None THEN default ELSE x
MakePositive(n, dim) == IF n < 0 THEN dim + n ELSE n
SliceToTrt(s, dim) ==
    IF s.kind = "int" THEN [start |-> MakePositive(s.at, dim), size |-> 1, stride |-> 1]
    ELSE [start  |-> MakePositive(Given(s.start, 0), dim),
          size   |-> MakePositive(SliceSize(Given(s.start, 0), Given(s.stop, dim), Given(s.step, 1)), dim),
          stride |-> Given(s.step, 1)]

ConvertGetitem(t, slices) ==
    LET all   == Expanded(slices, Ndim(t))
        taken == SelectSeq(all, TakesAxis)
        args  == [i \in DOMAIN taken |-> SliceToTrt(taken[i], t.shape[i])]
        out   == Slice(t, [i \in DOMAIN args |-> args[i].start], [i \in DOMAIN args |-> args[i].size],
                       [i \in DOMAIN args |-> args[i].stride], FALSE)
        left  == SelectSeq(Upto(Len(all)), LAMBDA i : all[i].kind # "int")
        axis(i) == NumSliceTypes(SubSeq(all, 1, i))
    IN  IF \A i \in DOMAIN all : all[i].kind = "slice" THEN out
        ELSE Reshape(out, [i \in DOMAIN left |->
                              IF all[left[i]].kind = "slice" THEN args[axis(left[i])].size ELSE 1])

(* PyTorch: out-of-range bounds of a slice are moved into the axis.        *)
Clip(n, dim) == Max({0, Min({dim, IF n < 0 THEN dim + n ELSE n})})
Elements(s, dim) ==
    IF s.kind = "int" THEN <<MakePositive(s.at, dim)>>
    ELSE LET first == Clip(Given(s.start, 0), dim)
             last  == Clip(Given(s.stop, dim), dim)
         IN  SelectSeq([i \in 1..dim |-> first + (i - 1) * Given(s.step, 1)], LAMBDA e : e < last)

TorchGetitem(t, slices) ==
    LET all   == Expanded(slices, Ndim(t))
        axis(i) == NumSliceTypes(SubSeq(all, 1, i))
        left  == SelectSeq(Upto(Len(all)), LAMBDA i : all[i].kind # "int")
        elems(i) == IF all[i].kind = "none" THEN <<0>> ELSE Elements(all[i], t.shape[axis(i)])
        posOf(i) == CHOOSE k \in DOMAIN left : left[k] = i
        holder(a) == CHOOSE i \in DOMAIN all : TakesAxis(all[i]) /\ axis(i) = a
    IN  MakeTensor([k \in DOMAIN left |-> Len(elems(left[k]))],
            LAMBDA idx : t.at[[a \in 1..Ndim(t) |->
                LET i == holder(a)
                IN  IF all[i].kind = "int" THEN elems(i)[1] ELSE elems(i)[idx[posOf(i)] + 1]]])

(* The bounds that convert: a start inside the axis, and a stop that does  *)
(* not pass its end; with a negative stop the step has to be 1.            *)
SliceSupported(s, dim) ==
    s.kind = "slice" =>
        /\ Given(s.start, 0) \in 0..dim
        /\ \/ Given(s.stop, dim) \in 0..dim
           \/ Given(s.stop, dim) < 0 /\ Given(s.step, 1) = 1

GetitemSupported(t, slices) ==
    LET taken == SelectSeq(Expanded(slices, Ndim(t)), TakesAxis)
    IN  \A i \in DOMAIN taken : SliceSupported(taken[i], t.shape[i])

IndexElements ==
    {SliceOf(a, b, c) : a \in {None, -1, 0, 1}, b \in {None, -1, 2, 9}, c \in {None, 2}}
    \cup {At(-1), At(1), NewAxis, Ellipsis}

Getitem ==
    \E slices \in UNION {[1..n -> IndexElements] : n \in 1..2} :
        /\ NumSliceTypes(slices) <= Ndim(torch)
        /\ Cardinality({i \in DOMAIN slices : slices[i] = Ellipsis}) <= 1
        /\ LET taken == SelectSeq(Expanded(slices, Ndim(torch)), TakesAxis)
           IN  \A i \in DOMAIN taken : taken[i].kind = "int" => MakePositive(taken[i].at, torch.shape[i]) < torch.shape[i]
        /\ Returns("getitem", TorchGetitem(torch, slices), ConvertGetitem(trt, slices),
                   GetitemSupported(torch, slices))

(* An index that is not a tuple: num_slice_types iterates over it.         *)
GetitemOfOne ==
    Returns("getitem", TorchGetitem(torch, <<At(0)>>), Failed, FALSE)

-------------------------------------------------------------------------------
(* convert_narrow: the start is given to the layer as it is.               *)
Narrow ==
    \E dim \in Dims, length \in 1..2 :
        LET d == ResolveNegative(dim, Ndim(torch))
        IN  \E start \in -2..1 :
                LET first == MakePositive(start, Dim(torch.shape, d))
                    shape == [torch.shape EXCEPT ![d + 1] = length]
                IN  /\ first >= 0 /\ first + length <= Dim(torch.shape, d)
                    /\ Returns("narrow",
                          MakeTensor(shape, LAMBDA idx : torch.at[[idx EXCEPT ![d + 1] = @ + first]]),
                          Slice(trt, [Zeros(Ndim(trt)) EXCEPT ![d + 1] = start], shape, Ones(Ndim(trt)), FALSE),
                          start >= 0)

(* convert_split_or_chunk: the offset of a piece is the size of those      *)
(* before it.                                                              *)
Offset(sizes, i) == FoldSeq(LAMBDA n, sum : n + sum, 0, SubSeq(sizes, 1, i - 1))

(* torch.split in sections, and the program goes on with one of them.      *)
SplitOrChunk ==
    \E dim \in Dims :
        LET d == ResolveNegative(dim, Ndim(torch))
            n == Dim(torch.shape, d)
        IN  \E first \in 1..n :
                LET sizes == IF first = n THEN <<n>>
                             ELSE IF 2 * first >= n THEN <<first, n - first>> ELSE <<first, first, n - 2 * first>>
                IN  \E i \in DOMAIN sizes :
                        LET shape == [torch.shape EXCEPT ![d + 1] = sizes[i]]
                        IN  Returns("split",
                              MakeTensor(shape, LAMBDA idx : torch.at[[idx EXCEPT ![d + 1] =
                                 @ + (IF i = 1 THEN 0 ELSE IF i = 2 THEN first ELSE 2 * first)]]),
                              Slice(trt, [Zeros(Ndim(trt)) EXCEPT ![d + 1] = Offset(sizes, i)], shape,
                                    Ones(Ndim(trt)), FALSE), TRUE)

RollStart(s, n) == (-s) % n

(* convert_roll, with two dims; one that is named twice keeps the shift it *)
(* was named with last.                                                    *)
Roll ==
    \E dim1, dim2 \in Dims, s1, s2 \in {-1, 2} :
        LET n == Ndim(torch)
            a == ResolveNegative(dim1, n) + 1
            b == ResolveNegative(dim2, n) + 1
            start == [[Zeros(n) EXCEPT ![a] = RollStart(s1, torch.shape[a])] EXCEPT ![b] = RollStart(s2, torch.shape[b])]
            shift(i) == (IF i = a THEN s1 ELSE 0) + (IF i = b THEN s2 ELSE 0)
        IN  Returns("roll",
              MakeTensor(torch.shape, LAMBDA idx : torch.at[[i \in 1..n |-> (idx[i] - shift(i)) % torch.shape[i]]]),
              Slice(trt, start, trt.shape, Ones(n), TRUE), a # b)

(* convert_cat, of the tensor with itself.                                 *)
CatDim(dim, ndim) == IF dim < 0 THEN ndim - (-dim) ELSE dim
Cat ==
    \E dim \in Dims :
        LET d == ResolveNegative(dim, Ndim(torch)) + 1
            n == torch.shape[d]
        IN  Returns("cat",
              MakeTensor([torch.shape EXCEPT ![d] = 2 * n], LAMBDA idx : torch.at[[idx EXCEPT ![d] = @ % n]]),
              Concatenation(trt, trt, CatDim(dim, Ndim(trt))), TRUE)

(* convert_stack, of the tensor with itself.                               *)
StackDim(dim, ndim) ==
    IF dim < 0 THEN ndim - (IF dim + 1 < 0 THEN -(dim + 1) ELSE dim + 1) ELSE dim

Stack ==
    \E dim \in -(Ndim(torch) + 1)..Ndim(torch) :
        LET d == IF dim < 0 THEN dim + Ndim(torch) + 1 ELSE dim
            c == StackDim(dim, Ndim(trt))
            one == Reshape(trt, ListInsert(trt.shape, c, 1))
        IN  Returns("stack",
              MakeTensor(InsertAt(torch.shape, d + 1, 2), LAMBDA idx : torch.at[RemoveAt(idx, d + 1)]),
              Concatenation(one, one, c), TRUE)

(* convert_expand: the rank stays, and -1 or the size itself keeps an axis. *)
Expand ==
    \E rank \in Ndim(torch)..(Ndim(torch) + 1) : \E sizes \in [1..rank -> {-1, 2, 3}] :
        LET extra == rank - Ndim(torch)
            shape == [i \in 1..rank |-> IF sizes[i] = -1 THEN torch.shape[i - extra] ELSE sizes[i]]
        IN  /\ \A i \in 1..extra : sizes[i] # -1
            /\ \A i \in 1..Ndim(torch) :
                  torch.shape[i] = 1 \/ sizes[i + extra] \in {-1, torch.shape[i]}
            /\ Returns("expand",
                  MakeTensor(shape, LAMBDA idx : torch.at[[i \in 1..Ndim(torch) |->
                                       IF torch.shape[i] = 1 THEN 0 ELSE idx[i + extra]]]),
                  Slice(trt, Zeros(rank), shape,
                        [i \in 1..Ndim(trt) |-> IF trt.shape[i] = shape[i] THEN 1 ELSE 0], FALSE),
                  extra = 0)

(* PyTorch's result of a reshape: the elements in row-major order.         *)
InOrder(shape) == MakeTensor(shape, LAMBDA idx : torch.at[IndexAt(torch.shape, Place(shape, idx))])

(* Mutant: the axis after the flattened ones is left out.                  *)
FlattenedDims_Next(shape, first, last) ==
    SubSeq(shape, 1, first) \o (IF first # last THEN <<-1>> ELSE <<>>) \o SubSeq(shape, last + 3, Len(shape))

(* convert_flatten: no -1 when there is one axis only.                     *)
FlattenedDims(shape, first, last) ==
    SubSeq(shape, 1, first) \o (IF first # last THEN <<-1>> ELSE <<>>) \o SubSeq(shape, last + 2, Len(shape))

Flatten ==
    \E startDim, endDim \in Dims :
        LET first == ResolveNegative(startDim, Ndim(torch))
            last  == ResolveNegative(endDim, Ndim(torch))
        IN  /\ first <= last
            /\ Returns("flatten",
                  InOrder(SubSeq(torch.shape, 1, first)
                          \o <<Numel(SubSeq(torch.shape, first + 1, last + 1))>>
                          \o SubSeq(torch.shape, last + 2, Ndim(torch))),
                  Reshape(trt, FlattenedDims(trt.shape, first, last)), first # last)

(* convert_squeeze: dim is a tuple by then, so no axis is ever skipped.    *)
SqueezedDims(shape, dims) == shape
Squeeze ==
    \E dims \in {{d} : d \in Dims} \cup {Dims} :
        LET axes == {ResolveNegative(d, Ndim(torch)) + 1 : d \in dims}
            left == SelectSeq(Upto(Ndim(torch)), LAMBDA i : i \notin axes \/ torch.shape[i] # 1)
        IN  Returns("squeeze", InOrder([i \in DOMAIN left |-> torch.shape[left[i]]]),
                    Reshape(trt, SqueezedDims(trt.shape, dims)),
                    \A i \in axes : torch.shape[i] # 1)

(* convert_unsqueeze: the new axis is inserted in the list of the old ones. *)
Unsqueeze ==
    \E dim \in -(Ndim(torch) + 1)..Ndim(torch) :
        Returns("unsqueeze",
                InOrder(InsertAt(torch.shape, 1 + (IF dim < 0 THEN dim + Ndim(torch) + 1 ELSE dim), 1)),
                Reshape(trt, ListInsert(trt.shape, dim, 1)), dim >= 0)

(* convert_view.                                                           *)
View ==
    \E size \in {<<-1>>, <<2, -1>>, <<-1, 3>>, <<1, -1>>, <<1, 2, -1>>} :
        /\ Numel(torch.shape) % Numel([i \in DOMAIN size |-> IF size[i] = -1 THEN 1 ELSE size[i]]) = 0
        /\ Returns("view", InOrder(Resolved(torch, size)), Reshape(trt, size), TRUE)

Permuted(perm) ==
    MakeTensor([i \in DOMAIN perm |-> torch.shape[perm[i] + 1]],
        LAMBDA idx : torch.at[[i \in DOMAIN perm |-> idx[CHOOSE k \in DOMAIN perm : perm[k] = i - 1]]])

(* convert_permute: the dims are given to the layer as they are.           *)
Permute ==
    \E dims \in [1..Ndim(torch) -> Dims] :
        LET perm == [i \in DOMAIN dims |-> ResolveNegative(dims[i], Ndim(torch))]
        IN  /\ IsInjective(perm)
            /\ Returns("permute", Permuted(perm), Transpose(trt, dims), \A i \in DOMAIN dims : dims[i] >= 0)

(* permutation[dim0] = dim1, permutation[dim1] = dim0.                     *)
Exchanged(n, a, b) == [i \in 1..n |-> IF i - 1 = a THEN b ELSE IF i - 1 = b THEN a ELSE i - 1]

(* convert_transpose.                                                      *)
Transposition ==
    \E dim0, dim1 \in Dims :
        LET a == ResolveNegative(dim0, Ndim(torch))
            b == ResolveNegative(dim1, Ndim(torch))
        IN  Returns("transpose",
              MakeTensor([[torch.shape EXCEPT ![a + 1] = torch.shape[b + 1]] EXCEPT ![b + 1] = torch.shape[a + 1]],
                 LAMBDA idx : torch.at[[[idx EXCEPT ![a + 1] = idx[b + 1]] EXCEPT ![b + 1] = idx[a + 1]]]),
              Transpose(trt, Exchanged(Ndim(trt), a, b)), TRUE)

PaddingOf(pad) == [pre |-> <<pad[3], pad[1]>>, post |-> <<pad[4], pad[2]>>]

(* convert_pad: four numbers are read; mode and value are ignored.         *)
Pad ==
    \E pad \in {<<1, 1>>, <<1, 0, 0, 2>>, <<0, 1, 1, 1>>, <<0, 0, 1, 0, 1, 1>>}, value \in {0, 7} :
        LET n == Ndim(torch)
            before(i) == IF 2 * (n - i) + 1 \in DOMAIN pad THEN pad[2 * (n - i) + 1] ELSE 0
            after(i) == IF 2 * (n - i) + 2 \in DOMAIN pad THEN pad[2 * (n - i) + 2] ELSE 0
            inside(idx) == [i \in 1..n |-> idx[i] - before(i)]
        IN  /\ Len(pad) <= 2 * n
            /\ Returns(IF value = 0 THEN "pad" ELSE "pad_with_value",
                  MakeTensor([i \in 1..n |-> before(i) + torch.shape[i] + after(i)],
                     LAMBDA idx : IF inside(idx) \in DOMAIN torch.at THEN torch.at[inside(idx)] ELSE value),
                  IF Len(pad) < 4 THEN Failed ELSE Padding(trt, PaddingOf(pad).pre, PaddingOf(pad).post),
                  Len(pad) = 4 /\ value = 0)

(* convert_clone, convert_functional_identity, convert_tensor.             *)
Identity == Returns("clone", torch, trt, TRUE)

Init ==
    /\ \E shape \in Shapes : torch = Arange(shape)
    /\ trt = torch /\ method = "none" /\ supported = TRUE /\ calls = 0

Next ==
    \/ Getitem \/ GetitemOfOne \/ Narrow \/ SplitOrChunk \/ Roll \/ Cat \/ Stack \/ Expand \/ Flatten
    \/ Squeeze \/ Unsqueeze \/ View \/ Permute \/ Transposition \/ Pad \/ Identity

Spec == Init /\ [][Next]_vars

-------------------------------------------------------------------------------
Agrees(methods) == method \in methods /\ supported => trt = torch

(* A part of a tensor, with arguments the converter handles, has the       *)
(* elements PyTorch selects: slices with steps and negative stops, ints,   *)
(* new axes and the ellipsis, narrow, each piece of a split, and roll.     *)
SelectsAsTorch == Agrees({"getitem", "narrow", "split", "roll"})

(* The reshaping methods keep every element in its place in row-major      *)
(* order, with the shape PyTorch gives.                                    *)
ReshapesAsTorch == Agrees({"flatten", "squeeze", "unsqueeze", "view", "expand", "clone"})

(* Joining and padding put every element where PyTorch puts it, for axes   *)
(* counted from either end.                                                *)
JoinsAsTorch == Agrees({"cat", "stack", "pad"})

(* Moved axes end up in PyTorch's order.                                   *)
PermutesAsTorch == Agrees({"permute", "transpose"})

(* The converters that move elements put them where PyTorch does, for the  *)
(* arguments they handle.                                                  *)
IndexingAsTorch ==
    SelectsAsTorch /\ ReshapesAsTorch /\ JoinsAsTorch /\ PermutesAsTorch
===============================================================================
