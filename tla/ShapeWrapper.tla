----------------------------- MODULE ShapeWrapper -----------------------------
(***************************************************************************)
(* torch2trt.py: shape wrapping.  During the conversion a size of a tensor *)
(* is an IntWrapper: an int, the size in the example input, that carries a *)
(* TensorRT tensor which computes the same number for the input of each    *)
(* later inference.  Arithmetic on such ints extends the network.          *)
(*                                                                         *)
(* A number is a record: int, its value in this trace; trt, what its       *)
(* network node computes for each size of the dynamic axis; meant, what    *)
(* the traced program computes for that size; live, whether the program    *)
(* only used operations that are wrapped.                                  *)
(***************************************************************************)
EXTENDS Integers, Sequences

CONSTANTS
    Sizes,      \* the sizes the dynamic axis of the input may have
    TraceSize,  \* its size in the example input
    Static,     \* the size of the other axis
    Literals,   \* the int literals of the traced program
    MaxValues,  \* bound: numbers the program computes
    Bound       \* bound: their magnitude

VARIABLES
    values,   \* the numbers computed so far
    wrapping  \* use_shape_wrapping.stack, without its last, permanent entry

shapeVars == <<values, wrapping>>

Constant(n) == [s \in Sizes |-> n]
Axes == {"dynamic", "static"}
SizeOf(axis, s) == IF axis = "dynamic" THEN s ELSE Static

(* int.__mul__, __add__, __sub__, __floordiv__ and TensorRT's PROD, SUM,   *)
(* SUB and FLOOR_DIV.                                                      *)
Operations == {"mul", "add", "sub", "floordiv"}
Apply(op, a, b) ==
    CASE op = "mul"      -> a * b
      [] op = "add"      -> a + b
      [] op = "sub"      -> a - b
      [] op = "floordiv" -> a \div b

Defined(op, x, y) == op = "floordiv" => \A s \in Sizes : x.meant[s] >= 0 /\ y.meant[s] > 0 /\ y.trt[s] > 0

-------------------------------------------------------------------------------
(* A plain int: a literal, or what an operation that is not wrapped gives. *)
(* When it meets an IntWrapper, IntWrapper(x)._trt is a constant.          *)
Plain(n, meant, live) == [int |-> n, trt |-> Constant(n), meant |-> meant, live |-> live]
Literal(n) == Plain(n, Constant(n), TRUE)

SizeNode(axis) == [s \in Sizes |-> SizeOf(axis, s)]

(* _size_wrapper on a tensor of the network: the shape layer and a slice.  *)
Wrapped(axis) ==
    [int |-> SizeOf(axis, TraceSize), trt |-> SizeNode(axis),
     meant |-> [s \in Sizes |-> SizeOf(axis, s)], live |-> TRUE]

(* The size as a plain int: the attribute shape with wrapping disabled.    *)
Unwrapped(axis) ==
    Plain(SizeOf(axis, TraceSize), [s \in Sizes |-> SizeOf(axis, s)], axis = "static")

(* Mutant: the node of a result is computed once, from the traced ints.    *)
ResultNode_Traced(op, x, y) == Constant(Apply(op, x.int, y.int))

ResultNode(op, x, y) == [s \in Sizes |-> Apply(op, x.trt[s], y.trt[s])]

(* x op y with an IntWrapper on either side.                               *)
Result(op, x, y) ==
    [int |-> Apply(op, x.int, y.int), trt |-> ResultNode(op, x, y),
     meant |-> [s \in Sizes |-> Apply(op, x.meant[s], y.meant[s])],
     live |-> x.live /\ y.live]

ShapesInit == values = <<>> /\ wrapping = <<>>

Compute(v) ==
    /\ Len(values) < MaxValues
    /\ \A s \in Sizes : v.meant[s] \in -Bound..Bound /\ v.trt[s] \in -Bound..Bound
    /\ values' = Append(values, v)
    /\ UNCHANGED wrapping

(* tensor.size(): always wrapped.                                          *)
Size == \E axis \in Axes : Compute(Wrapped(axis))

Wraps == wrapping = <<>> \/ Head(wrapping)

(* tensor.shape, through _new_getattr.                                     *)
Shape == \E axis \in Axes : Compute(IF Wraps THEN Wrapped(axis) ELSE Unwrapped(axis))

(* __mul__, __add__, __sub__, __floordiv__ and their reflected forms.      *)
Arithmetic ==
    \E op \in Operations, i \in DOMAIN values :
        \E y \in {values[j] : j \in DOMAIN values} \cup {Literal(n) : n \in Literals} :
            \/ Defined(op, values[i], y) /\ Compute(Result(op, values[i], y))
            \/ Defined(op, y, values[i]) /\ Compute(Result(op, y, values[i]))

(* Any other operation of int, as %: the result is a plain int.            *)
NotWrapped ==
    \E i \in DOMAIN values, n \in Literals \ {0} :
        /\ \A s \in Sizes : values[i].meant[s] >= 0
        /\ values[i].int >= 0
        /\ Compute(Plain(values[i].int % n, [s \in Sizes |-> values[i].meant[s] % n], FALSE))

(* with use_shape_wrapping(b).                                             *)
EnterWrapping ==
    /\ Len(wrapping) < 2
    /\ \E b \in BOOLEAN : wrapping' = <<b>> \o wrapping
    /\ UNCHANGED values

ExitWrapping ==
    /\ wrapping # <<>>
    /\ wrapping' = Tail(wrapping)
    /\ UNCHANGED values

ShapesNext == Size \/ Shape \/ Arithmetic \/ NotWrapped \/ EnterWrapping \/ ExitWrapping

ShapesSpec == ShapesInit /\ [][ShapesNext]_shapeVars

-------------------------------------------------------------------------------
(* What the traced program saw is what its network computes for the input  *)
(* of the trace, whatever operations were used; and a number that the      *)
(* program computes with wrapped operations only is, in the engine, the    *)
(* number it would compute for each size of the input (IntWrapper).        *)
ShapesFollowTheInput ==
    \A i \in DOMAIN values :
        /\ values[i].trt[TraceSize] = values[i].int
        /\ values[i].live => values[i].trt = values[i].meant

(* The inductive invariant: such numbers only, each within the bounds that *)
(* Compute keeps.                                                          *)
Following ==
    {v \in [int : -Bound..Bound, trt : [Sizes -> -Bound..Bound], meant : [Sizes -> -Bound..Bound],
            live : BOOLEAN] :
        /\ v.trt[TraceSize] = v.int
        /\ v.live => v.trt = v.meant}

ShapesInv == values \in Seq(Following)
===============================================================================
