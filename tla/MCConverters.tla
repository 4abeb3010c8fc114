----------------------------- MODULE MCConverters -----------------------------
(***************************************************************************)
(* The converters of native_converters.py, as four families.  A behaviour  *)
(* is the trace of a short program that calls methods of one family: torch *)
(* is what PyTorch returns, trt what the network computes.                 *)
(***************************************************************************)
EXTENDS TrtLayers

VARIABLES family, torch, trt, constants, method, supported, calls

mcVars == <<family, torch, trt, constants, method, supported, calls>>

Numbers(shape, first) == MakeTensor(shape, LAMBDA idx : Place(shape, idx) + first)

(* Tensors of one, two and three axes, one of them of size 1.              *)
Indexing == INSTANCE ConvertIndexing WITH
    Shapes <- {<<3>>, <<2, 3>>, <<3, 1>>, <<1, 2, 3>>}, MaxCalls <- 1

(* Inputs with negative, zero and positive numbers; a row, a row that is   *)
(* written with leading ones, a column, a matrix, and one of another dtype. *)
Arithmetic == INSTANCE ConvertArithmetic WITH
    Inputs <- {Numbers(<<2, 3>>, -2), Numbers(<<3>>, -1), Numbers(<<2, 2, 3>>, 1)},
    Parameters <- [row |-> Numbers(<<3>>, 1), ones |-> Numbers(<<1, 1, 3>>, 2),
                   column |-> Numbers(<<2, 1>>, -2), matrix |-> Numbers(<<1, 3, 2>>, 1),
                   half |-> Numbers(<<3>>, 1)],
    HalfDtype <- {"half"}, MaxCalls <- 2, MaxMagnitude <- 9

(* Two to five axes; multiples of 24, so that means are integers.          *)
Uneven(shape) ==
    MakeTensor(shape, LAMBDA idx : 24 * (((Place(shape, idx) * Place(shape, idx)) % 5) - 1))
Norms == INSTANCE ConvertNorms WITH
    Inputs <- {Uneven(<<2, 2>>), Uneven(<<2, 4, 2>>), Uneven(<<1, 4, 2, 1>>), Uneven(<<2, 2, 1, 3>>),
               Uneven(<<1, 2, 2, 1, 2>>)},
    Eps <- 1, MaxCalls <- 2, MaxMagnitude <- 500

(* One and two spatial axes, of different sizes.                           *)
Windows == INSTANCE ConvertWindows WITH
    Inputs <- {Arange(<<1, 2, 4>>), Arange(<<1, 2, 4, 3>>)}, MaxCalls <- 1

NoConstants == constants = <<>>

MCInit ==
    \/ family = "indexing" /\ Indexing!Init /\ NoConstants
    \/ family = "arithmetic" /\ Arithmetic!Init
    \/ family = "norms" /\ Norms!Init /\ NoConstants
    \/ family = "windows" /\ Windows!Init /\ NoConstants

MCNext ==
    \/ family = "indexing" /\ Indexing!Next /\ UNCHANGED <<family, constants>>
    \/ family = "arithmetic" /\ Arithmetic!Next /\ UNCHANGED family
    \/ family = "norms" /\ Norms!Next /\ UNCHANGED <<family, constants>>
    \/ family = "windows" /\ Windows!Next /\ UNCHANGED <<family, constants>>

MCSpec == MCInit /\ [][MCNext]_mcVars

(* Elements are selected, moved and joined as PyTorch does                 *)
(* (ConvertIndexing).                                                      *)
IndexingAsTorch == Indexing!IndexingAsTorch

(* Elementwise operations, reductions and products are PyTorch's           *)
(* (ConvertArithmetic).                                                    *)
ArithmeticAsTorch == Arithmetic!ArithmeticAsTorch

(* Normalisations are PyTorch's (ConvertNorms).                            *)
NormsAsTorch == Norms!NormsAsTorch

(* Convolution, pooling and interpolation are PyTorch's (ConvertWindows).  *)
WindowsAsTorch == Windows!WindowsAsTorch
===============================================================================
