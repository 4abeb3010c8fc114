----------------------------- MODULE MCTorch2Trt -----------------------------
(***************************************************************************)
(* The stages of torch2trt, one per behaviour: the hooks under which a     *)
(* module is traced, the sizes computed meanwhile, the way from example    *)
(* inputs to the profile of the engine, and the module that runs it.  Each *)
(* stage hands its result to the next one only once, when it is complete.  *)
(***************************************************************************)
EXTENDS ConversionContext, ShapeWrapper, EngineBuild

CONSTANT Blocks

VARIABLES
    part,
    \* TrtModule, whose phase is trtPhase
    args, result, binding, inFlattener, outFlattener, saved, prefix, trtPhase, flat, address,
    memory, free, answer

trtVars == <<args, result, binding, inFlattener, outFlattener, saved, prefix, trtPhase, flat,
             address, memory, free, answer>>

(* A module with two children that have a device type of their own.        *)
MCDeviceTypes == [m \in {"backbone", "head"} |-> IF m = "head" THEN "GPU" ELSE "DLA"]

(* Inputs of 2, 3 or 5 rows, traced with 3 (ShapeWrapper).                *)
MCSizes == {2, 3, 5}

(* Two inputs: items that differ in the batch of both, in the batch of     *)
(* one, in another axis, and in the rank (EngineBuild).                    *)
MCInputs ==
    {<<<<1, 2>>, <<1, 1>>>>, <<<<2, 2>>, <<2, 1>>>>, <<<<1, 3>>, <<1, 1>>>>,
     <<<<2, 2>>, <<1, 1>>>>, <<<<1, 1, 2>>, <<1, 1>>>>}

(* Modules of one and of two tensors with nested arguments and results,    *)
(* saved alone or inside another module; y is not contiguous.              *)
Values == INSTANCE Flattener
x == Values!Tensor("x")
y == Values!Tensor("y")
out1 == Values!Tensor(<<"out", 1>>)
out2 == Values!Tensor(<<"out", 2>>)
Trt == INSTANCE TrtModule WITH
    Arguments <- {Values!Tuple(<<x>>), Values!Tuple(<<x, y>>), Values!Tuple(<<x, Values!Other, y>>),
                  Values!Tuple(<<Values!Node("dict", [k \in {1, 3} |->
                                     IF k = 1 THEN y ELSE Values!Node("list", <<x>>)])>>),
                  Values!Tuple(<<Values!Node("list", <<x, Values!Tuple(<<Values!Other, y>>)>>)>>)},
    Results <- {out1, Values!Tuple(<<out1>>), Values!Tuple(<<out1, out2>>),
                Values!Node("dict", [k \in {2, 5} |-> IF k = 2 THEN Values!Node("list", <<out1>>) ELSE out2])},
    Places <- {"", "backbone."}, Strided <- {"y"}, phase <- trtPhase

mcVars == <<vars, shapeVars, engineVars, trtVars, part>>

MCInit ==
    /\ Init /\ ShapesInit /\ BuildInit
    /\ part \in {"context", "shapes", "build", "module"}
    /\ part # "build" => kind = "list"
    /\ IF part = "module" THEN Trt!Init
       ELSE /\ args = Values!Tuple(<<x>>) /\ result = out1 /\ binding = <<1, 2>>
            /\ inFlattener = None /\ outFlattener = None /\ saved = None /\ prefix = ""
            /\ trtPhase = "none" /\ flat = <<>> /\ address = <<>> /\ free = {} /\ answer = None
            /\ memory = <<>>

MCNext ==
    \/ part = "context" /\ Next /\ UNCHANGED <<shapeVars, engineVars, trtVars, part>>
    \/ part = "shapes" /\ ShapesNext /\ UNCHANGED <<vars, engineVars, trtVars, part>>
    \/ part = "build" /\ BuildNext /\ UNCHANGED <<vars, shapeVars, trtVars, part>>
    \/ part = "module" /\ Trt!Next /\ UNCHANGED <<vars, shapeVars, engineVars, part>>

MCSpec == MCInit /\ [][MCNext]_mcVars

(* A converted module, saved and loaded, answers as the model does         *)
(* (TrtModule).                                                            *)
EngineAnswersAlike == Trt!EngineAnswersAlike
===============================================================================
