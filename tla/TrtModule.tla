------------------------------ MODULE TrtModule ------------------------------
(***************************************************************************)
(* torch2trt/trt_module.py: the module that runs an engine in place of the *)
(* converted one.  It is saved in a state dict, loaded from one, and       *)
(* called: forward flattens the arguments, gives the engine the addresses  *)
(* of the inputs and of new outputs, and unflattens the outputs.           *)
(*                                                                         *)
(* An address is a block of the caching allocator, which hands out any     *)
(* free block; a tensor keeps its block as long as something refers to it. *)
(***************************************************************************)
EXTENDS Flattener

CONSTANTS
    Arguments,  \* the arguments the module may have been converted with: tuples
    Results,    \* what it may return: values over "out" tensors
    Places,     \* its place in the module that is saved: "" or a name with a dot
    Strided,    \* the tensors that are not contiguous
    Blocks,     \* memory that is free when forward is called
    None

VARIABLES
    args, result,    \* what the converted module takes and returns
    binding,         \* the engine's own order of its inputs and outputs
    inFlattener, outFlattener,
    saved,           \* the state dict: <<prefix, field>> -> value
    prefix,          \* where the module was saved
    phase,           \* "ready", "inputs", "outputs", "run", "returned" or "raised"
    flat,            \* the flattened arguments
    address,         \* binding -> block
    memory,          \* block -> the tensor whose elements are in it
    free,            \* the free blocks
    answer           \* what forward returned

vars == <<args, result, binding, inFlattener, outFlattener, saved, prefix, phase, flat, address,
          memory, free, answer>>
model == <<args, result, binding>>
call == <<flat, address, memory, free, answer>>

NumIn == FromValue(args).size
NumOut == FromValue(result).size
OutTensor(i) == Tensor(<<"out", i>>)

-------------------------------------------------------------------------------
(* torch2trt made the module; the engine orders its bindings as it likes.  *)
Init ==
    /\ args \in Arguments /\ result \in Results
    /\ \E p \in Permutations(1..(NumIn + NumOut)) : binding = p
    /\ inFlattener = FromValue(args) /\ outFlattener = FromValue(result)
    /\ saved = None /\ prefix = "" /\ phase = "ready"
    /\ flat = <<>> /\ address = <<>> /\ free = {} /\ answer = None
    /\ memory = [b \in Blocks \cup {TensorsOf(args)[i] : i \in 1..NumIn} |->
                    IF b \in Blocks THEN None ELSE b]

(* _on_state_dict; a module without flatteners cannot be saved.            *)
StateDict(p) ==
    /\ phase = "ready" /\ saved = None
    /\ prefix' = p
    /\ IF inFlattener = None \/ outFlattener = None
       THEN phase' = "raised" /\ UNCHANGED saved
       ELSE /\ saved' = [key \in {<<p, f>> : f \in {"engine", "input_names", "output_names",
                                                   "input_flattener", "output_flattener"}} |->
                            CASE key[2] = "input_flattener"  -> inFlattener
                              [] key[2] = "output_flattener" -> outFlattener
                              [] OTHER                       -> key[2]]
            /\ UNCHANGED phase
    /\ UNCHANGED <<model, inFlattener, outFlattener, call>>

(* A state dict written before modules had flatteners.                     *)
OldStateDict(p) ==
    /\ phase = "ready" /\ saved = None
    /\ prefix' = p
    /\ saved' = [key \in {<<p, f>> : f \in {"engine", "input_names", "output_names"}} |-> key[2]]
    /\ UNCHANGED <<model, inFlattener, outFlattener, phase, call>>

(* The flatteners are looked up without the prefix.                        *)
LoadedFlattener(field) ==
    IF <<"", field>> \in DOMAIN saved THEN saved[<<"", field>>] ELSE None

(* _load_from_state_dict, into a new TRTModule at the same place.          *)
Load ==
    /\ phase = "ready" /\ saved # None
    /\ inFlattener' = LoadedFlattener("input_flattener")
    /\ outFlattener' = LoadedFlattener("output_flattener")
    /\ saved' = None
    /\ UNCHANGED <<model, prefix, phase, call>>

(* The flat arguments; without a flattener, the arguments themselves.      *)
Forward ==
    /\ phase = "ready"
    /\ LET inputs == IF inFlattener # None THEN Flatten(inFlattener, args) ELSE args.kids
       IN  /\ flat' = inputs
           /\ phase' = IF NumIn <= Len(inputs) /\ \A i \in 1..NumIn : inputs[i].kind = "tensor"
                       THEN "inputs" ELSE "raised"
    /\ address' = <<>> /\ free' = Blocks
    /\ UNCHANGED <<model, inFlattener, outFlattener, saved, prefix, memory, answer>>

(* Mutant: the inputs are bound in their own order, not by name.           *)
BindingOf_Position(i) == i

BindingOf(i) == binding[i]

With(f, k, v) == [x \in DOMAIN f \cup {k} |-> IF x = k THEN v ELSE f[x]]

(* The next input: its own block, or that of the copy contiguous() makes,  *)
(* which is free again as soon as its address has been taken.              *)
BindInput ==
    /\ phase = "inputs"
    /\ LET i == Cardinality(DOMAIN address) + 1
       IN  IF i > NumIn
           THEN phase' = "outputs" /\ UNCHANGED <<address, memory>>
           ELSE /\ \E b \in IF flat[i].of \in Strided THEN free ELSE {flat[i]} :
                      /\ address' = With(address, BindingOf(i), b)
                      /\ memory' = [memory EXCEPT ![b] = flat[i]]
                /\ UNCHANGED phase
    /\ UNCHANGED <<model, inFlattener, outFlattener, saved, prefix, flat, free, answer>>

(* The next output: torch.empty.                                           *)
BindOutput ==
    /\ phase = "outputs"
    /\ LET i == Cardinality(DOMAIN address) - NumIn + 1
       IN  IF i > NumOut
           THEN phase' = "run" /\ UNCHANGED <<address, free>>
           ELSE /\ \E b \in free : /\ address' = With(address, BindingOf(NumIn + i), b)
                                   /\ free' = free \ {b}
                /\ UNCHANGED phase
    /\ UNCHANGED <<model, inFlattener, outFlattener, saved, prefix, flat, memory, answer>>

(* A tuple of the outputs, or the only one.                                *)
WithoutFlattener(outputs) == IF Len(outputs) = 1 THEN outputs[1] ELSE Tuple(outputs)

(* execute_async, and the outputs are given their structure back.          *)
Execute ==
    /\ phase = "run"
    /\ LET outputs == [i \in 1..NumOut |-> OutTensor(i)]
       IN  answer' = IF outFlattener # None THEN Unflatten(outFlattener, outputs)
                                            ELSE WithoutFlattener(outputs)
    /\ phase' = "returned"
    /\ UNCHANGED <<model, inFlattener, outFlattener, saved, prefix, flat, address, memory, free>>

(* The caller lets go of the answer, and may call or save the module again. *)
Return ==
    /\ phase = "returned"
    /\ phase' = "ready"
    /\ flat' = <<>> /\ address' = <<>> /\ free' = {} /\ answer' = None
    /\ memory' = [b \in DOMAIN memory |-> IF b \in Blocks THEN None ELSE memory[b]]
    /\ UNCHANGED <<model, inFlattener, outFlattener, saved, prefix>>

Next ==
    \/ \E p \in Places : StateDict(p) \/ OldStateDict(p)
    \/ Load
    \/ Forward
    \/ BindInput
    \/ BindOutput
    \/ Execute
    \/ Return

Spec == Init /\ [][Next]_vars

-------------------------------------------------------------------------------
(* A schema keeps what is a tensor and the structure around it: flattening *)
(* gives every tensor once, from left to right, and unflattening gives the *)
(* value back, without the parts that were not tensors.                    *)
FlattenersRoundTrip ==
    \A v \in {args, result} :
        LET fl == FromValue(v)
        IN  /\ Flatten(fl, v) = TensorsOf(v)
            /\ Unflatten(fl, Flatten(fl, v)) = Kept(v)

(* When the engine runs, the block bound to each of its inputs holds that  *)
(* argument, and no output is written to a block that is read or written   *)
(* as another one.  Only the copy of an argument that is not contiguous    *)
(* may have been given away.                                               *)
EngineReadsItsInputs ==
    LET Copied(i) == TensorsOf(args)[i].of \in Strided
    IN  phase = "run" =>
           /\ \A i \in 1..NumIn : ~Copied(i) => memory[address[binding[i]]] = TensorsOf(args)[i]
           /\ \A i \in 1..NumOut, k \in 1..(NumIn + NumOut) :
                 (k <= NumIn => ~Copied(k)) /\ address[binding[k]] = address[binding[NumIn + i]]
                     => k = NumIn + i

(* One tensor, or a tuple of several.                                      *)
PlainResult ==
    \/ result.kind = "tensor"
    \/ result.kind = "tuple" /\ Len(result.kids) > 1 /\ \A i \in DOMAIN result.kids : result.kids[i].kind = "tensor"

(* However often it has been saved and loaded, a module returns what the   *)
(* converted one did; one that has lost its flatteners (from an old state  *)
(* dict, or saved inside another module) too, when the result is plain.    *)
(* Only such a module can fail to take its arguments or to be saved.       *)
ReloadedAnswersAlike ==
    /\ phase = "returned" /\ (inFlattener # None \/ PlainResult) => answer = result
    /\ phase = "raised" => inFlattener = None

(* What the module that runs the engine promises its callers.              *)
EngineAnswersAlike == FlattenersRoundTrip /\ EngineReadsItsInputs /\ ReloadedAnswersAlike
===============================================================================
