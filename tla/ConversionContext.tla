--------------------------- MODULE ConversionContext ---------------------------
(***************************************************************************)
(* torch2trt.py: the ConversionContext under which a module runs once while *)
(* the TensorRT network is built.  Entering it replaces the registered     *)
(* methods by the wrapper of attach_converter and hooks every module; the  *)
(* wrapper runs the method and then its converter, unless a converter that *)
(* is already running (it holds ctx.lock) stands for the whole call.       *)
(*                                                                         *)
(* The module's forward is arbitrary code: it calls modules and methods,   *)
(* nested in any order, any of them may raise, and the module may catch.   *)
(***************************************************************************)
EXTENDS Naturals, Sequences, SequencesExt

CONSTANTS
    Modules,       \* named_modules() of the module to convert
    Root,          \* that module
    DeviceTypes,   \* the argument device_types: a function on some of Modules
    DefaultDevice, \* default_device_type
    Registered,    \* the methods a converter is registered for
    Real,          \* those whose converter is_real (the others only warn)
    Unregistered,  \* other functions: composed of methods, with no converter
    MaxDepth,      \* bound: frames on the call stack
    MaxLayers      \* bound: layers of the network

(* trt.DeviceType.                                                         *)
Devices == {"GPU", "DLA"}

ASSUME ContextAssumption ==
    /\ Root \in Modules
    /\ DOMAIN DeviceTypes \subseteq Modules
    /\ \A m \in DOMAIN DeviceTypes : DeviceTypes[m] \in Devices
    /\ DefaultDevice \in Devices
    /\ Real \subseteq Registered
    /\ Registered \cap Unregistered = {}
    /\ MaxDepth \in Nat /\ MaxLayers \in Nat

VARIABLES
    phase,        \* "before", "active", "raising", "finished" or "failed"
    attached,     \* the methods that are replaced by their wrapper
    frames,       \* the call stack, the innermost call last
    lock,         \* ctx.lock
    methodArgs,   \* ctx.method_args is not None
    moduleStack,  \* ctx.module_stack
    deviceStack,  \* ctx.device_type_stack: <<module, device>>
    layerCounts,  \* network._layer_counts
    layers,       \* the layers added, as <<scope, number, device>>
    lost          \* what a caught exception left behind: "lock", "module"

vars == <<phase, attached, frames, lock, methodArgs, moduleStack, deviceStack, layerCounts,
          layers, lost>>
context == <<attached, lock, methodArgs, moduleStack, deviceStack, layerCounts, layers>>

ModuleFrame(m) == [kind |-> "module", of |-> m, skip |-> TRUE, stage |-> "running"]
MethodFrame(f, skip) == [kind |-> "method", of |-> f, skip |-> skip, stage |-> "running"]
Top == Last(frames)
CanCall == phase = "active" /\ frames # <<>> /\ Len(frames) < MaxDepth

(* A frame that took the lock: a real converter stands for this call.      *)
Holds(f) == f.kind = "method" /\ ~f.skip /\ f.of \in Real

-------------------------------------------------------------------------------
(* The device type in force, and the module that set it.                   *)
CurrentDeviceType == IF deviceStack # <<>> THEN Last(deviceStack)[2] ELSE DefaultDevice
CurrentDeviceTypeModule == IF deviceStack # <<>> THEN {Last(deviceStack)[1]} ELSE {}

Init ==
    /\ phase = "before" /\ attached = {} /\ frames = <<>>
    /\ lock = FALSE /\ methodArgs = FALSE
    /\ moduleStack = <<>> /\ deviceStack = <<>>
    /\ layerCounts = [m \in Modules |-> 0]
    /\ layers = <<>> /\ lost = {}

(* __enter__, and the call of the module in torch2trt.                     *)
Enter ==
    /\ phase = "before"
    /\ phase' = "active"
    /\ attached' = Registered
    /\ frames' = <<ModuleFrame(Root)>>
    /\ moduleStack' = <<Root>>
    /\ deviceStack' = IF Root \in DOMAIN DeviceTypes THEN <<<<Root, DeviceTypes[Root]>>>> ELSE <<>>
    /\ UNCHANGED <<lock, methodArgs, layerCounts, layers, lost>>

DevicesOnEntry(m) ==
    IF m \in DOMAIN DeviceTypes THEN Append(deviceStack, <<m, DeviceTypes[m]>>) ELSE deviceStack

(* A module is called: _module_pre_hook.                                   *)
ModulePreHook(m) ==
    /\ CanCall /\ Top.stage = "running"
    /\ moduleStack' = Append(moduleStack, m)
    /\ deviceStack' = DevicesOnEntry(m)
    /\ frames' = Append(frames, ModuleFrame(m))
    /\ UNCHANGED <<phase, attached, lock, methodArgs, layerCounts, layers, lost>>

(* Mutant: the device type is popped on every exit.                        *)
DevicesOnExit_Always(m) == IF deviceStack # <<>> THEN Front(deviceStack) ELSE deviceStack

DevicesOnExit(m) == IF m \in CurrentDeviceTypeModule THEN Front(deviceStack) ELSE deviceStack

(* A module returns: _module_post_hook.                                    *)
ModulePostHook ==
    /\ phase = "active" /\ frames # <<>> /\ Top.kind = "module"
    /\ deviceStack' = DevicesOnExit(Top.of)
    /\ moduleStack' = Front(moduleStack)
    /\ frames' = Front(frames)
    /\ UNCHANGED <<phase, attached, lock, methodArgs, layerCounts, layers, lost>>

Skipped(f) == f \notin attached \/ lock

TakesLock(f) == ~Skipped(f) /\ f \in Real

(* A method is called, by a module, by another method, or by a converter   *)
(* (a converter that is not real only prints).                             *)
CallMethod(f) ==
    /\ CanCall /\ (Top.stage = "running" \/ Top.of \in Real)
    /\ frames' = Append(frames, MethodFrame(f, Skipped(f)))
    /\ lock' = (lock \/ TakesLock(f))
    /\ UNCHANGED <<phase, attached, methodArgs, moduleStack, deviceStack, layerCounts, layers, lost>>

ArgsAfterMethod == ~Top.skip \/ methodArgs

(* The original method returns: its converter starts, or it was skipped.   *)
MethodReturns ==
    /\ phase = "active" /\ frames # <<>> /\ Top.kind = "method" /\ Top.stage = "running"
    /\ frames' = (IF Top.skip THEN Front(frames)
                  ELSE [frames EXCEPT ![Len(frames)].stage = "converting"])
    /\ methodArgs' = ArgsAfterMethod
    /\ UNCHANGED <<phase, attached, lock, moduleStack, deviceStack, layerCounts, layers, lost>>

Counted(m) == [layerCounts EXCEPT ![m] = @ + 1]

(* A real converter adds a layer; NetworkWrapper._configure_layer gives it *)
(* its device type and its name.                                           *)
AddLayer ==
    /\ phase = "active" /\ frames # <<>> /\ Top.stage = "converting" /\ Top.of \in Real
    /\ Len(layers) < MaxLayers
    /\ LET scope == Last(moduleStack)
       IN  /\ layerCounts' = Counted(scope)
           /\ layers' = Append(layers, <<scope, layerCounts'[scope] - 1, CurrentDeviceType>>)
    /\ UNCHANGED <<phase, attached, frames, lock, methodArgs, moduleStack, deviceStack, lost>>

(* The converter returns; lock is released, whoever took it.               *)
ConverterReturns ==
    /\ phase = "active" /\ frames # <<>> /\ Top.stage = "converting"
    /\ frames' = Front(frames)
    /\ methodArgs' = FALSE
    /\ lock' = FALSE
    /\ lost' = lost \ {"lock"}
    /\ UNCHANGED <<phase, attached, moduleStack, deviceStack, layerCounts, layers>>

(* A method, a converter or a module raises (bound: not again once one was *)
(* caught that left something behind).                                     *)
Raise ==
    /\ phase = "active" /\ frames # <<>> /\ lost = {}
    /\ phase' = "raising"
    /\ UNCHANGED <<context, frames, lost>>

(* The exception leaves a frame: neither the end of the wrapper nor the    *)
(* forward hook of a module runs.                                          *)
Unwind ==
    /\ phase = "raising" /\ frames # <<>>
    /\ frames' = Front(frames)
    /\ lost' = lost \cup (IF Holds(Top) THEN {"lock"} ELSE {})
                    \cup (IF Top.kind = "module" THEN {"module"} ELSE {})
    /\ UNCHANGED <<phase, context>>

(* The code of a module or of a method catches it.                         *)
Catch ==
    /\ phase = "raising" /\ frames # <<>> /\ Top.stage = "running"
    /\ phase' = "active"
    /\ UNCHANGED <<context, frames, lost>>

AttachedAfterExit == {}

(* The with statement ends: __exit__ restores the methods in any case.     *)
Exit ==
    /\ phase \in {"active", "raising"} /\ frames = <<>>
    /\ phase' = (IF phase = "raising" THEN "failed" ELSE "finished")
    /\ attached' = AttachedAfterExit
    /\ UNCHANGED <<frames, lock, methodArgs, moduleStack, deviceStack, layerCounts, layers, lost>>

Next ==
    \/ Enter
    \/ \E m \in Modules : ModulePreHook(m)
    \/ ModulePostHook
    \/ \E f \in Registered \cup Unregistered : CallMethod(f)
    \/ MethodReturns
    \/ AddLayer
    \/ ConverterReturns
    \/ Raise
    \/ Unwind
    \/ Catch
    \/ Exit

Spec == Init /\ [][Next]_vars

-------------------------------------------------------------------------------
Frames == [kind : {"module", "method"}, of : Modules \cup Registered \cup Unregistered,
           skip : BOOLEAN, stage : {"running", "converting"}]

(* The types of the variables.                                             *)
TypeOK ==
    /\ phase \in {"before", "active", "raising", "finished", "failed"}
    /\ attached \subseteq Registered
    /\ frames \in Seq(Frames)
    /\ lock \in BOOLEAN /\ methodArgs \in BOOLEAN
    /\ moduleStack \in Seq(Modules)
    /\ deviceStack \in Seq(Modules \X Devices)
    /\ layerCounts \in [Modules -> Nat]
    /\ layers \in Seq(Modules \X Nat \X Devices)
    /\ lost \subseteq {"lock", "module"}

(* ctx.lock is held exactly while a call that a real converter stands for  *)
(* is on the stack; an exception that leaves such a call and is caught     *)
(* leaves the lock held, and nothing more is converted until a call that   *)
(* began before it, if there is one, returns.                              *)
LockFollowsTheCall ==
    phase = "active" =>
        (lock <=> ("lock" \in lost \/ \E i \in DOMAIN frames : Holds(frames[i])))

(* A call is converted once: two calls that both have a converter of their *)
(* own are never nested.                                                   *)
ConvertedOnce ==
    \A i, j \in DOMAIN frames : Holds(frames[i]) /\ Holds(frames[j]) => i = j

(* The frames of modules, those with a device type of their own, and the   *)
(* innermost of some frames.                                               *)
Scopes == {i \in DOMAIN frames : frames[i].kind = "module"}
Typed == {i \in Scopes : frames[i].of \in DOMAIN DeviceTypes}
Innermost(F) == CHOOSE i \in F : \A j \in F : j <= i

(* The device a layer should be on: that of the innermost enclosing module *)
(* with a device type.                                                     *)
EnclosingDevice ==
    IF Typed = {} THEN DefaultDevice ELSE DeviceTypes[frames[Innermost(Typed)].of]

(* The module whose forward is running.                                    *)
EnclosingModule == frames[Innermost(Scopes)].of

(* Unless an exception that left a module was caught, a layer is named for *)
(* the module it was traced in and runs where device_types says.           *)
LayerIsPlaced ==
    Len(layers') > Len(layers) /\ "module" \notin lost =>
        /\ Last(layers')[1] = EnclosingModule
        /\ Last(layers')[3] = EnclosingDevice

(* No two layers have one name.                                            *)
LayerNamesUnique ==
    \A i, j \in DOMAIN layers :
        layers[i][1] = layers[j][1] /\ layers[i][2] = layers[j][2] => i = j

(* After the with statement, however it ended, PyTorch has its own methods *)
(* back.                                                                   *)
MethodsRestored == phase \in {"before", "finished", "failed"} => attached = {}

(* While a converter runs, method_args is there to be read, whatever       *)
(* wrapped methods the converter itself has called.                        *)
ArgumentsAtHand ==
    (phase = "active" /\ frames # <<>> /\ Top.stage = "converting") => methodArgs

(* What the conversion hooks promise at every moment, with the types.      *)
CallsConvertedOnce ==
    /\ TypeOK /\ LockFollowsTheCall /\ ConvertedOnce
    /\ LayerNamesUnique /\ MethodsRestored /\ ArgumentsAtHand

(* The network is the traced model: every outermost call is converted once *)
(* and into layers of its own module, however calls nest and raise         *)
(* (attach_converter, ConversionContext, NetworkWrapper).                  *)
TracedAsCalled == [][CallsConvertedOnce' /\ LayerIsPlaced]_vars

-------------------------------------------------------------------------------
(* The inductive invariant behind it.  The places among 1..n that the      *)
(* frames F can have in their order, and whether there is no place besides *)
(* theirs.                                                                 *)
Placements(F, n) == {g \in [F -> 1..n] : \A i, j \in F : i < j => g[i] < g[j]}
Filled(g, n) == \A k \in 1..n : \E i \in DOMAIN g : g[i] = k

DeviceEntry(i) == <<frames[i].of, DeviceTypes[frames[i].of]>>

(* Every running module has its entry in the stack of modules.  There may  *)
(* be others only after an exception that left a module was caught.        *)
ScopeInv ==
    \E g \in Placements(Scopes, Len(moduleStack)) :
        "module" \notin lost => /\ Filled(g, Len(moduleStack))
                                /\ \A i \in Scopes : moduleStack[g[i]] = frames[i].of

(* The same for the stack of devices, unless there was one.                *)
DeviceInv ==
    "module" \notin lost =>
        \E g \in Placements(Typed, Len(deviceStack)) :
            /\ Filled(g, Len(deviceStack))
            /\ \A i \in Typed : deviceStack[g[i]] = DeviceEntry(i)

(* The call stack is empty until the root module is called, which is its   *)
(* first frame, and method_args is there as long as a converter is running.*)
FrameInv ==
    /\ phase = "before" => frames = <<>>
    /\ frames # <<>> => frames[1].kind = "module"
    /\ \A i \in DOMAIN frames :
           /\ frames[i].kind = "module" => frames[i].of \in Modules /\ frames[i].stage = "running"
           /\ frames[i].stage = "converting" => ~frames[i].skip /\ methodArgs
                                                /\ (i < Len(frames) => frames[i].of \in Real)

(* The lock is held for a call on the stack or because of a lost one, and  *)
(* no call above it has its own converter.                                 *)
LockInv ==
    /\ lock <=> "lock" \in lost \/ \E i \in DOMAIN frames : Holds(frames[i])
    /\ \A i, j \in DOMAIN frames : j < i /\ frames[i].kind = "method" /\ ~frames[i].skip => ~Holds(frames[j])

LayerInv == \A i \in DOMAIN layers : layers[i][2] < layerCounts[layers[i][1]]

ContextInv ==
    /\ TypeOK /\ ScopeInv /\ DeviceInv /\ FrameInv /\ LockInv /\ LayerInv
    /\ LayerNamesUnique /\ MethodsRestored
===============================================================================
