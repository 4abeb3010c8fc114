----------------------------- MODULE EngineBuild -----------------------------
(***************************************************************************)
(* torch2trt/dataset.py and torch2trt.py, torch2trt(): the example inputs  *)
(* a module is converted with, and how they become the shapes of the       *)
(* network's inputs, the optimization profile of the engine and the        *)
(* calibration batches.                                                    *)
(*                                                                         *)
(* A DatasetRecorder inserts what the module is called with while it is    *)
(* active.  Three classes keep the items: a list, one batch per input, and *)
(* a folder with a file per item.  The conversion runs the module twice,   *)
(* first as it is and then under the ConversionContext: a recorder that is *)
(* still active inserts what it is called with both times.                 *)
(*                                                                         *)
(* An item is the sequence of the shapes of its tensors (flattened); the   *)
(* elements do not matter here.  A tensor's first axis is its batch.       *)
(***************************************************************************)
EXTENDS Integers, Sequences, FiniteSets, SequencesExt, FiniteSetsExt

CONSTANTS
    Inputs,         \* the items the module is called with
    MaxItems,       \* bound: items in the dataset
    NameBase,       \* the base of the numerals in file names: 10
    MaxBatchSizes,  \* the argument max_batch_size: 0 for None
    DefaultDevices, \* default_device_type
    None

(* The module is called with the same number of tensors every time, each   *)
(* with a batch: what the datasets rely on.                                *)
Arity == Len(CHOOSE item \in Inputs : TRUE)
Calls == [1..Arity -> Seq(Nat) \ {<<>>}]

(* File names have one digit or two.                                       *)
ASSUME BuildAssumption ==
    /\ Arity \in Nat \ {0} /\ Inputs \subseteq Calls
    /\ MaxItems \in Nat /\ NameBase \in Nat \ {0} /\ MaxItems < NameBase * NameBase
    /\ MaxBatchSizes \subseteq Nat

VARIABLES
    kind,       \* the class: "list", "batch" or "folder"
    recording,  \* the recorder's handle is not None
    store,      \* by kind: the items; the tensors; or file index -> item
    stage,      \* "idle", "traced", "profiled", "calibrating", "built" or "raised"
    maxBatch,   \* max_batch_size
    device,     \* default_device_type
    inputs,     \* inputs = dataset[0]
    profile,    \* min, opt, max, each a sequence of shapes, and the items they are from
    network,    \* the shapes of the network's inputs; a dynamic axis is -1
    count       \* DatasetCalibrator.count

datasetVars == <<kind, recording, store>>
buildVars == <<stage, maxBatch, device, inputs, profile, network, count>>
engineVars == <<datasetVars, buildVars>>

Rest(shape) == Tail(shape)

-------------------------------------------------------------------------------
(* FolderDataset.file_paths sorts the names as strings: '.' comes before   *)
(* the digits.  A name is the numeral that its digits are, with 0 for '.'. *)
NameOf(tens, units) == tens * (NameBase + 1) + units
Name(i) == IF i < NameBase THEN NameOf(i + 1, 0) ELSE NameOf((i \div NameBase) + 1, (i % NameBase) + 1)
Names == {Name(i) : i \in DOMAIN store}

(* The index of the file at a position of file_paths.                      *)
FilePath(pos) == CHOOSE i \in DOMAIN store : Cardinality({name \in Names : name < Name(i)}) = pos - 1

(* TensorBatchDataset.__getitem__: row idx of every tensor, empty if the   *)
(* tensor is shorter than the first one.                                   *)
Row(idx) == [j \in DOMAIN store |-> <<IF idx <= store[j][1] THEN 1 ELSE 0>> \o Rest(store[j])]

(* Dataset[0], Dataset[1], ... up to __len__.                              *)
Items ==
    CASE kind = "list"   -> store
      [] kind = "batch"  -> IF store = <<>> THEN <<>> ELSE [idx \in 1..store[1][1] |-> Row(idx)]
      [] kind = "folder" -> [idx \in 1..Cardinality(Names) |-> store[FilePath(idx)]]

(* Mutant: the next file takes the number of files as its index.           *)
FreeIndex_Count == Cardinality(DOMAIN store)

(* FolderDataset.insert: the first index that has no file.                 *)
FreeIndex == CHOOSE i \in 0..MaxItems : i \notin DOMAIN store /\ \A j \in 0..(i - 1) : j \in DOMAIN store

(* torch.cat along the batch needs equal shapes otherwise; it raises, and  *)
(* the tensors stay as they were.                                          *)
CanInsert(item) ==
    kind = "batch" /\ store # <<>> => \A j \in DOMAIN store : Rest(store[j]) = Rest(item[j])

Inserted(item) ==
    CASE kind = "list"   -> Append(store, item)
      [] kind = "batch"  -> IF store = <<>> THEN item
                            ELSE [j \in DOMAIN store |-> <<store[j][1] + item[j][1]>> \o Rest(item[j])]
      [] kind = "folder" -> [i \in DOMAIN store \cup {FreeIndex} |->
                                IF i = FreeIndex THEN item ELSE store[i]]

DatasetInit ==
    /\ kind \in {"list", "batch", "folder"}
    /\ recording = FALSE /\ store = <<>>

(* with dataset.record(module): __enter__.                                 *)
EnterRecorder ==
    /\ ~recording
    /\ recording' = TRUE
    /\ UNCHANGED <<kind, store>>

(* __exit__, at the end of the with statement or because of an exception   *)
(* inside it: a second __enter__, or torch.cat in _callback.               *)
ExitRecorder ==
    /\ recording
    /\ recording' = FALSE
    /\ UNCHANGED <<kind, store>>

(* What _callback, the forward pre-hook, does when the module is called.   *)
Callback(item) ==
    store' = IF recording /\ CanInsert(item) THEN Inserted(item) ELSE store

ModuleCall(item) ==
    /\ Len(Items) < MaxItems
    /\ Callback(item)
    /\ UNCHANGED <<kind, recording>>

(* A file of the folder is deleted by hand.                                *)
RemoveFile(i) ==
    /\ kind = "folder"
    /\ store' = [j \in DOMAIN store \ {i} |-> store[j]]
    /\ UNCHANGED <<kind, recording>>

DatasetNext ==
    \/ EnterRecorder
    \/ ExitRecorder
    \/ \E item \in Inputs : ModuleCall(item)
    \/ \E i \in DOMAIN store : RemoveFile(i)

-------------------------------------------------------------------------------
NumInputs == Len(Items[1])
AxesOf(j) == DOMAIN Items[1][j]

Numel(item) == FoldSeq(LAMBDA shape, sum : FoldSeq(LAMBDA n, p : n * p, 1, shape) + sum, 0, item)

(* torch.LongTensor of the shapes of one input needs equal ranks.          *)
Ragged == \E i \in DOMAIN Items, j \in 1..NumInputs : DOMAIN Items[i][j] # AxesOf(j)

(* What _shape_stats stacks for an axis.                                   *)
SizesOf(j, a) == {Items[i][j][a] : i \in DOMAIN Items}

(* Mutant: the smallest shapes are those of the first item.                *)
MinShapes_First == Items[1]

MinShapes == [j \in 1..NumInputs |-> [a \in AxesOf(j) |-> Min(SizesOf(j, a))]]
MaxShapes == [j \in 1..NumInputs |-> [a \in AxesOf(j) |-> Max(SizesOf(j, a))]]

(* median_numel_shapes: argsort(numels)[len // 2]; items of equal size may *)
(* be in any order.                                                        *)
IsMedian(i) ==
    LET smaller == Cardinality({k \in DOMAIN Items : Numel(Items[k]) < Numel(Items[i])})
        equal   == Cardinality({k \in DOMAIN Items : Numel(Items[k]) = Numel(Items[i])})
    IN  smaller <= Len(Items) \div 2 /\ Len(Items) \div 2 < smaller + equal

(* The legacy argument max_batch_size replaces the batch of min and max.   *)
WithBatch(n, shapes) ==
    IF maxBatch = 0 THEN shapes ELSE [j \in DOMAIN shapes |-> <<n>> \o Rest(shapes[j])]

DynamicAxes(p, j) == {a \in DOMAIN p.min[j] : p.min[j][a] # p.max[j][a]}

BuildInit ==
    /\ DatasetInit
    /\ stage = "idle" /\ maxBatch = 0 /\ device = "GPU"
    /\ inputs = None /\ profile = None /\ network = None /\ count = 0

(* torch2trt is called: inputs = dataset[0], and module(inputs) runs.      *)
Start(batch, dev) ==
    /\ stage = "idle"
    /\ maxBatch' = batch /\ device' = dev
    /\ IF Items = <<>>
       THEN stage' = "raised" /\ UNCHANGED <<store, inputs>>
       ELSE /\ stage' = "traced"
            /\ inputs' = Items[1]
            /\ Len(Items) < MaxItems
            /\ Callback(Items[1])
    /\ UNCHANGED <<kind, recording, profile, network, count>>

(* The profile; DLA does not take dynamic axes.                            *)
Profile ==
    /\ stage = "traced"
    /\ \E median \in DOMAIN Items :
          LET p == [min |-> WithBatch(1, MinShapes), opt |-> Items[median],
                    max |-> WithBatch(maxBatch, MaxShapes), from |-> Items]
          IN  /\ Ragged \/ IsMedian(median)
              /\ IF Ragged
                 THEN stage' = "raised" /\ UNCHANGED profile
                 ELSE /\ profile' = p
                      /\ stage' = IF device = "DLA" /\ \E j \in 1..NumInputs : DynamicAxes(p, j) # {}
                                  THEN "raised" ELSE "profiled"
    /\ UNCHANGED <<kind, recording, store, maxBatch, device, inputs, network, count>>

(* add_inputs, and the run under the ConversionContext.                    *)
Convert ==
    /\ stage = "profiled"
    /\ stage' = "calibrating"
    /\ network' = [j \in DOMAIN inputs |-> [a \in DOMAIN inputs[j] |->
                      IF a \in DynamicAxes(profile, j) THEN -1 ELSE inputs[j][a]]]
    /\ Len(Items) < MaxItems
    /\ Callback(inputs)
    /\ UNCHANGED <<kind, recording, maxBatch, device, inputs, profile, count>>

HasBatch == count < Len(Items)

(* build_engine asks the calibrator for batches until one is empty.        *)
GetBatch ==
    /\ stage = "calibrating"
    /\ IF HasBatch THEN count' = count + 1 /\ UNCHANGED stage
                   ELSE stage' = "built" /\ UNCHANGED count
    /\ UNCHANGED <<kind, recording, store, maxBatch, device, inputs, profile, network>>

BuildNext ==
    \/ stage = "idle" /\ DatasetNext /\ UNCHANGED buildVars
    \/ \E batch \in MaxBatchSizes, dev \in DefaultDevices : Start(batch, dev)
    \/ Profile
    \/ Convert
    \/ GetBatch

BuildSpec == BuildInit /\ [][BuildNext]_engineVars

-------------------------------------------------------------------------------
Profiled == stage \in {"profiled", "calibrating", "built"}

(* The types of the variables.                                             *)
BuildTypeOK ==
    /\ recording \in BOOLEAN
    /\ stage \in {"idle", "traced", "profiled", "calibrating", "built", "raised"}
    /\ \A i \in DOMAIN Items : \A j \in DOMAIN Items[i] : \A a \in DOMAIN Items[i][j] : Items[i][j][a] \in Nat
    /\ count \in 0..Len(Items)
    /\ network # None => \A j \in DOMAIN network : \A a \in DOMAIN network[j] : network[j][a] >= -1

(* Without max_batch_size the profile is one TensorRT accepts, and every   *)
(* item of the dataset can be given to the engine.                         *)
ItemsFitTheProfile ==
    Profiled /\ maxBatch = 0 =>
        \A j \in DOMAIN profile.min : \A a \in DOMAIN profile.min[j] :
            /\ profile.min[j][a] <= profile.opt[j][a] /\ profile.opt[j][a] <= profile.max[j][a]
            /\ \A i \in DOMAIN profile.from : profile.from[i][j][a] \in profile.min[j][a]..profile.max[j][a]

(* With max_batch_size it is accepted exactly when the batch of the median *)
(* item is from 1 to max_batch_size: nothing else makes sure of that.      *)
LegacyBatchMustFit ==
    Profiled /\ maxBatch # 0 =>
        ((\A j \in DOMAIN profile.min : \A a \in DOMAIN profile.min[j] :
             profile.min[j][a] <= profile.opt[j][a] /\ profile.opt[j][a] <= profile.max[j][a])
         <=> \A j \in DOMAIN profile.opt : profile.opt[j][1] \in 1..maxBatch)

(* An axis of the network is fixed exactly when all items agree on it, and *)
(* then at their common size.  (max_batch_size = 1 fixes the batch at that *)
(* of the first item instead, so it is only sound when that is 1.)         *)
FixedAxesAreCommon ==
    network # None =>
        \A j \in DOMAIN profile.min : \A a \in DOMAIN profile.min[j] :
            IF a = 1 /\ maxBatch # 0
            THEN network[j][a] # -1 <=> maxBatch = 1
            ELSE /\ network[j][a] # -1 <=> \A i \in DOMAIN profile.from : profile.from[i][j][a] = inputs[j][a]
                 /\ network[j][a] # -1 => profile.min[j][a] = network[j][a] /\ profile.max[j][a] = network[j][a]

(* An engine has been calibrated with every item of its dataset, those     *)
(* that the conversion itself recorded included.                           *)
CalibratedWithAll == stage = "built" => count = Len(Items)

(* Recording never loses an item: in a folder no file is overwritten, and  *)
(* in a batch the rows stay.  Only deleting a file removes one.            *)
RecordingKeepsItems ==
    [][(\A i \in DOMAIN store : ~RemoveFile(i)) =>
          CASE kind = "folder" -> \A i \in DOMAIN store : store'[i] = store[i]
            [] kind = "list"   -> IsPrefix(Items, Items')
            [] kind = "batch"  -> \A i \in DOMAIN Items : Items'[i][1] = Items[i][1]]_engineVars

(* What torch2trt makes of its example inputs, with the types.             *)
InputsAreCovered ==
    /\ BuildTypeOK /\ ItemsFitTheProfile /\ LegacyBatchMustFit
    /\ FixedAxesAreCommon /\ CalibratedWithAll
===============================================================================
