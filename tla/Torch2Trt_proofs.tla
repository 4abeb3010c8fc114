---------------------------- MODULE Torch2Trt_proofs ----------------------------
(***************************************************************************)
(* Proofs about ConversionContext, for all modules, device types and       *)
(* methods with and without converters, all depths of the call stack and   *)
(* all numbers of layers, and for every order in which calls nest, return, *)
(* raise and are caught; about ShapeWrapper, for all sizes and             *)
(* computations with them; and about the datasets of EngineBuild, for all  *)
(* examples that are calls of one module.                                  *)
(***************************************************************************)
EXTENDS ConversionContext, ShapeWrapper, EngineBuild, SequenceFacts, FiniteSetTheorems

-------------------------------------------------------------------------------
(* The places of no frame and of one.                                      *)
LEMMA NoPlace == \E g \in Placements({}, 0) : Filled(g, 0)
<1> DEFINE g == [i \in {} |-> i]
<1>1. g \in [{} -> 1..0]
    OBVIOUS
<1>2. g \in Placements({}, 0)
    BY <1>1 DEF Placements
<1> QED BY <1>2 DEF Filled

LEMMA OnePlace == \E g \in Placements({1}, 1) : Filled(g, 1) /\ g[1] = 1
<1> DEFINE g == [i \in {1} |-> 1]
<1>1. g \in [{1} -> 1..1] /\ g[1] = 1 /\ DOMAIN g = {1}
    OBVIOUS
<1> HIDE DEF g
<1>2. g \in Placements({1}, 1)
    BY <1>1 DEF Placements
<1>3. Filled(g, 1)
    BY <1>1 DEF Filled
<1> QED BY <1>1, <1>2, <1>3

(* A frame that is pushed gets the next place.                             *)
LEMMA PushPlace ==
    ASSUME NEW d \in Nat, NEW n \in Nat, NEW F \in SUBSET (1..d), NEW g \in Placements(F, n)
    PROVE  \E h \in Placements(F \cup {d + 1}, n + 1) :
               /\ Filled(g, n) => Filled(h, n + 1)
               /\ h[d + 1] = n + 1 /\ \A i \in F : h[i] = g[i]
<1> DEFINE h == [i \in F \cup {d + 1} |-> IF i = d + 1 THEN n + 1 ELSE g[i]]
<1>1. g \in [F -> 1..n] /\ \A i, j \in F : i < j => g[i] < g[j]
    BY DEF Placements
<1>2. h[d + 1] = n + 1 /\ \A i \in F : i \in 1..d /\ i # d + 1 /\ h[i] = g[i]
    OBVIOUS
<1>3. h \in [F \cup {d + 1} -> 1..n + 1]
    BY <1>1
<1> HIDE DEF h
<1>4. ASSUME NEW i \in F \cup {d + 1}, NEW j \in F \cup {d + 1}, i < j PROVE h[i] < h[j]
    <2>1. CASE j = d + 1
        BY <1>1, <1>2, <1>4, <2>1
    <2>2. CASE j # d + 1
        BY <1>1, <1>2, <1>4, <2>2
    <2> QED BY <2>1, <2>2
<1>5. ASSUME Filled(g, n) PROVE Filled(h, n + 1)
    <2>1. ASSUME NEW k \in 1..n + 1 PROVE \E i \in F \cup {d + 1} : h[i] = k
        <3>1. CASE k = n + 1
            BY <1>2, <3>1
        <3>2. CASE k # n + 1
            <4>1. PICK i \in F : g[i] = k
                BY <1>1, <1>5, <3>2 DEF Filled
            <4> QED BY <1>2, <4>1
        <3> QED BY <3>1, <3>2
    <2> QED BY <1>3, <2>1 DEF Filled
<1>6. h \in Placements(F \cup {d + 1}, n + 1)
    BY <1>3, <1>4 DEF Placements
<1> QED BY <1>2, <1>5, <1>6

(* Some of the frames keep their places.                                   *)
LEMMA KeepPlaces ==
    ASSUME NEW F, NEW G \in SUBSET F, NEW n, NEW g \in Placements(F, n)
    PROVE  [i \in G |-> g[i]] \in Placements(G, n)
BY DEF Placements

(* The last frame, when it is popped, gives up its place, which was the    *)
(* last one if all places were filled.                                     *)
LEMMA PopPlace ==
    ASSUME NEW d \in Nat, NEW n \in Nat, NEW F \in SUBSET (1..d), d \in F, NEW g \in Placements(F, n)
    PROVE  \E h \in Placements(F \ {d}, n - 1) :
               /\ n > 0
               /\ Filled(g, n) => g[d] = n /\ Filled(h, n - 1)
               /\ \A i \in F \ {d} : h[i] = g[i]
<1> DEFINE h == [i \in F \ {d} |-> g[i]]
<1>1. g \in [F -> 1..n] /\ \A i, j \in F : i < j => g[i] < g[j]
    BY DEF Placements
<1>2. n > 0 /\ g[d] \in 1..n
    BY <1>1
<1>3. \A i \in F \ {d} : i < d /\ g[i] < g[d] /\ g[i] \in 1..n - 1
    BY <1>1, <1>2
<1>4. h \in [F \ {d} -> 1..n - 1] /\ \A i \in F \ {d} : h[i] = g[i]
    BY <1>3
<1> HIDE DEF h
<1>5. h \in Placements(F \ {d}, n - 1)
    BY <1>1, <1>4 DEF Placements
<1>6. ASSUME Filled(g, n) PROVE g[d] = n /\ Filled(h, n - 1)
    <2>1. PICK e \in F : g[e] = n
        BY <1>1, <1>2, <1>6 DEF Filled
    <2>2. g[d] = n
        BY <1>2, <1>3, <2>1
    <2>3. ASSUME NEW k \in 1..n - 1 PROVE \E i \in F \ {d} : h[i] = k
        <3>1. PICK i \in F : g[i] = k
            BY <1>1, <1>2, <1>6 DEF Filled
        <3>2. i # d
            BY <2>2, <3>1
        <3> QED BY <1>4, <3>1, <3>2
    <2> QED BY <1>4, <2>2, <2>3 DEF Filled
<1> QED BY <1>2, <1>4, <1>5, <1>6

-------------------------------------------------------------------------------
(* The call stack after a call.                                            *)
LEMMA PushFrame ==
    ASSUME TypeOK, NEW fr \in Frames, frames' = Append(frames, fr)
    PROVE  /\ frames' \in Seq(Frames) /\ Len(frames) \in Nat
           /\ Len(frames') = Len(frames) + 1
           /\ DOMAIN frames = 1..Len(frames) /\ DOMAIN frames' = DOMAIN frames \cup {Len(frames) + 1}
           /\ frames'[Len(frames) + 1] = fr
           /\ \A i \in DOMAIN frames : frames'[i] = frames[i] /\ i < Len(frames) + 1
           /\ Scopes' = IF fr.kind = "module" THEN Scopes \cup {Len(frames) + 1} ELSE Scopes
           /\ Typed' = IF fr.kind = "module" /\ fr.of \in DOMAIN DeviceTypes
                       THEN Typed \cup {Len(frames) + 1} ELSE Typed
<1> DEFINE new == Len(frames) + 1
<1>1. frames \in Seq(Frames)
    BY DEF TypeOK
<1>2. /\ frames' \in Seq(Frames) /\ Len(frames) \in Nat /\ Len(frames') = new
      /\ DOMAIN frames = 1..Len(frames) /\ DOMAIN frames' = DOMAIN frames \cup {new}
      /\ frames'[new] = fr /\ \A i \in DOMAIN frames : frames'[i] = frames[i]
    BY <1>1, PushFacts
<1>3. \A i \in DOMAIN frames : i < new
    BY <1>2
<1> HIDE DEF new
<1>4. Scopes' = IF fr.kind = "module" THEN Scopes \cup {new} ELSE Scopes
    BY <1>2 DEF Scopes
<1>5. Typed' = IF fr.kind = "module" /\ fr.of \in DOMAIN DeviceTypes THEN Typed \cup {new} ELSE Typed
    <2>1. \A i \in Scopes : frames'[i] = frames[i]
        BY <1>2 DEF Scopes
    <2> QED BY <1>2, <1>4, <2>1 DEF Typed
<1> QED BY <1>2, <1>3, <1>4, <1>5 DEF new

(* The call stack after a return.                                          *)
LEMMA PopFrame ==
    ASSUME TypeOK, frames # <<>>, frames' = Front(frames)
    PROVE  /\ frames' \in Seq(Frames) /\ Len(frames) \in Nat \ {0}
           /\ Len(frames') = Len(frames) - 1
           /\ DOMAIN frames = 1..Len(frames) /\ DOMAIN frames' = DOMAIN frames \ {Len(frames)}
           /\ Top = frames[Len(frames)] /\ Top \in Frames /\ Len(frames) \in DOMAIN frames
           /\ \A i \in DOMAIN frames' : frames'[i] = frames[i] /\ i < Len(frames)
           /\ Scopes' = Scopes \ {Len(frames)}
           /\ Typed' = Typed \ {Len(frames)}
<1>1. frames \in Seq(Frames)
    BY DEF TypeOK
<1>2. /\ frames' \in Seq(Frames) /\ Len(frames) \in Nat \ {0} /\ Len(frames') = Len(frames) - 1
      /\ DOMAIN frames' = DOMAIN frames \ {Len(frames)}
      /\ Last(frames) = frames[Len(frames)] /\ Last(frames) \in Frames /\ Len(frames) \in DOMAIN frames
      /\ \A i \in DOMAIN frames' : frames'[i] = frames[i]
    BY <1>1, PopFacts
<1>3. DOMAIN frames = 1..Len(frames)
    BY <1>1
<1>4. \A i \in DOMAIN frames' : i < Len(frames)
    BY <1>2, <1>3
<1>5. Scopes' = Scopes \ {Len(frames)}
    BY <1>2 DEF Scopes
<1>6. Typed' = Typed \ {Len(frames)}
    BY <1>2, <1>5 DEF Typed, Scopes
<1> QED BY <1>2, <1>3, <1>4, <1>5, <1>6 DEF Top

(* The converter of the innermost call starts.                             *)
LEMMA MarkFrame ==
    ASSUME TypeOK, frames # <<>>, frames' = [frames EXCEPT ![Len(frames)].stage = "converting"]
    PROVE  /\ frames' \in Seq(Frames) /\ Len(frames) \in Nat \ {0}
           /\ Len(frames') = Len(frames)
           /\ DOMAIN frames = 1..Len(frames) /\ DOMAIN frames' = DOMAIN frames
           /\ Top = frames[Len(frames)] /\ Top \in Frames
           /\ frames'[Len(frames)].stage = "converting"
           /\ \A i \in DOMAIN frames : /\ i < Len(frames) => frames'[i] = frames[i]
                                       /\ frames'[i].kind = frames[i].kind
                                       /\ frames'[i].of = frames[i].of
                                       /\ frames'[i].skip = frames[i].skip
           /\ Scopes' = Scopes
           /\ Typed' = Typed
<1>1. frames \in Seq(Frames)
    BY DEF TypeOK
<1>2. /\ Len(frames) \in Nat \ {0} /\ Last(frames) = frames[Len(frames)] /\ Last(frames) \in Frames
      /\ Len(frames) \in DOMAIN frames
    BY <1>1, PopFacts
<1>0. DOMAIN frames = 1..Len(frames)
    BY <1>1
<1> DEFINE fr == [frames[Len(frames)] EXCEPT !.stage = "converting"]
<1>3. fr \in Frames /\ fr.stage = "converting"
      /\ fr.kind = Last(frames).kind /\ fr.of = Last(frames).of /\ fr.skip = Last(frames).skip
    BY <1>2 DEF Frames
<1>4. frames' = [frames EXCEPT ![Len(frames)] = fr]
    OBVIOUS
<1> HIDE DEF fr
<1>5. frames' \in Seq(Frames) /\ Len(frames') = Len(frames) /\ DOMAIN frames' = DOMAIN frames
    BY <1>1, <1>3, <1>4
<1>6. frames'[Len(frames)] = fr /\ \A i \in DOMAIN frames : i < Len(frames) => frames'[i] = frames[i]
    BY <1>0, <1>1, <1>2, <1>4
<1>7. \A i \in DOMAIN frames : /\ frames'[i].kind = frames[i].kind
                               /\ frames'[i].of = frames[i].of
                               /\ frames'[i].skip = frames[i].skip
    BY <1>2, <1>3, <1>6
<1>8. Scopes' = Scopes
    BY <1>5, <1>7 DEF Scopes
<1>9. Typed' = Typed
    BY <1>7, <1>8 DEF Typed, Scopes
<1> QED BY <1>0, <1>2, <1>3, <1>5, <1>6, <1>7, <1>8, <1>9 DEF Top

(* A running module has its place in the stack of modules.                 *)
LEMMA StackHasPlaces ==
    ASSUME NEW n \in Nat, NEW F, NEW g \in Placements(F, n), NEW i \in F
    PROVE  n > 0
BY DEF Placements

LEMMA FrameHasScope ==
    ASSUME TypeOK, FrameInv, ScopeInv, frames # <<>>
    PROVE  moduleStack # <<>>
<1>1. 1 \in Scopes
    <2>1. 1 \in DOMAIN frames
        BY DEF TypeOK
    <2> QED BY <2>1 DEF FrameInv, Scopes
<1>2. PICK g : g \in Placements(Scopes, Len(moduleStack))
    BY DEF ScopeInv
<1>3. Len(moduleStack) \in Nat
    BY DEF TypeOK
<1>4. Len(moduleStack) > 0
    BY <1>1, <1>2, <1>3, StackHasPlaces
<1> QED BY <1>4

-------------------------------------------------------------------------------
(* Every step keeps the types.                                             *)
LEMMA TypeStep ==
    ASSUME TypeOK, FrameInv, ScopeInv, [Next]_vars
    PROVE  TypeOK'
<1> USE ContextAssumption
<1>1. CASE Enter
    <2>1. frames' \in Seq(Frames)
        BY <1>1 DEF Enter, ModuleFrame, Frames
    <2>2. moduleStack' \in Seq(Modules)
        BY <1>1 DEF Enter
    <2>3. deviceStack' \in Seq(Modules \X Devices)
        <3>1. CASE Root \in DOMAIN DeviceTypes
            BY <1>1, <3>1 DEF Enter
        <3>2. CASE Root \notin DOMAIN DeviceTypes
            BY <1>1, <3>2 DEF Enter
        <3> QED BY <3>1, <3>2
    <2> QED BY <1>1, <2>1, <2>2, <2>3 DEF Enter, TypeOK
<1>2. ASSUME NEW m \in Modules, ModulePreHook(m) PROVE TypeOK'
    <2>1. frames' \in Seq(Frames)
        <3>1. ModuleFrame(m) \in Frames
            BY DEF ModuleFrame, Frames
        <3> QED BY <1>2, <3>1, PushFrame DEF ModulePreHook
    <2>2. moduleStack' \in Seq(Modules)
        BY <1>2, PushFacts DEF ModulePreHook, TypeOK
    <2>3. deviceStack' \in Seq(Modules \X Devices)
        <3>1. CASE m \in DOMAIN DeviceTypes
            <4>1. <<m, DeviceTypes[m]>> \in Modules \X Devices
                BY <3>1
            <4> QED BY <1>2, <3>1, <4>1, PushFacts DEF ModulePreHook, DevicesOnEntry, TypeOK
        <3>2. CASE m \notin DOMAIN DeviceTypes
            BY <1>2, <3>2 DEF ModulePreHook, DevicesOnEntry, TypeOK
        <3> QED BY <3>1, <3>2
    <2> QED BY <1>2, <2>1, <2>2, <2>3 DEF ModulePreHook, TypeOK
<1>3. CASE ModulePostHook
    <2>1. frames' \in Seq(Frames)
        BY <1>3, PopFrame DEF ModulePostHook
    <2>2. moduleStack # <<>>
        BY <1>3, FrameHasScope DEF ModulePostHook
    <2>3. moduleStack' \in Seq(Modules)
        BY <1>3, <2>2, PopFacts DEF ModulePostHook, TypeOK
    <2>4. deviceStack' \in Seq(Modules \X Devices)
        <3>1. CASE deviceStack # <<>>
            <4>1. Front(deviceStack) \in Seq(Modules \X Devices)
                BY <3>1, PopFacts DEF TypeOK
            <4> QED BY <1>3, <4>1 DEF ModulePostHook, DevicesOnExit, TypeOK
        <3>2. CASE deviceStack = <<>>
            BY <1>3, <3>2 DEF ModulePostHook, DevicesOnExit, CurrentDeviceTypeModule, TypeOK
        <3> QED BY <3>1, <3>2
    <2> QED BY <1>3, <2>1, <2>3, <2>4 DEF ModulePostHook, TypeOK
<1>4. ASSUME NEW f \in Registered \cup Unregistered, CallMethod(f) PROVE TypeOK'
    <2>1. Skipped(f) \in BOOLEAN /\ TakesLock(f) \in BOOLEAN
        BY DEF Skipped, TakesLock, TypeOK
    <2>2. MethodFrame(f, Skipped(f)) \in Frames
        BY <2>1 DEF MethodFrame, Frames
    <2>3. frames' \in Seq(Frames)
        BY <1>4, <2>2, PushFrame DEF CallMethod
    <2>4. lock' \in BOOLEAN
        BY <1>4, <2>1 DEF CallMethod, TypeOK
    <2> QED BY <1>4, <2>3, <2>4 DEF CallMethod, TypeOK
<1>5. CASE MethodReturns
    <2>1. frames' \in Seq(Frames)
        BY <1>5, PopFrame, MarkFrame DEF MethodReturns
    <2>2. methodArgs' \in BOOLEAN
        BY <1>5 DEF MethodReturns, ArgsAfterMethod, TypeOK
    <2> QED BY <1>5, <2>1, <2>2 DEF MethodReturns, TypeOK
<1>6. CASE AddLayer
    <2>1. moduleStack # <<>>
        BY <1>6, FrameHasScope DEF AddLayer
    <2>2. Last(moduleStack) \in Modules
        BY <2>1, PopFacts DEF TypeOK
    <2>3. layerCounts' \in [Modules -> Nat] /\ layerCounts'[Last(moduleStack)] - 1 \in Nat
        BY <1>6, <2>2 DEF AddLayer, Counted, TypeOK
    <2>4. CurrentDeviceType \in Devices
        <3>1. CASE deviceStack # <<>>
            <4>1. Last(deviceStack) \in Modules \X Devices
                BY <3>1, PopFacts DEF TypeOK
            <4> QED BY <3>1, <4>1 DEF CurrentDeviceType
        <3>2. CASE deviceStack = <<>>
            BY <3>2 DEF CurrentDeviceType
        <3> QED BY <3>1, <3>2
    <2>5. layers' \in Seq(Modules \X Nat \X Devices)
        <3>1. <<Last(moduleStack), layerCounts'[Last(moduleStack)] - 1, CurrentDeviceType>>
                  \in Modules \X Nat \X Devices
            BY <2>2, <2>3, <2>4
        <3> QED BY <1>6, <3>1, PushFacts DEF AddLayer, TypeOK
    <2> QED BY <1>6, <2>3, <2>5 DEF AddLayer, TypeOK
<1>7. CASE ConverterReturns
    <2>1. frames' \in Seq(Frames)
        BY <1>7, PopFrame DEF ConverterReturns
    <2> QED BY <1>7, <2>1 DEF ConverterReturns, TypeOK
<1>8. CASE Raise
    BY <1>8 DEF Raise, context, TypeOK
<1>9. CASE Unwind
    <2>1. frames' \in Seq(Frames)
        BY <1>9, PopFrame DEF Unwind
    <2>2. lost' \subseteq {"lock", "module"}
        BY <1>9 DEF Unwind, TypeOK
    <2> QED BY <1>9, <2>1, <2>2 DEF Unwind, context, TypeOK
<1>10. CASE Catch
    BY <1>10 DEF Catch, context, TypeOK
<1>11. CASE Exit
    BY <1>11 DEF Exit, AttachedAfterExit, TypeOK
<1>12. CASE UNCHANGED vars
    BY <1>12 DEF vars, TypeOK
<1> QED BY <1>1, <1>2, <1>3, <1>4, <1>5, <1>6, <1>7, <1>8, <1>9, <1>10, <1>11, <1>12 DEF Next

-------------------------------------------------------------------------------
(* A step that leaves the modules on the call stack alone.                 *)
LEMMA SameModules ==
    ASSUME ScopeInv, DeviceInv, Scopes' = Scopes, Typed' = Typed,
           \A i \in Scopes : frames'[i].of = frames[i].of,
           moduleStack' = moduleStack, deviceStack' = deviceStack, "module" \in lost <=> "module" \in lost'
    PROVE  ScopeInv' /\ DeviceInv'
<1>1. ScopeInv'
    <2>1. PICK g \in Placements(Scopes, Len(moduleStack)) :
              "module" \notin lost => /\ Filled(g, Len(moduleStack))
                                      /\ \A i \in Scopes : moduleStack[g[i]] = frames[i].of
        BY DEF ScopeInv
    <2>2. "module" \notin lost' => /\ Filled(g, Len(moduleStack))
                                   /\ \A i \in Scopes : moduleStack[g[i]] = frames'[i].of
        BY <2>1
    <2> QED BY <2>1, <2>2 DEF ScopeInv
<1>2. DeviceInv'
    <2> SUFFICES ASSUME "module" \notin lost' PROVE DeviceInv'
        BY DEF DeviceInv
    <2>1. PICK g \in Placements(Typed, Len(deviceStack)) :
              /\ Filled(g, Len(deviceStack))
              /\ \A i \in Typed : deviceStack[g[i]] = DeviceEntry(i)
        BY DEF DeviceInv
    <2>2. \A i \in Typed : DeviceEntry(i)' = DeviceEntry(i)
        BY DEF DeviceEntry, Typed
    <2>3. \A i \in Typed : deviceStack[g[i]] = DeviceEntry(i)'
        BY <2>1, <2>2
    <2> QED BY <2>1, <2>3 DEF DeviceInv
<1> QED BY <1>1, <1>2

(* A module that is called gets its entry.                                 *)
LEMMA ModuleCalled ==
    ASSUME TypeOK, ScopeInv, DeviceInv, NEW m \in Modules, ModulePreHook(m)
    PROVE  ScopeInv' /\ DeviceInv'
<1> DEFINE d == Len(frames)
           n == Len(moduleStack)
           k == Len(deviceStack)
<1>1. ModuleFrame(m) \in Frames /\ ModuleFrame(m).kind = "module" /\ ModuleFrame(m).of = m
    BY DEF ModuleFrame, Frames
<1>2. frames' = Append(frames, ModuleFrame(m)) /\ moduleStack' = Append(moduleStack, m)
      /\ deviceStack' = DevicesOnEntry(m) /\ lost' = lost
    BY DEF ModulePreHook
<1>3. /\ d \in Nat /\ DOMAIN frames = 1..d
      /\ frames'[d + 1].of = m /\ \A i \in DOMAIN frames : frames'[i] = frames[i]
      /\ Scopes' = Scopes \cup {d + 1}
      /\ Typed' = IF m \in DOMAIN DeviceTypes THEN Typed \cup {d + 1} ELSE Typed
    BY <1>1, <1>2, PushFrame
<1>4. Scopes \in SUBSET (1..d) /\ Typed \in SUBSET Scopes /\ Typed \in SUBSET (1..d)
    BY <1>3 DEF Scopes, Typed
<1>5. n \in Nat /\ k \in Nat /\ DOMAIN moduleStack = 1..n /\ DOMAIN deviceStack = 1..k
    BY DEF TypeOK
<1>6. Len(moduleStack') = n + 1 /\ moduleStack'[n + 1] = m
      /\ \A j \in 1..n : moduleStack'[j] = moduleStack[j]
    BY <1>2, <1>5, PushFacts DEF TypeOK
<1> HIDE DEF d, n, k
<1>7. ScopeInv'
    <2>1. PICK g \in Placements(Scopes, n) :
              "module" \notin lost => Filled(g, n) /\ \A i \in Scopes : moduleStack[g[i]] = frames[i].of
        BY DEF ScopeInv, n
    <2>2. PICK h \in Placements(Scopes', n + 1) :
              /\ Filled(g, n) => Filled(h, n + 1)
              /\ h[d + 1] = n + 1 /\ \A i \in Scopes : h[i] = g[i]
        BY <1>3, <1>4, <1>5, <2>1, PushPlace
    <2>3. \A i \in Scopes : g[i] \in 1..n
        BY <2>1 DEF Placements
    <2>4. ASSUME "module" \notin lost', NEW i \in Scopes' PROVE moduleStack'[h[i]] = frames'[i].of
        <3>1. CASE i = d + 1
            BY <1>3, <1>6, <2>2, <3>1
        <3>2. CASE i \in Scopes
            <4>1. frames'[i] = frames[i]
                BY <1>3, <1>4, <3>2
            <4>2. moduleStack'[h[i]] = moduleStack[g[i]]
                BY <1>6, <2>2, <2>3, <3>2
            <4> QED BY <1>2, <2>1, <2>4, <3>2, <4>1, <4>2
        <3> QED BY <1>3, <3>1, <3>2
    <2> QED BY <1>2, <1>6, <2>1, <2>2, <2>4 DEF ScopeInv
<1>8. DeviceInv'
    <2> SUFFICES ASSUME "module" \notin lost' PROVE DeviceInv'
        BY DEF DeviceInv
    <2>1. PICK g \in Placements(Typed, k) :
              Filled(g, k) /\ \A i \in Typed : deviceStack[g[i]] = DeviceEntry(i)
        BY <1>2 DEF DeviceInv, k
    <2>2. \A i \in Typed : g[i] \in 1..k
        BY <2>1 DEF Placements
    <2>3. \A i \in Typed : DeviceEntry(i)' = DeviceEntry(i)
        BY <1>3, <1>4 DEF DeviceEntry
    <2>4. CASE m \notin DOMAIN DeviceTypes
        <3>1. deviceStack' = deviceStack /\ Typed' = Typed
            BY <1>2, <1>3, <2>4 DEF DevicesOnEntry
        <3>2. \A i \in Typed' : deviceStack'[g[i]] = DeviceEntry(i)'
            BY <2>1, <2>3, <3>1
        <3> QED BY <2>1, <3>1, <3>2 DEF DeviceInv, k
    <2>5. CASE m \in DOMAIN DeviceTypes
        <3>1. Typed' = Typed \cup {d + 1}
            BY <1>3, <2>5
        <3>2. PICK h \in Placements(Typed', k + 1) :
                  Filled(h, k + 1) /\ h[d + 1] = k + 1 /\ \A i \in Typed : h[i] = g[i]
            <4>1. Filled(g, k) /\ Typed \in SUBSET (1..d) /\ d \in Nat
                BY <1>3, <1>4, <2>1
            <4> QED BY <1>5, <3>1, <4>1, PushPlace, ZenonT(40)
        <3>3. <<m, DeviceTypes[m]>> \in Modules \X Devices
            BY <2>5, ContextAssumption
        <3>4. Len(deviceStack') = k + 1 /\ deviceStack'[k + 1] = <<m, DeviceTypes[m]>>
              /\ \A j \in 1..k : deviceStack'[j] = deviceStack[j]
            BY <1>2, <1>5, <2>5, <3>3, PushFacts DEF DevicesOnEntry, TypeOK, k
        <3>5. ASSUME NEW i \in Typed' PROVE deviceStack'[h[i]] = DeviceEntry(i)'
            <4>1. CASE i = d + 1
                <5>1. DeviceEntry(i)' = <<m, DeviceTypes[m]>>
                    BY <1>3, <4>1 DEF DeviceEntry
                <5> QED BY <3>2, <3>4, <4>1, <5>1
            <4>2. CASE i \in Typed
                <5>1. deviceStack'[h[i]] = deviceStack[g[i]]
                    BY <2>2, <3>2, <3>4, <4>2
                <5> QED BY <2>1, <2>3, <4>2, <5>1
            <4> QED BY <3>1, <4>1, <4>2
        <3> QED BY <3>2, <3>4, <3>5 DEF DeviceInv
    <2> QED BY <2>4, <2>5
<1> QED BY <1>7, <1>8

(* A module that returns takes its entry along, and no other.              *)
LEMMA ModuleReturned ==
    ASSUME TypeOK, ScopeInv, DeviceInv, ModulePostHook
    PROVE  ScopeInv' /\ DeviceInv'
<1> DEFINE d == Len(frames)
           n == Len(moduleStack)
           k == Len(deviceStack)
<1>1. frames # <<>> /\ Top.kind = "module" /\ frames' = Front(frames)
      /\ moduleStack' = Front(moduleStack) /\ deviceStack' = DevicesOnExit(Top.of) /\ lost' = lost
    BY DEF ModulePostHook
<1>2. /\ d \in Nat \ {0} /\ DOMAIN frames = 1..d /\ DOMAIN frames' = DOMAIN frames \ {d}
      /\ d \in DOMAIN frames /\ Top = frames[d] /\ \A i \in DOMAIN frames' : frames'[i] = frames[i]
      /\ Scopes' = Scopes \ {d} /\ Typed' = Typed \ {d}
    BY <1>1, PopFrame
<1>3. Scopes \in SUBSET (1..d) /\ Typed \in SUBSET Scopes /\ Typed \in SUBSET (1..d) /\ d \in Scopes
    BY <1>1, <1>2 DEF Scopes, Typed
<1>4. n \in Nat /\ k \in Nat
    BY DEF TypeOK
<1>5. \A i \in Scopes' : frames'[i] = frames[i]
    BY <1>2, <1>3
<1> HIDE DEF d, n, k
<1>6. ScopeInv'
    <2>1. PICK g \in Placements(Scopes, n) :
              "module" \notin lost => Filled(g, n) /\ \A i \in Scopes : moduleStack[g[i]] = frames[i].of
        BY DEF ScopeInv, n
    <2>2. PICK h \in Placements(Scopes', n - 1) :
              n > 0 /\ (Filled(g, n) => Filled(h, n - 1)) /\ \A i \in Scopes' : h[i] = g[i]
        BY <1>2, <1>3, <1>4, <2>1, PopPlace
    <2>3. moduleStack # <<>>
        BY <2>2 DEF n
    <2>4. Len(moduleStack') = n - 1 /\ \A j \in 1..n - 1 : moduleStack'[j] = moduleStack[j]
        <3>1. Len(Front(moduleStack)) = n - 1 /\ \A j \in DOMAIN Front(moduleStack) :
                                                     Front(moduleStack)[j] = moduleStack[j]
              /\ Front(moduleStack) \in Seq(Modules)
            BY <2>3, PopFacts DEF TypeOK, n
        <3>2. DOMAIN Front(moduleStack) = 1..n - 1
            BY <3>1
        <3> QED BY <1>1, <3>1, <3>2
    <2>5. \A i \in Scopes' : h[i] \in 1..n - 1
        BY <2>2 DEF Placements
    <2>6. "module" \notin lost' => \A i \in Scopes' : moduleStack'[h[i]] = frames'[i].of
        BY <1>1, <1>2, <1>5, <2>1, <2>2, <2>4, <2>5
    <2> QED BY <1>1, <2>1, <2>2, <2>4, <2>6 DEF ScopeInv
<1>7. DeviceInv'
    <2> SUFFICES ASSUME "module" \notin lost' PROVE DeviceInv'
        BY DEF DeviceInv
    <2>1. PICK g \in Placements(Typed, k) :
              Filled(g, k) /\ \A i \in Typed : deviceStack[g[i]] = DeviceEntry(i)
        BY <1>1 DEF DeviceInv, k
    <2>2. \A i \in Typed' : DeviceEntry(i)' = DeviceEntry(i)
        <3>1. \A i \in Typed' : i \in Scopes'
            BY DEF Typed
        <3> QED BY <1>5, <3>1 DEF DeviceEntry
    <2>3. deviceStack # <<>> => /\ k \in Nat \ {0} /\ Last(deviceStack) = deviceStack[k]
                                /\ Front(deviceStack) \in Seq(Modules \X Devices)
                                /\ Len(Front(deviceStack)) = k - 1
                                /\ \A j \in DOMAIN Front(deviceStack) : Front(deviceStack)[j] = deviceStack[j]
        BY PopFacts DEF TypeOK, k
    <2>4. CASE d \notin Typed
        <3>1. Top.of \notin DOMAIN DeviceTypes
            BY <1>2, <1>3, <2>4 DEF Typed
        <3>2. deviceStack' = deviceStack
            <4>1. CASE deviceStack = <<>>
                BY <1>1, <4>1 DEF DevicesOnExit, CurrentDeviceTypeModule
            <4>2. CASE deviceStack # <<>>
                <5>1. PICK i \in DOMAIN g : g[i] = k
                    BY <2>1, <2>3, <4>2 DEF Filled
                <5>2. i \in Typed
                    BY <2>1, <5>1 DEF Placements
                <5>3. Last(deviceStack)[1] = frames[i].of
                    BY <2>1, <2>3, <4>2, <5>1, <5>2, SMTT(30) DEF DeviceEntry
                <5>4. Top.of # Last(deviceStack)[1]
                    BY <3>1, <5>2, <5>3 DEF Typed
                <5> QED BY <1>1, <5>4 DEF DevicesOnExit, CurrentDeviceTypeModule
            <4> QED BY <4>1, <4>2
        <3>3. Typed' = Typed
            BY <1>2, <2>4
        <3>4. \A i \in Typed' : deviceStack'[g[i]] = DeviceEntry(i)'
            BY <2>1, <2>2, <3>2, <3>3
        <3> QED BY <2>1, <3>2, <3>3, <3>4 DEF DeviceInv, k
    <2>5. CASE d \in Typed
        <3>1. PICK h \in Placements(Typed', k - 1) :
                  k > 0 /\ g[d] = k /\ Filled(h, k - 1) /\ \A i \in Typed' : h[i] = g[i]
            <4>1. Filled(g, k) /\ Typed \in SUBSET (1..d) /\ d \in Nat /\ Typed' = Typed \ {d}
                BY <1>2, <1>3, <2>1
            <4> QED BY <1>4, <2>5, <4>1, PopPlace
        <3>2. deviceStack # <<>>
            BY <3>1 DEF k
        <3>3. Last(deviceStack)[1] = Top.of
            <4>1. deviceStack[g[d]] = <<frames[d].of, DeviceTypes[frames[d].of]>>
                BY <2>1, <2>5 DEF DeviceEntry
            <4> QED BY <1>2, <2>3, <3>1, <3>2, <4>1
        <3>4. deviceStack' = Front(deviceStack)
            BY <1>1, <3>2, <3>3 DEF DevicesOnExit, CurrentDeviceTypeModule
        <3>5. Len(deviceStack') = k - 1 /\ DOMAIN deviceStack' = 1..k - 1
              /\ \A j \in DOMAIN deviceStack' : deviceStack'[j] = deviceStack[j]
            <4>1. DOMAIN Front(deviceStack) = 1..k - 1
                BY <2>3, <3>2
            <4> QED BY <2>3, <3>2, <3>4, <4>1
        <3>6. \A i \in Typed' : h[i] \in 1..k - 1
            BY <3>1 DEF Placements
        <3>7. \A i \in Typed' : deviceStack'[h[i]] = DeviceEntry(i)'
            BY <1>2, <2>1, <2>2, <3>1, <3>5, <3>6
        <3> QED BY <3>1, <3>5, <3>7 DEF DeviceInv
    <2> QED BY <2>4, <2>5
<1> QED BY <1>6, <1>7

(* The root module is called.                                              *)
LEMMA RootCalled ==
    ASSUME TypeOK, FrameInv, Enter
    PROVE  ScopeInv' /\ DeviceInv'
<1> USE ContextAssumption
<1>1. frames' = <<ModuleFrame(Root)>> /\ moduleStack' = <<Root>>
      /\ deviceStack' = IF Root \in DOMAIN DeviceTypes THEN <<<<Root, DeviceTypes[Root]>>>> ELSE <<>>
    BY DEF Enter
<1>2. DOMAIN frames' = {1} /\ frames'[1].kind = "module" /\ frames'[1].of = Root
    BY <1>1 DEF ModuleFrame
<1>3. Scopes' = {1}
    BY <1>2 DEF Scopes
<1>4. Typed' = IF Root \in DOMAIN DeviceTypes THEN {1} ELSE {}
    BY <1>2, <1>3 DEF Typed
<1>5. ScopeInv'
    <2>1. Len(moduleStack') = 1 /\ moduleStack'[1] = Root
        BY <1>1
    <2>2. PICK g \in Placements(Scopes', 1) : Filled(g, 1) /\ g[1] = 1
        BY <1>3, OnePlace
    <2> QED BY <1>2, <1>3, <2>1, <2>2 DEF ScopeInv
<1>6. DeviceInv'
    <2>1. CASE Root \in DOMAIN DeviceTypes
        <3>1. Len(deviceStack') = 1 /\ deviceStack'[1] = <<Root, DeviceTypes[Root]>>
            BY <1>1, <2>1
        <3>2. Typed' = {1}
            BY <1>4, <2>1
        <3>3. PICK g \in Placements(Typed', 1) : Filled(g, 1) /\ g[1] = 1
            BY <3>2, OnePlace
        <3>4. DeviceEntry(1)' = <<Root, DeviceTypes[Root]>>
            BY <1>2 DEF DeviceEntry
        <3> QED BY <3>1, <3>2, <3>3, <3>4 DEF DeviceInv
    <2>2. CASE Root \notin DOMAIN DeviceTypes
        <3>1. Len(deviceStack') = 0 /\ Typed' = {}
            BY <1>1, <1>4, <2>2
        <3>2. PICK g \in Placements(Typed', 0) : Filled(g, 0)
            BY <3>1, NoPlace
        <3> QED BY <3>1, <3>2 DEF DeviceInv
    <2> QED BY <2>1, <2>2
<1> QED BY <1>5, <1>6

(* An exception leaves a module: its entry stays behind.                   *)
LEMMA ModuleLost ==
    ASSUME TypeOK, ScopeInv, Unwind, Top.kind = "module"
    PROVE  ScopeInv' /\ DeviceInv'
<1>1. "module" \in lost' /\ moduleStack' = moduleStack
    BY DEF Unwind, context
<1>2. Scopes' \in SUBSET Scopes
    BY PopFrame DEF Unwind
<1>3. PICK g \in Placements(Scopes, Len(moduleStack)) : TRUE
    BY DEF ScopeInv
<1>4. \E h : h \in Placements(Scopes', Len(moduleStack))
    BY <1>2, <1>3, KeepPlaces
<1> QED BY <1>1, <1>4 DEF ScopeInv, DeviceInv

(* The stacks name the running modules after every step.                   *)
LEMMA ScopeStep ==
    ASSUME TypeOK, FrameInv, ScopeInv, DeviceInv, [Next]_vars
    PROVE  ScopeInv' /\ DeviceInv'
<1>1. CASE Enter
    BY <1>1, RootCalled
<1>2. ASSUME NEW m \in Modules, ModulePreHook(m) PROVE ScopeInv' /\ DeviceInv'
    BY <1>2, ModuleCalled
<1>3. CASE ModulePostHook
    BY <1>3, ModuleReturned
<1>4. ASSUME NEW f \in Registered \cup Unregistered, CallMethod(f) PROVE ScopeInv' /\ DeviceInv'
    <2>1. MethodFrame(f, Skipped(f)) \in Frames /\ MethodFrame(f, Skipped(f)).kind = "method"
        <3>1. Skipped(f) \in BOOLEAN
            BY DEF Skipped, TypeOK
        <3> QED BY <3>1 DEF MethodFrame, Frames
    <2>2. Scopes' = Scopes /\ Typed' = Typed /\ \A i \in DOMAIN frames : frames'[i] = frames[i]
        BY <1>4, <2>1, PushFrame DEF CallMethod
    <2>3. \A i \in Scopes : frames'[i].of = frames[i].of
        BY <2>2 DEF Scopes
    <2> QED BY <1>4, <2>2, <2>3, SameModules DEF CallMethod
<1>5. ASSUME frames # <<>>, frames' = Front(frames), Top.kind # "module",
             moduleStack' = moduleStack, deviceStack' = deviceStack, "module" \in lost <=> "module" \in lost'
      PROVE  ScopeInv' /\ DeviceInv'
    <2>1. /\ Top = frames[Len(frames)] /\ DOMAIN frames' = DOMAIN frames \ {Len(frames)}
          /\ \A i \in DOMAIN frames' : frames'[i] = frames[i]
          /\ Scopes' = Scopes \ {Len(frames)} /\ Typed' = Typed \ {Len(frames)}
        BY <1>5, PopFrame
    <2>2. Len(frames) \notin Scopes /\ Len(frames) \notin Typed
        BY <1>5, <2>1 DEF Scopes, Typed
    <2>3. \A i \in Scopes : frames'[i].of = frames[i].of
        BY <2>1, <2>2 DEF Scopes
    <2> QED BY <1>5, <2>1, <2>2, <2>3, SameModules
<1>6. CASE MethodReturns
    <2>1. CASE Top.skip
        BY <1>5, <1>6, <2>1 DEF MethodReturns
    <2>2. CASE ~Top.skip
        <3>1. Scopes' = Scopes /\ Typed' = Typed /\ \A i \in DOMAIN frames : frames'[i].of = frames[i].of
            BY <1>6, <2>2, MarkFrame DEF MethodReturns
        <3>2. \A i \in Scopes : frames'[i].of = frames[i].of
            BY <3>1 DEF Scopes
        <3> QED BY <1>6, <3>1, <3>2, SameModules DEF MethodReturns
    <2> QED BY <2>1, <2>2
<1>7. CASE ConverterReturns
    <2>1. Top.kind # "module"
        <3>1. Len(frames) \in DOMAIN frames /\ Top = frames[Len(frames)]
            BY <1>7, PopFrame DEF ConverterReturns
        <3> QED BY <1>7, <3>1 DEF ConverterReturns, FrameInv
    <2> QED BY <1>5, <1>7, <2>1 DEF ConverterReturns
<1>8. CASE Unwind
    <2>1. CASE Top.kind # "module"
        BY <1>5, <1>8, <2>1 DEF Unwind, context
    <2>2. CASE Top.kind = "module"
        BY <1>8, <2>2, ModuleLost
    <2> QED BY <2>1, <2>2
<1>9. CASE AddLayer \/ Raise \/ Catch \/ Exit \/ UNCHANGED vars
    <2>1. frames' = frames /\ moduleStack' = moduleStack /\ deviceStack' = deviceStack /\ lost' = lost
        BY <1>9 DEF AddLayer, Raise, Catch, Exit, vars, context
    <2>2. Scopes' = Scopes
        BY <2>1 DEF Scopes
    <2>3. Typed' = Typed
        BY <2>1, <2>2 DEF Typed
    <2> QED BY <2>1, <2>2, <2>3, SameModules
<1> QED BY <1>1, <1>2, <1>3, <1>4, <1>6, <1>7, <1>8, <1>9 DEF Next

-------------------------------------------------------------------------------
(* A call returns, with or without a result, and the lock is released if   *)
(* it was held for this call.                                              *)
LEMMA CallReturns ==
    ASSUME TypeOK, FrameInv, LockInv, frames # <<>>, frames' = Front(frames), phase' # "before",
           \/ methodArgs' = methodArgs
           \/ \A i \in DOMAIN frames' : frames[i].stage # "converting",
           lock' <=> "lock" \in lost' \/ \E i \in DOMAIN frames' : Holds(frames[i])
    PROVE  FrameInv' /\ LockInv'
<1>1. /\ Len(frames) \in Nat \ {0} /\ Len(frames') = Len(frames) - 1 /\ frames' \in Seq(Frames)
      /\ DOMAIN frames = 1..Len(frames) /\ DOMAIN frames' = DOMAIN frames \ {Len(frames)}
      /\ \A i \in DOMAIN frames' : frames'[i] = frames[i] /\ i < Len(frames)
    BY PopFrame
<1>2. FrameInv'
    <2>1. ASSUME frames' # <<>> PROVE frames'[1].kind = "module"
        <3>1. 1 \in DOMAIN frames'
            BY <1>1, <2>1
        <3> QED BY <1>1, <3>1 DEF FrameInv
    <2>2. ASSUME NEW i \in DOMAIN frames'
          PROVE  /\ frames'[i].kind = "module" => frames'[i].of \in Modules /\ frames'[i].stage = "running"
                 /\ frames'[i].stage = "converting" => ~frames'[i].skip /\ methodArgs'
                                                       /\ (i < Len(frames') => frames'[i].of \in Real)
        <3>1. i \in DOMAIN frames /\ i < Len(frames) /\ frames'[i] = frames[i]
            BY <1>1
        <3> QED BY <3>1 DEF FrameInv
    <2> QED BY <2>1, <2>2 DEF FrameInv
<1>3. LockInv'
    <2>1. \A i \in DOMAIN frames' : i \in DOMAIN frames /\ frames'[i] = frames[i]
        BY <1>1
    <2> QED BY <2>1 DEF LockInv
<1> QED BY <1>2, <1>3

LEMMA OtherCallReturns ==
    ASSUME TypeOK, FrameInv, LockInv, frames # <<>>, frames' = Front(frames), phase' # "before",
           methodArgs' = methodArgs, lock' = lock, "lock" \in lost' <=> "lock" \in lost, ~Holds(Top)
    PROVE  FrameInv' /\ LockInv'
<1>1. /\ DOMAIN frames' = DOMAIN frames \ {Len(frames)} /\ Top = frames[Len(frames)]
    BY PopFrame
<1>2. (\E i \in DOMAIN frames : Holds(frames[i])) <=> (\E i \in DOMAIN frames' : Holds(frames[i]))
    BY <1>1
<1>3. lock' <=> "lock" \in lost' \/ \E i \in DOMAIN frames' : Holds(frames[i])
    BY <1>2 DEF LockInv
<1> QED BY <1>3, CallReturns

(* No step lets two calls be converted at once, one inside the other.      *)
LEMMA LockStep ==
    ASSUME TypeOK, FrameInv, LockInv, [Next]_vars
    PROVE  FrameInv' /\ LockInv'
<1> USE ContextAssumption
<1>1. CASE Enter
    <2>1. frames = <<>> /\ DOMAIN frames = {}
        BY <1>1 DEF Enter, FrameInv
    <2>2. lock <=> "lock" \in lost
        BY <2>1 DEF LockInv
    <2>3. /\ DOMAIN frames' = {1} /\ frames'[1] = ModuleFrame(Root) /\ phase' # "before"
          /\ frames'[1].kind = "module" /\ frames'[1].of = Root /\ frames'[1].stage = "running"
        BY <1>1 DEF Enter, ModuleFrame
    <2>4. FrameInv'
        BY <2>3 DEF FrameInv
    <2>5. \A i \in DOMAIN frames' : ~Holds(frames'[i]) /\ frames'[i].kind # "method"
        BY <2>3 DEF Holds
    <2>6. LockInv'
        BY <1>1, <2>2, <2>5 DEF Enter, LockInv
    <2> QED BY <2>4, <2>6
<1>2. ASSUME NEW m \in Modules, ModulePreHook(m) PROVE FrameInv' /\ LockInv'
    <2> DEFINE new == Len(frames) + 1
    <2>1. /\ ModuleFrame(m) \in Frames /\ ModuleFrame(m).kind = "module"
          /\ ModuleFrame(m).of = m /\ ModuleFrame(m).stage = "running"
        BY DEF ModuleFrame, Frames
    <2>2. /\ Len(frames) \in Nat /\ Len(frames') = new /\ DOMAIN frames = 1..Len(frames)
          /\ DOMAIN frames' = DOMAIN frames \cup {new} /\ frames'[new] = ModuleFrame(m)
          /\ \A i \in DOMAIN frames : frames'[i] = frames[i] /\ i < new
        BY <1>2, <2>1, PushFrame DEF ModulePreHook
    <2>3. frames # <<>> /\ Top = frames[Len(frames)] /\ Top.stage = "running" /\ phase' = "active"
          /\ methodArgs' = methodArgs /\ lock' = lock /\ lost' = lost
        BY <1>2, PopFacts DEF ModulePreHook, CanCall, Top, TypeOK
    <2> HIDE DEF new
    <2>4. FrameInv'
        <3>1. frames'[1].kind = "module"
            <4>1. 1 \in DOMAIN frames
                BY <2>3 DEF TypeOK
            <4> QED BY <2>2, <2>3, <4>1 DEF FrameInv
        <3>2. \A i \in DOMAIN frames : frames[i].stage = "converting" => i < Len(frames)
            BY <2>2, <2>3
        <3>3. ASSUME NEW i \in DOMAIN frames'
              PROVE  /\ frames'[i].kind = "module" => frames'[i].of \in Modules /\ frames'[i].stage = "running"
                     /\ frames'[i].stage = "converting" => ~frames'[i].skip /\ methodArgs'
                                                           /\ (i < Len(frames') => frames'[i].of \in Real)
            <4>1. CASE i = new
                BY <2>1, <2>2, <4>1
            <4>2. CASE i \in DOMAIN frames
                BY <2>2, <2>3, <3>2, <4>2 DEF FrameInv
            <4> QED BY <2>2, <4>1, <4>2
        <3> QED BY <2>3, <3>1, <3>3 DEF FrameInv
    <2>5. LockInv'
        <3>1. ~Holds(frames'[new]) /\ frames'[new].kind # "method"
            BY <2>1, <2>2 DEF Holds
        <3> QED BY <2>2, <2>3, <3>1 DEF LockInv
    <2> QED BY <2>4, <2>5
<1>3. ASSUME NEW f \in Registered \cup Unregistered, CallMethod(f) PROVE FrameInv' /\ LockInv'
    <2> DEFINE new == Len(frames) + 1
               fr == MethodFrame(f, Skipped(f))
    <2>1. Skipped(f) \in BOOLEAN /\ TakesLock(f) = (~Skipped(f) /\ f \in Real) /\ (lock => Skipped(f))
        BY DEF Skipped, TakesLock, TypeOK
    <2>2. /\ fr \in Frames /\ fr.kind = "method" /\ fr.of = f /\ fr.skip = Skipped(f) /\ fr.stage = "running"
        BY <2>1 DEF MethodFrame, Frames
    <2>3. /\ Len(frames) \in Nat /\ Len(frames') = new /\ DOMAIN frames = 1..Len(frames)
          /\ DOMAIN frames' = DOMAIN frames \cup {new} /\ frames'[new] = fr
          /\ \A i \in DOMAIN frames : frames'[i] = frames[i] /\ i < new
        BY <1>3, <2>2, PushFrame DEF CallMethod
    <2>4. frames # <<>> /\ Top = frames[Len(frames)] /\ (Top.stage = "running" \/ Top.of \in Real)
          /\ phase' = "active" /\ methodArgs' = methodArgs /\ lost' = lost
        BY <1>3, PopFacts DEF CallMethod, CanCall, Top, TypeOK
    <2>5. lock' = (lock \/ TakesLock(f))
        BY <1>3 DEF CallMethod
    <2> HIDE DEF new, fr
    <2>6. FrameInv'
        <3>1. frames'[1].kind = "module"
            <4>1. 1 \in DOMAIN frames
                BY <2>4 DEF TypeOK
            <4> QED BY <2>3, <2>4, <4>1 DEF FrameInv
        <3>2. \A i \in DOMAIN frames : frames[i].stage = "converting" => frames[i].of \in Real
            BY <2>3, <2>4 DEF FrameInv
        <3>3. ASSUME NEW i \in DOMAIN frames'
              PROVE  /\ frames'[i].kind = "module" => frames'[i].of \in Modules /\ frames'[i].stage = "running"
                     /\ frames'[i].stage = "converting" => ~frames'[i].skip /\ methodArgs'
                                                           /\ (i < Len(frames') => frames'[i].of \in Real)
            <4>1. CASE i = new
                BY <2>2, <2>3, <4>1
            <4>2. CASE i \in DOMAIN frames
                BY <2>3, <2>4, <3>2, <4>2 DEF FrameInv
            <4> QED BY <2>3, <4>1, <4>2
        <3> QED BY <2>4, <3>1, <3>3 DEF FrameInv
    <2>7. LockInv'
        <3>1. Holds(frames'[new]) <=> TakesLock(f)
            BY <2>1, <2>2, <2>3 DEF Holds
        <3>2. lock' <=> "lock" \in lost' \/ \E i \in DOMAIN frames' : Holds(frames'[i])
            BY <2>3, <2>4, <2>5, <3>1 DEF LockInv
        <3>3. ASSUME NEW i \in DOMAIN frames', NEW j \in DOMAIN frames',
                     j < i, frames'[i].kind = "method", ~frames'[i].skip
              PROVE  ~Holds(frames'[j])
            <4>1. j \in DOMAIN frames
                BY <2>3, <3>3
            <4>2. CASE i = new
                <5>1. ~lock
                    BY <2>1, <2>2, <2>3, <3>3, <4>2
                <5> QED BY <2>3, <4>1, <5>1 DEF LockInv
            <4>3. CASE i \in DOMAIN frames
                BY <2>3, <3>3, <4>1, <4>3 DEF LockInv
            <4> QED BY <2>3, <4>2, <4>3
        <3> QED BY <3>2, <3>3 DEF LockInv
    <2> QED BY <2>6, <2>7
<1>4. CASE ModulePostHook
    <2>1. frames # <<>> /\ Top.kind = "module" /\ frames' = Front(frames) /\ phase' = "active"
          /\ methodArgs' = methodArgs /\ lock' = lock /\ lost' = lost
        BY <1>4 DEF ModulePostHook
    <2>2. ~Holds(Top)
        BY <2>1 DEF Holds
    <2> QED BY <2>1, <2>2, OtherCallReturns
<1>5. CASE MethodReturns
    <2>1. frames # <<>> /\ Top.kind = "method" /\ phase' = "active" /\ lock' = lock /\ lost' = lost
          /\ methodArgs' = (~Top.skip \/ methodArgs)
        BY <1>5 DEF MethodReturns, ArgsAfterMethod
    <2>2. CASE Top.skip
        <3>1. methodArgs' = methodArgs
            BY <2>1, <2>2 DEF TypeOK
        <3>2. ~Holds(Top)
            BY <2>2 DEF Holds
        <3>3. frames' = Front(frames)
            BY <1>5, <2>2 DEF MethodReturns
        <3> QED BY <2>1, <3>1, <3>2, <3>3, OtherCallReturns
    <2>3. CASE ~Top.skip
        <3>1. /\ Len(frames) \in Nat \ {0} /\ Len(frames') = Len(frames)
              /\ DOMAIN frames = 1..Len(frames) /\ DOMAIN frames' = DOMAIN frames /\ Top = frames[Len(frames)]
              /\ \A i \in DOMAIN frames : /\ i < Len(frames) => frames'[i] = frames[i]
                                          /\ frames'[i].kind = frames[i].kind
                                          /\ frames'[i].of = frames[i].of
                                          /\ frames'[i].skip = frames[i].skip
            BY <1>5, <2>3, MarkFrame DEF MethodReturns
        <3>2. methodArgs' = TRUE
            BY <2>1, <2>3
        <3>3. FrameInv'
            <4>1. frames'[1].kind = "module"
                BY <2>1, <3>1 DEF FrameInv
            <4>2. ASSUME NEW i \in DOMAIN frames'
                  PROVE  /\ frames'[i].kind = "module" => frames'[i].of \in Modules /\ frames'[i].stage = "running"
                         /\ frames'[i].stage = "converting" => ~frames'[i].skip /\ methodArgs'
                                                               /\ (i < Len(frames') => frames'[i].of \in Real)
                <5>1. CASE i = Len(frames)
                    BY <2>1, <2>3, <3>1, <3>2, <5>1
                <5>2. CASE i < Len(frames)
                    BY <3>1, <3>2, <5>2 DEF FrameInv
                <5> QED BY <3>1, <5>1, <5>2
            <4> QED BY <2>1, <4>1, <4>2 DEF FrameInv
        <3>4. \A i \in DOMAIN frames : Holds(frames'[i]) <=> Holds(frames[i])
            BY <3>1 DEF Holds
        <3>5. LockInv'
            BY <2>1, <3>1, <3>4 DEF LockInv
        <3> QED BY <3>3, <3>5
    <2> QED BY <2>2, <2>3
<1>6. CASE ConverterReturns
    <2>1. frames # <<>> /\ Top.stage = "converting" /\ frames' = Front(frames) /\ phase' = "active"
          /\ lock' = FALSE /\ "lock" \notin lost'
        BY <1>6 DEF ConverterReturns
    <2>2. /\ DOMAIN frames = 1..Len(frames) /\ DOMAIN frames' = DOMAIN frames \ {Len(frames)}
          /\ Top = frames[Len(frames)] /\ Top \in Frames /\ Len(frames) \in DOMAIN frames
          /\ \A i \in DOMAIN frames' : i < Len(frames)
        BY <2>1, PopFrame
    <2>3. Top.kind = "method" /\ ~Top.skip
        BY <2>1, <2>2 DEF FrameInv, Frames
    <2>4. \A j \in DOMAIN frames' : ~Holds(frames[j])
        BY <2>2, <2>3 DEF LockInv
    <2>5. ASSUME NEW j \in DOMAIN frames', frames[j].stage = "converting" PROVE FALSE
        <3>1. j \in DOMAIN frames /\ j < Len(frames) /\ frames[j] \in Frames
            BY <2>2 DEF TypeOK
        <3>2. ~frames[j].skip /\ frames[j].of \in Real /\ frames[j].kind # "module"
            BY <2>5, <3>1 DEF FrameInv
        <3>3. Holds(frames[j])
            BY <3>1, <3>2 DEF Holds, Frames
        <3> QED BY <2>4, <3>3
    <2> QED BY <2>1, <2>4, <2>5, CallReturns
<1>7. CASE Unwind
    <2>1. frames # <<>> /\ frames' = Front(frames) /\ phase' = "raising" /\ methodArgs' = methodArgs /\ lock' = lock
          /\ ("lock" \in lost' <=> "lock" \in lost \/ Holds(Top))
        BY <1>7 DEF Unwind, context
    <2>2. CASE Holds(Top)
        <3>1. Top = frames[Len(frames)] /\ Len(frames) \in DOMAIN frames
            BY <2>1, PopFrame
        <3>2. lock
            BY <2>2, <3>1 DEF LockInv
        <3> QED BY <2>1, <2>2, <3>2, CallReturns
    <2>3. CASE ~Holds(Top)
        BY <2>1, <2>3, OtherCallReturns
    <2> QED BY <2>2, <2>3
<1>8. CASE AddLayer \/ Raise \/ Catch \/ Exit \/ UNCHANGED vars
    <2>1. frames' = frames /\ methodArgs' = methodArgs /\ lock' = lock /\ lost' = lost
          /\ (phase' = "before" => phase = "before")
        BY <1>8 DEF AddLayer, Raise, Catch, Exit, vars, context
    <2>2. FrameInv'
        BY <2>1 DEF FrameInv
    <2>3. LockInv'
        BY <2>1 DEF LockInv
    <2> QED BY <2>2, <2>3
<1> QED BY <1>1, <1>2, <1>3, <1>4, <1>5, <1>6, <1>7, <1>8 DEF Next

-------------------------------------------------------------------------------
(* Every layer gets a name of its own, and the methods are restored.       *)
LEMMA LayerStep ==
    ASSUME TypeOK, FrameInv, ScopeInv, LayerInv, LayerNamesUnique, MethodsRestored, [Next]_vars
    PROVE  LayerInv' /\ LayerNamesUnique' /\ MethodsRestored'
<1>1. CASE AddLayer
    <2> DEFINE s == Last(moduleStack)
               new == Len(layers) + 1
    <2>1. s \in Modules
        BY <1>1, FrameHasScope, PopFacts DEF AddLayer, TypeOK
    <2>2. layers \in Seq(Modules \X Nat \X Devices) /\ layerCounts \in [Modules -> Nat]
        BY DEF TypeOK
    <2>3. layerCounts' = [layerCounts EXCEPT ![s] = @ + 1]
        BY <1>1 DEF AddLayer, Counted
    <2>4. layers' = Append(layers, <<s, layerCounts'[s] - 1, CurrentDeviceType>>)
          /\ phase' = phase /\ phase = "active"
        BY <1>1 DEF AddLayer
    <2> HIDE DEF s, new
    <2>5. layerCounts'[s] - 1 = layerCounts[s] /\ layerCounts[s] \in Nat
          /\ layerCounts'[s] = layerCounts[s] + 1
          /\ \A m \in Modules : layerCounts'[m] >= layerCounts[m]
        BY <2>1, <2>2, <2>3
    <2>6. DOMAIN layers' = DOMAIN layers \cup {new} /\ layers'[new] = <<s, layerCounts[s], CurrentDeviceType>>
          /\ \A i \in DOMAIN layers : layers'[i] = layers[i]
        <3> DEFINE e == <<s, layerCounts'[s] - 1, CurrentDeviceType>>
        <3>1. layers' = Append(layers, e)
            BY <2>4
        <3>2. e = <<s, layerCounts[s], CurrentDeviceType>>
            BY <2>5
        <3> HIDE DEF e
        <3>3. DOMAIN layers' = DOMAIN layers \cup {new} /\ layers'[new] = e
              /\ \A i \in DOMAIN layers : layers'[i] = layers[i]
            BY <2>2, <3>1 DEF new
        <3> QED BY <3>2, <3>3
    <2>7. \A i \in DOMAIN layers : /\ layers[i][1] \in Modules /\ layers[i][2] \in Nat
                                   /\ layers[i][2] < layerCounts[layers[i][1]]
        <3>1. \A i \in DOMAIN layers : layers[i] \in Modules \X Nat \X Devices
            BY <2>2
        <3>2. \A i \in DOMAIN layers : layers[i][1] \in Modules /\ layers[i][2] \in Nat
            BY <3>1
        <3> QED BY <3>2 DEF LayerInv
    <2>8. LayerInv'
        <3>1. ASSUME NEW i \in DOMAIN layers' PROVE layers'[i][2] < layerCounts'[layers'[i][1]]
            <4>1. CASE i = new
                BY <2>5, <2>6, <4>1
            <4>2. CASE i \in DOMAIN layers
                <5>1. layers'[i] = layers[i]
                    BY <2>6, <4>2
                <5>2. PICK m \in Modules : m = layers[i][1]
                    BY <2>7, <4>2
                <5>3. layers[i][2] < layerCounts[m] /\ layers[i][2] \in Nat
                    BY <2>7, <4>2, <5>2
                <5>4. layerCounts[m] \in Nat /\ layerCounts'[m] \in Nat /\ layerCounts'[m] >= layerCounts[m]
                    BY <2>1, <2>2, <2>3, <2>5
                <5> QED BY <5>1, <5>2, <5>3, <5>4
            <4> QED BY <2>6, <4>1, <4>2
        <3> QED BY <3>1 DEF LayerInv
    <2>9. LayerNamesUnique'
        <3>1. \A i \in DOMAIN layers : ~(layers[i][1] = s /\ layers[i][2] = layerCounts[s])
            BY <2>5, <2>7
        <3> QED BY <2>6, <3>1 DEF LayerNamesUnique
    <2> QED BY <2>4, <2>8, <2>9 DEF MethodsRestored
<1>2. CASE ~AddLayer
    <2>1. layers' = layers /\ layerCounts' = layerCounts
        BY <1>2 DEF Next, Enter, ModulePreHook, ModulePostHook, CallMethod, MethodReturns,
                    ConverterReturns, Raise, Unwind, Catch, Exit, context, vars
    <2>2. MethodsRestored'
        BY <1>2 DEF Next, Enter, ModulePreHook, ModulePostHook, CallMethod, MethodReturns, CanCall,
                    ConverterReturns, Raise, Unwind, Catch, Exit, AttachedAfterExit, context, vars,
                    MethodsRestored
    <2> QED BY <2>1, <2>2 DEF LayerInv, LayerNamesUnique
<1> QED BY <1>1, <1>2

(* The inductive invariant holds in every state.                           *)
THEOREM ContextInvariance == Spec => []ContextInv
<1>1. Init => ContextInv
    <2> SUFFICES ASSUME Init PROVE ContextInv
        OBVIOUS
    <2> USE ContextAssumption
    <2>1. TypeOK
        <3>1. frames \in Seq(Frames) /\ moduleStack \in Seq(Modules)
              /\ deviceStack \in Seq(Modules \X Devices) /\ layers \in Seq(Modules \X Nat \X Devices)
            BY DEF Init
        <3> QED BY <3>1 DEF Init, TypeOK
    <2>2. DOMAIN frames = {} /\ DOMAIN layers = {} /\ Len(moduleStack) = 0 /\ Len(deviceStack) = 0
        BY DEF Init
    <2>3. Scopes = {} /\ Typed = {}
        BY <2>2 DEF Scopes, Typed
    <2>4. PICK g \in Placements({}, 0) : Filled(g, 0)
        BY NoPlace
    <2>5. ScopeInv /\ DeviceInv
        BY <2>2, <2>3, <2>4 DEF ScopeInv, DeviceInv
    <2>6. FrameInv
        BY <2>2 DEF Init, FrameInv
    <2>7. LockInv
        BY <2>2 DEF Init, LockInv
    <2>8. LayerInv /\ LayerNamesUnique /\ MethodsRestored
        BY <2>2 DEF Init, LayerInv, LayerNamesUnique, MethodsRestored
    <2> QED BY <2>1, <2>5, <2>6, <2>7, <2>8 DEF ContextInv
<1>2. ContextInv /\ [Next]_vars => ContextInv'
    <2> SUFFICES ASSUME ContextInv, [Next]_vars PROVE ContextInv'
        OBVIOUS
    <2>1. TypeOK /\ ScopeInv /\ DeviceInv /\ FrameInv /\ LockInv /\ LayerInv
          /\ LayerNamesUnique /\ MethodsRestored
        BY DEF ContextInv
    <2>2. TypeOK'
        BY <2>1, TypeStep
    <2>3. ScopeInv' /\ DeviceInv'
        BY <2>1, ScopeStep
    <2>4. FrameInv' /\ LockInv'
        BY <2>1, LockStep
    <2>5. LayerInv' /\ LayerNamesUnique' /\ MethodsRestored'
        BY <2>1, LayerStep
    <2> QED BY <2>2, <2>3, <2>4, <2>5 DEF ContextInv
<1> QED BY <1>1, <1>2, PTL DEF Spec

-------------------------------------------------------------------------------
(* The innermost of the frames has the last place.                         *)
LEMMA InnermostPlace ==
    ASSUME NEW d \in Nat, NEW n \in Nat, NEW F \in SUBSET (1..d), NEW g \in Placements(F, n), Filled(g, n)
    PROVE  /\ n = 0 => F = {}
           /\ n > 0 => F # {} /\ Innermost(F) \in F /\ g[Innermost(F)] = n
<1>1. g \in [F -> 1..n] /\ \A i, j \in F : i < j => g[i] < g[j]
    BY DEF Placements
<1>2. ASSUME n > 0 PROVE \E e \in F : g[e] = n /\ \A j \in F : j <= e
    <2>1. PICK e \in F : g[e] = n
        BY <1>1, <1>2 DEF Filled
    <2>2. ASSUME NEW j \in F, ~(j <= e) PROVE FALSE
        <3>1. e < j /\ g[j] \in 1..n
            BY <1>1, <2>2
        <3> QED BY <1>1, <2>1, <3>1
    <2> QED BY <2>1, <2>2
<1>3. ASSUME n > 0 PROVE Innermost(F) \in F /\ g[Innermost(F)] = n
    <2> DEFINE top == Innermost(F)
    <2>1. PICK e \in F : g[e] = n /\ \A j \in F : j <= e
        BY <1>2, <1>3
    <2>2. top \in F /\ \A j \in F : j <= top
        BY <2>1 DEF Innermost
    <2> HIDE DEF top
    <2>3. top = e
        BY <2>1, <2>2
    <2> QED BY <2>1, <2>2, <2>3 DEF top
<1>4. n = 0 => F = {}
    BY <1>1
<1> QED BY <1>2, <1>3, <1>4

(* A layer that is added is named for the module that runs, and is on the  *)
(* device of the innermost module that has one.                            *)
LEMMA LayerPlace ==
    ASSUME TypeOK, ScopeInv, DeviceInv, FrameInv, [Next]_vars
    PROVE  LayerIsPlaced
<1> SUFFICES ASSUME Len(layers') > Len(layers), "module" \notin lost
             PROVE  Last(layers')[1] = EnclosingModule /\ Last(layers')[3] = EnclosingDevice
    BY DEF LayerIsPlaced
<1>1. layers \in Seq(Modules \X Nat \X Devices)
    BY DEF TypeOK
<1>2. AddLayer
    <2> SUFFICES ASSUME ~AddLayer PROVE FALSE
        OBVIOUS
    <2>1. layers' = layers
        BY DEF Next, Enter, ModulePreHook, ModulePostHook, CallMethod, MethodReturns,
               ConverterReturns, Raise, Unwind, Catch, Exit, context, vars
    <2> QED BY <1>1, <2>1
<1> DEFINE layer == <<Last(moduleStack), layerCounts'[Last(moduleStack)] - 1, CurrentDeviceType>>
           n == Len(moduleStack)
           k == Len(deviceStack)
<1>3. layers' = Append(layers, layer) /\ frames # <<>>
    BY <1>2 DEF AddLayer
<1>4. Last(layers') = layer
    <2> HIDE DEF layer
    <2>1. Len(layers') = Len(layers) + 1 /\ layers'[Len(layers) + 1] = layer
        BY <1>1, <1>3
    <2> QED BY <2>1 DEF Last
<1>5. layer[1] = Last(moduleStack) /\ layer[3] = CurrentDeviceType
    OBVIOUS
<1>6. Len(frames) \in Nat /\ DOMAIN frames = 1..Len(frames) /\ n \in Nat /\ k \in Nat
    BY DEF TypeOK
<1>7. Scopes \in SUBSET (1..Len(frames)) /\ Typed \in SUBSET (1..Len(frames))
    BY <1>6 DEF Scopes, Typed
<1> HIDE DEF layer, n, k
<1>8. Last(moduleStack) = EnclosingModule
    <2>1. PICK g \in Placements(Scopes, n) : Filled(g, n) /\ \A i \in Scopes : moduleStack[g[i]] = frames[i].of
        BY DEF ScopeInv, n
    <2>2. moduleStack # <<>> /\ moduleStack \in Seq(Modules)
        BY <1>3, FrameHasScope DEF TypeOK
    <2>3. n > 0 /\ Last(moduleStack) = moduleStack[n]
        <3>1. Len(moduleStack) \in Nat \ {0} /\ Last(moduleStack) = moduleStack[Len(moduleStack)]
            BY <2>2, PopFacts
        <3> QED BY <3>1 DEF n
    <2>4. Innermost(Scopes) \in Scopes /\ g[Innermost(Scopes)] = n
        BY <1>6, <1>7, <2>1, <2>3, InnermostPlace
    <2> QED BY <2>1, <2>3, <2>4 DEF EnclosingModule
<1>9. CurrentDeviceType = EnclosingDevice
    <2>1. PICK g \in Placements(Typed, k) : Filled(g, k) /\ \A i \in Typed : deviceStack[g[i]] = DeviceEntry(i)
        BY DEF DeviceInv, k
    <2>2. CASE deviceStack = <<>>
        <3>1. k = 0
            BY <2>2 DEF k
        <3>2. Typed = {}
            BY <1>6, <1>7, <2>1, <3>1, InnermostPlace
        <3> QED BY <2>2, <3>2 DEF CurrentDeviceType, EnclosingDevice
    <2>3. CASE deviceStack # <<>>
        <3>1. deviceStack \in Seq(Modules \X Devices)
            BY DEF TypeOK
        <3>2. k > 0 /\ Last(deviceStack) = deviceStack[k]
            <4>1. Len(deviceStack) \in Nat \ {0} /\ Last(deviceStack) = deviceStack[Len(deviceStack)]
                BY <2>3, <3>1, PopFacts
            <4> QED BY <4>1 DEF k
        <3>3. Typed # {} /\ Innermost(Typed) \in Typed /\ g[Innermost(Typed)] = k
            BY <1>6, <1>7, <2>1, <3>2, InnermostPlace
        <3>4. Last(deviceStack) = DeviceEntry(Innermost(Typed))
            BY <2>1, <3>2, <3>3
        <3> QED BY <2>3, <3>3, <3>4 DEF CurrentDeviceType, EnclosingDevice, DeviceEntry
    <2> QED BY <2>2, <2>3
<1> QED BY <1>4, <1>5, <1>8, <1>9

(* The network is the traced model (TracedAsCalled): every outermost call  *)
(* is converted once, with its arguments at hand, into layers with names   *)
(* of their own that are placed as device_types says, and the methods are  *)
(* restored, however calls nest, raise and are caught.                     *)
THEOREM NetworkIsTraced == Spec => TracedAsCalled
<1>1. ContextInv => CallsConvertedOnce
    <2> SUFFICES ASSUME ContextInv PROVE CallsConvertedOnce
        OBVIOUS
    <2>1. TypeOK /\ LockInv /\ FrameInv /\ LayerNamesUnique /\ MethodsRestored
        BY DEF ContextInv
    <2>2. LockFollowsTheCall
        BY <2>1 DEF LockInv, LockFollowsTheCall
    <2>3. ConvertedOnce
        <3> SUFFICES ASSUME NEW i \in DOMAIN frames, NEW j \in DOMAIN frames,
                            Holds(frames[i]), Holds(frames[j]), i # j
                     PROVE  FALSE
            BY DEF ConvertedOnce
        <3>1. i < j \/ j < i
            BY <2>1 DEF TypeOK
        <3> QED BY <2>1, <3>1 DEF LockInv, Holds
    <2>4. ArgumentsAtHand
        <3>1. frames \in Seq(Frames)
            BY <2>1 DEF TypeOK
        <3>2. frames # <<>> => Top = frames[Len(frames)] /\ Len(frames) \in DOMAIN frames
            BY <3>1, PopFacts DEF Top
        <3> QED BY <2>1, <3>2 DEF ArgumentsAtHand, FrameInv
    <2> QED BY <2>1, <2>2, <2>3, <2>4 DEF CallsConvertedOnce
<1>2. ContextInv /\ [Next]_vars => LayerIsPlaced
    BY LayerPlace DEF ContextInv
<1>3. Spec => []ContextInv
    BY ContextInvariance
<1> QED BY <1>1, <1>2, <1>3, PTL DEF Spec, TracedAsCalled

-------------------------------------------------------------------------------
(* The size of the example input is one of those the input may have.       *)
ExampleIsASize == TraceSize \in Sizes

(* A number as the operations make it, within the bounds or not.           *)
Agreeing(v) ==
    /\ v = [int |-> v.int, trt |-> v.trt, meant |-> v.meant, live |-> v.live]
    /\ v.trt = [s \in Sizes |-> v.trt[s]]
    /\ v.meant = [s \in Sizes |-> v.meant[s]]
    /\ v.live \in BOOLEAN
    /\ v.trt[TraceSize] = v.int
    /\ v.live => v.trt = v.meant

(* Compute keeps such a number, and with it the invariant.                 *)
LEMMA ComputeKeeps ==
    ASSUME ExampleIsASize, ShapesInv, NEW v, Agreeing(v), Compute(v)
    PROVE  ShapesInv'
<1>1. \A s \in Sizes : v.trt[s] \in -Bound..Bound /\ v.meant[s] \in -Bound..Bound
    BY DEF Compute
<1>2. v.trt \in [Sizes -> -Bound..Bound] /\ v.meant \in [Sizes -> -Bound..Bound]
    BY <1>1 DEF Agreeing
<1>3. v.int \in -Bound..Bound
    BY <1>1 DEF ExampleIsASize, Agreeing
<1>4. v \in Following
    BY <1>2, <1>3 DEF Following, Agreeing
<1>5. values' = Append(values, v)
    BY DEF Compute
<1> QED BY <1>4, <1>5 DEF ShapesInv

(* So are the operands of an operation.                                    *)
LEMMA OperandsAgree ==
    ASSUME ExampleIsASize, ShapesInv
    PROVE  /\ \A i \in DOMAIN values : Agreeing(values[i])
           /\ \A n : Agreeing(Literal(n))
<1>1. ASSUME NEW i \in DOMAIN values PROVE Agreeing(values[i])
    <2>1. values[i] \in Following
        BY DEF ShapesInv
    <2> QED BY <2>1 DEF Following, Agreeing
<1>2. ASSUME NEW n PROVE Agreeing(Literal(n))
    BY DEF ExampleIsASize, Agreeing, Literal, Plain, Constant
<1> QED BY <1>1, <1>2

(* And its result: the node is built from the operands' nodes as the int   *)
(* is from their ints.                                                     *)
LEMMA ResultAgrees ==
    ASSUME ExampleIsASize, NEW op, NEW x, NEW y, Agreeing(x), Agreeing(y)
    PROVE  Agreeing(Result(op, x, y))
<1> DEFINE r == Result(op, x, y)
<1>1. /\ r.int = Apply(op, x.int, y.int)
      /\ r.trt = [s \in Sizes |-> Apply(op, x.trt[s], y.trt[s])]
      /\ r.meant = [s \in Sizes |-> Apply(op, x.meant[s], y.meant[s])]
      /\ r.live = (x.live /\ y.live)
      /\ r = [int |-> r.int, trt |-> r.trt, meant |-> r.meant, live |-> r.live]
    BY DEF Result, ResultNode
<1> HIDE DEF r
<1>2. r.live \in BOOLEAN
    BY <1>1 DEF Agreeing
<1>3. r.trt[TraceSize] = r.int
    BY <1>1 DEF Agreeing, ExampleIsASize
<1>4. r.live => r.trt = r.meant
    BY <1>1 DEF Agreeing
<1>5. r.trt = [s \in Sizes |-> r.trt[s]] /\ r.meant = [s \in Sizes |-> r.meant[s]]
    BY <1>1
<1>6. Agreeing(r)
    BY <1>1, <1>2, <1>3, <1>4, <1>5 DEF Agreeing
<1> QED BY <1>6 DEF r

(* A size is wrapped, or a plain int that is the same for every input      *)
(* exactly when its axis is static.                                        *)
LEMMA SizesAgree ==
    ASSUME ExampleIsASize, NEW axis \in Axes
    PROVE  Agreeing(Wrapped(axis)) /\ Agreeing(Unwrapped(axis))
<1>1. Agreeing(Wrapped(axis))
    BY DEF ExampleIsASize, Agreeing, Wrapped, SizeNode, SizeOf
<1>2. CASE axis = "static"
    BY <1>1, <1>2 DEF ExampleIsASize, Agreeing, Unwrapped, Plain, Constant, SizeOf
<1>3. CASE axis # "static"
    BY <1>1, <1>3 DEF ExampleIsASize, Agreeing, Unwrapped, Plain, Constant, SizeOf
<1> QED BY <1>1, <1>2, <1>3

LEMMA ShapesStep == ExampleIsASize /\ ShapesInv /\ [ShapesNext]_<<values, wrapping>> => ShapesInv'
<1> SUFFICES ASSUME ExampleIsASize, ShapesInv, [ShapesNext]_<<values, wrapping>>
             PROVE  ShapesInv'
    OBVIOUS
<1>1. CASE Size
    BY <1>1, SizesAgree, ComputeKeeps DEF Size
<1>2. CASE Shape
    <2>1. PICK axis \in Axes :
              Compute(IF Wraps THEN Wrapped(axis) ELSE Unwrapped(axis))
        BY <1>2 DEF Shape
    <2>2. Agreeing(IF Wraps THEN Wrapped(axis) ELSE Unwrapped(axis))
        BY SizesAgree
    <2> QED BY <2>1, <2>2, ComputeKeeps
<1>3. CASE Arithmetic
    <2>1. PICK op \in Operations, i \in DOMAIN values :
              \E y \in {values[j] : j \in DOMAIN values} \cup {Literal(n) : n \in Literals} :
                  Compute(Result(op, values[i], y)) \/ Compute(Result(op, y, values[i]))
        BY <1>3 DEF Arithmetic
    <2>2. PICK y \in {values[j] : j \in DOMAIN values} \cup {Literal(n) : n \in Literals} :
              Compute(Result(op, values[i], y)) \/ Compute(Result(op, y, values[i]))
        BY <2>1
    <2>3. Agreeing(values[i]) /\ Agreeing(y)
        BY OperandsAgree
    <2>4. Agreeing(Result(op, values[i], y)) /\ Agreeing(Result(op, y, values[i]))
        BY <2>3, ResultAgrees
    <2> QED BY <2>2, <2>4, ComputeKeeps
<1>4. CASE NotWrapped
    <2>1. PICK i \in DOMAIN values, n \in Literals \ {0} :
              Compute(Plain(values[i].int % n, [s \in Sizes |-> values[i].meant[s] % n], FALSE))
        BY <1>4 DEF NotWrapped
    <2>2. Agreeing(Plain(values[i].int % n, [s \in Sizes |-> values[i].meant[s] % n], FALSE))
        BY DEF ExampleIsASize, Agreeing, Plain, Constant
    <2> QED BY <2>1, <2>2, ComputeKeeps
<1>5. CASE UNCHANGED values
    BY <1>5 DEF ShapesInv
<1> QED BY <1>1, <1>2, <1>3, <1>4, <1>5 DEF ShapesNext, EnterWrapping, ExitWrapping

(* ShapesFollowTheInput of IntWrapper: whatever a module computes from the *)
(* sizes of its input while it is traced, in whatever order wrapping is    *)
(* switched, for all sizes, literals and lengths of the computation.       *)
THEOREM SizesAreTraced == ASSUME ExampleIsASize PROVE ShapesSpec => []ShapesFollowTheInput
<1>1. ShapesInit => ShapesInv
    BY DEF ShapesInit, ShapesInv
<1>2. ShapesInv /\ [ShapesNext]_<<values, wrapping>> => ShapesInv'
    BY ShapesStep
<1>3. ShapesInv => ShapesFollowTheInput
    BY OperandsAgree DEF ShapesFollowTheInput, Agreeing
<1> QED BY <1>1, <1>2, <1>3, PTL DEF ShapesSpec, shapeVars

-------------------------------------------------------------------------------
(* What a dataset holds, by kind.                                          *)
StoreByKind ==
    /\ kind \in {"list", "batch", "folder"}
    /\ kind = "list" => store \in Seq(Calls)
    /\ kind = "batch" => store = <<>> \/ store \in Calls
    /\ kind = "folder" => DOMAIN store \subseteq 0..MaxItems /\ \A i \in DOMAIN store : store[i] \in Calls

(* What the conversion runs the module with, and may be recorded again, is *)
(* an example, too.                                                        *)
StoreInv == StoreByKind /\ (stage \in {"traced", "profiled"} => inputs \in Calls)

(* The names of files sort as numbers, and differ.                         *)
LEMMA NameFacts ==
    /\ \A i \in 0..MaxItems : Name(i) \in Nat \ {0}
    /\ \A i, j \in 0..MaxItems : Name(i) = Name(j) => i = j
<1> DEFINE base == NameBase + 1
<1>1. NameBase \in Nat \ {0} /\ base \in Nat \ {0} /\ MaxItems \in Nat
    BY BuildAssumption
<1>2. ASSUME NEW s \in Nat, NEW t \in Nat, NEW u \in 0..NameBase, NEW v \in 0..NameBase,
             NameOf(s, u) = NameOf(t, v)
      PROVE  s = t /\ u = v
    <2>1. ASSUME NEW a \in Nat, NEW b \in Nat, a < b PROVE a * base + base <= b * base
        <3>1. PICK c \in Nat : b = a + 1 + c
            <4>1. b - a - 1 \in Nat /\ b = a + 1 + (b - a - 1)
                BY <2>1
            <4> QED BY <4>1
        <3> HIDE DEF base
        <3>2. b * base = a * base + base + c * base
            BY <1>1, <3>1
        <3>3. c * base \in Nat /\ a * base \in Nat
            BY <1>1
        <3> QED BY <1>1, <3>2, <3>3
    <2>2. s * base + u = t * base + v
        BY <1>2 DEF NameOf
    <2>3. s * base \in Nat /\ t * base \in Nat
        BY <1>1
    <2>4. u < base /\ v < base /\ u \in Nat /\ v \in Nat
        BY <1>1
    <2> HIDE DEF base
    <2>5. ~(s < t) /\ ~(t < s)
        BY <1>1, <2>1, <2>2, <2>3, <2>4
    <2>6. s = t
        BY <2>5
    <2> QED BY <2>2, <2>3, <2>4, <2>6
<1>3. \A i \in Nat : /\ i \div NameBase \in Nat /\ i % NameBase \in 0..(NameBase - 1)
                     /\ i = NameBase * (i \div NameBase) + (i % NameBase)
    BY <1>1
<1>4. ASSUME NEW i \in 0..MaxItems
      PROVE  \E s \in Nat \ {0}, u \in 0..NameBase :
                 /\ Name(i) = NameOf(s, u)
                 /\ i = IF u = 0 THEN s - 1 ELSE NameBase * (s - 1) + (u - 1)
    <2>1. CASE i < NameBase
        <3>1. Name(i) = NameOf(i + 1, 0)
            BY <2>1 DEF Name
        <3>2. i + 1 \in Nat \ {0} /\ 0 \in 0..NameBase /\ i = (i + 1) - 1
            BY <1>1
        <3> QED BY <3>1, <3>2
    <2>2. CASE ~(i < NameBase)
        <3> DEFINE s == (i \div NameBase) + 1
                   u == (i % NameBase) + 1
        <3>1. Name(i) = NameOf(s, u)
            BY <2>2 DEF Name
        <3>2. i \div NameBase \in Nat /\ i % NameBase \in 0..(NameBase - 1)
              /\ i = NameBase * (i \div NameBase) + (i % NameBase)
            BY <1>1, <1>3
        <3>3. s \in Nat \ {0} /\ u \in 0..NameBase /\ u # 0 /\ s - 1 = i \div NameBase /\ u - 1 = i % NameBase
            BY <1>1, <3>2
        <3>4. i = NameBase * (s - 1) + (u - 1)
            BY <3>2, <3>3
        <3> HIDE DEF s, u
        <3> QED BY <3>1, <3>3, <3>4
    <2> QED BY <2>1, <2>2
<1>5. ASSUME NEW i \in 0..MaxItems PROVE Name(i) \in Nat \ {0}
    <2>1. PICK s \in Nat \ {0}, u \in 0..NameBase : Name(i) = NameOf(s, u)
        BY <1>4
    <2>2. s * base \in Nat /\ s * base # 0
        BY <1>1
    <2> QED BY <1>1, <2>1, <2>2 DEF NameOf
<1>6. ASSUME NEW i \in 0..MaxItems, NEW j \in 0..MaxItems, Name(i) = Name(j) PROVE i = j
    <2>1. PICK s \in Nat \ {0}, u \in 0..NameBase :
              /\ Name(i) = NameOf(s, u)
              /\ i = IF u = 0 THEN s - 1 ELSE NameBase * (s - 1) + (u - 1)
        BY <1>4
    <2>2. PICK t \in Nat \ {0}, v \in 0..NameBase :
              /\ Name(j) = NameOf(t, v)
              /\ j = IF v = 0 THEN t - 1 ELSE NameBase * (t - 1) + (v - 1)
        BY <1>4
    <2>3. s = t /\ u = v
        <3>1. NameOf(s, u) = NameOf(t, v) /\ s \in Nat /\ t \in Nat
            BY <1>6, <2>1, <2>2
        <3> QED BY <1>2, <3>1
    <2>4. CASE u = 0
        <3>1. i = s - 1 /\ j = t - 1
            BY <2>1, <2>2, <2>3, <2>4
        <3> QED BY <2>3, <3>1
    <2>5. CASE u # 0
        <3>1. i = NameBase * (s - 1) + (u - 1) /\ j = NameBase * (t - 1) + (v - 1)
            BY <2>1, <2>2, <2>3, <2>5
        <3>2. NameBase * (s - 1) + (u - 1) = NameBase * (t - 1) + (v - 1)
            BY <2>3
        <3> QED BY <3>1, <3>2
    <2> QED BY <2>4, <2>5
<1> QED BY <1>5, <1>6

(* The files of a folder are listed, each once.                            *)
LEMMA FilesAreListed ==
    StoreByKind /\ kind = "folder" =>
        /\ Cardinality(Names) \in Nat /\ Cardinality(Names) = Cardinality(DOMAIN store)
        /\ \A pos \in 1..Cardinality(Names) : FilePath(pos) \in DOMAIN store
        /\ \A i \in DOMAIN store : \E pos \in 1..Cardinality(Names) : FilePath(pos) = i
<1> SUFFICES ASSUME StoreByKind, kind = "folder"
             PROVE  /\ Cardinality(Names) \in Nat /\ Cardinality(Names) = Cardinality(DOMAIN store)
                    /\ \A pos \in 1..Cardinality(Names) : FilePath(pos) \in DOMAIN store
                    /\ \A i \in DOMAIN store : \E pos \in 1..Cardinality(Names) : FilePath(pos) = i
    OBVIOUS
<1>1. DOMAIN store \subseteq 0..MaxItems /\ MaxItems \in Nat
    BY BuildAssumption DEF StoreByKind
<1>2. \A i \in DOMAIN store : Name(i) \in Nat \ {0} /\ Name(i) \in Names
    BY <1>1, NameFacts DEF Names
<1>3. \A name \in Names : \E i \in DOMAIN store : Name(i) = name
    BY DEF Names
<1>4. PICK b \in Nat : Names \subseteq 1..b
    <2> DEFINE f == [n \in 1..MaxItems + 1 |-> Name(n - 1)]
    <2>1. MaxItems + 1 \in Nat \ {0} /\ \A n \in 1..MaxItems + 1 : n - 1 \in 0..MaxItems
        BY <1>1
    <2>2. f \in [1..MaxItems + 1 -> Nat]
        BY <2>1, NameFacts
    <2>3. PICK m \in 1..MaxItems + 1 : \A n \in 1..MaxItems + 1 : f[n] <= f[m]
        <3> HIDE DEF f
        <3> QED BY <2>1, <2>2, Greatest
    <2>4. ASSUME NEW i \in DOMAIN store PROVE Name(i) \in 1..f[m]
        <3>1. i + 1 \in 1..MaxItems + 1 /\ (i + 1) - 1 = i
            BY <1>1
        <3>2. f[i + 1] = Name(i) /\ f[i + 1] <= f[m] /\ f[m] \in Nat
            BY <2>2, <2>3, <3>1
        <3> QED BY <1>2, <3>2
    <2>5. f[m] \in Nat
        BY <2>2
    <2> HIDE DEF f
    <2> QED BY <1>3, <2>4, <2>5
<1>5. PICK k \in Nat : \E s : Enumerates(s, k, Names)
    BY <1>4, EnumerationExists
<1>6. PICK s : Enumerates(s, k, Names)
    BY <1>5
<1>7. Names \in SUBSET Nat
    BY <1>4
<1>8. Cardinality(Names) = k
    BY <1>6, <1>7, EnumeratedCardinality
<1>9. Cardinality(Names) = Cardinality(DOMAIN store)
    <2> DEFINE g == [i \in DOMAIN store |-> Name(i)]
    <2>1. g \in [DOMAIN store -> Names]
        BY <1>2
    <2>2. \A i, j \in DOMAIN store : g[i] = g[j] => i = j
        BY <1>1, NameFacts
    <2>3. \A name \in Names : \E i \in DOMAIN store : g[i] = name
        BY <1>3
    <2>4. g \in Bijection(DOMAIN store, Names)
        <3> HIDE DEF g
        <3> QED BY <2>1, <2>2, <2>3 DEF Bijection, Injection, Surjection, IsInjective
    <2>5. ExistsBijection(DOMAIN store, Names)
        BY <2>4 DEF ExistsBijection
    <2>6. IsFiniteSet(0..MaxItems)
        BY <1>1, FS_Interval
    <2>7. IsFiniteSet(DOMAIN store)
        BY <1>1, <2>6, FS_Subset
    <2> QED BY <2>5, <2>7, FS_Bijection
<1>10. ASSUME NEW pos \in 1..k
       PROVE  FilePath(pos) \in DOMAIN store /\ Cardinality(Below(Names, Name(FilePath(pos)))) = pos - 1
    <2>1. s[pos] \in Names
        BY <1>6 DEF Enumerates
    <2>2. PICK i \in DOMAIN store : Name(i) = s[pos]
        BY <1>3, <2>1
    <2>3. Cardinality(Below(Names, Name(i))) = pos - 1
        BY <1>6, <1>7, <2>2, EnumeratedRank
    <2>4. FilePath(pos) = CHOOSE j \in DOMAIN store : Cardinality(Below(Names, Name(j))) = pos - 1
        BY DEF FilePath, Below
    <2> QED BY <2>3, <2>4
<1>11. ASSUME NEW i \in DOMAIN store PROVE \E pos \in 1..k : FilePath(pos) = i
    <2>1. PICK pos \in 1..k : s[pos] = Name(i)
        BY <1>2, <1>6 DEF Enumerates
    <2>2. Name(FilePath(pos)) = s[pos]
        <3>1. PICK name \in Names : name = Name(FilePath(pos))
            BY <1>2, <1>10
        <3>2. Cardinality(Below(Names, name)) = pos - 1
            BY <1>10, <3>1
        <3>3. name = s[pos]
            BY <1>6, <1>7, <3>2, EnumeratedUnique
        <3> QED BY <3>1, <3>3
    <2>3. FilePath(pos) = i
        BY <1>1, <1>10, <2>1, <2>2, NameFacts
    <2> QED BY <2>3
<1> QED BY <1>8, <1>9, <1>10, <1>11

(* A shape with its batch in front.                                        *)
LEMMA ShapeFacts ==
    /\ \A s \in Seq(Nat) \ {<<>>} : s[1] \in Nat /\ Tail(s) \in Seq(Nat)
    /\ \A n \in Nat, q \in Seq(Nat) :
          /\ <<n>> \o q \in Seq(Nat) \ {<<>>}
          /\ (<<n>> \o q)[1] = n
          /\ Tail(<<n>> \o q) = q
<1>1. ASSUME NEW s \in Seq(Nat) \ {<<>>} PROVE s[1] \in Nat /\ Tail(s) \in Seq(Nat)
    OBVIOUS
<1>2. ASSUME NEW n \in Nat, NEW q \in Seq(Nat)
      PROVE  /\ <<n>> \o q \in Seq(Nat) \ {<<>>}
             /\ (<<n>> \o q)[1] = n
             /\ Tail(<<n>> \o q) = q
    <2> DEFINE s == <<n>> \o q
    <2>1. s \in Seq(Nat) /\ Len(s) = 1 + Len(q) /\ s[1] = n
        OBVIOUS
    <2>2. \A i \in 1..Len(q) : s[i + 1] = q[i]
        OBVIOUS
    <2> HIDE DEF s
    <2>3. s # <<>>
        BY <2>1
    <2>4. Tail(s) \in Seq(Nat) /\ Len(Tail(s)) = Len(q) /\ \A i \in 1..Len(q) : Tail(s)[i] = q[i]
        BY <2>1, <2>2, <2>3
    <2>5. Tail(s) = q
        BY <2>4, SeqEqual
    <2> QED BY <2>1, <2>3, <2>5 DEF s
<1> QED BY <1>1, <1>2

(* While there are fewer files than indices, the first index without one   *)
(* is free.                                                                *)
LEMMA FreeIndexIsFree ==
    ASSUME DOMAIN store \subseteq 0..MaxItems, Cardinality(DOMAIN store) < MaxItems
    PROVE  FreeIndex \in 0..MaxItems /\ FreeIndex \notin DOMAIN store
<1> DEFINE free == {i \in 0..MaxItems : i \notin DOMAIN store}
<1>1. MaxItems \in Nat
    BY BuildAssumption
<1>2. IsFiniteSet(0..MaxItems) /\ Cardinality(0..MaxItems) = MaxItems + 1
    BY <1>1, FS_Interval
<1>3. free # {}
    <2>1. SUFFICES ASSUME free = {} PROVE FALSE
        OBVIOUS
    <2>2. DOMAIN store = 0..MaxItems
        BY <2>1
    <2> QED BY <1>1, <1>2, <2>2
<1>4. PICK i \in free : \A j \in free : i <= j
    <2>1. free \in SUBSET Nat
        BY <1>1
    <2> HIDE DEF free
    <2> QED BY <1>3, <2>1, LeastNat
<1>5. \A j \in 0..(i - 1) : j \in DOMAIN store
    BY <1>1, <1>4
<1> QED BY <1>1, <1>4, <1>5 DEF FreeIndex

(* What an insertion makes of each kind of store.                          *)
LEMMA ListInserts ==
    ASSUME kind = "list", store \in Seq(Calls), NEW item \in Calls
    PROVE  Inserted(item) = Append(store, item) /\ Inserted(item) \in Seq(Calls)
BY DEF Inserted

LEMMA FolderInserts ==
    ASSUME kind = "folder", StoreByKind, NEW item \in Calls,
           Cardinality(DOMAIN store) < MaxItems
    PROVE  /\ DOMAIN Inserted(item) \subseteq 0..MaxItems
           /\ \A i \in DOMAIN Inserted(item) : Inserted(item)[i] \in Calls
           /\ \A i \in DOMAIN store : i \in DOMAIN Inserted(item) /\ Inserted(item)[i] = store[i]
<1>0. DOMAIN store \subseteq 0..MaxItems /\ \A i \in DOMAIN store : store[i] \in Calls
    BY DEF StoreByKind
<1>1. FreeIndex \in 0..MaxItems /\ FreeIndex \notin DOMAIN store
    BY <1>0, FreeIndexIsFree
<1>2. Inserted(item) = [i \in DOMAIN store \cup {FreeIndex} |->
                                 IF i = FreeIndex THEN item ELSE store[i]]
    BY DEF Inserted
<1> QED BY <1>0, <1>1, <1>2

(* The rows of a batch grow, and stay what they were.                      *)
LEMMA BatchInserts ==
    ASSUME kind = "batch", store \in Calls, NEW item \in Calls,
           CanInsert(item), store # <<>>
    PROVE  /\ Inserted(item) \in Calls
           /\ store[1][1] \in Nat /\ Inserted(item)[1][1] \in Nat
           /\ store[1][1] <= Inserted(item)[1][1]
           /\ Tail(Inserted(item)[1]) = Tail(store[1])
<1> DEFINE grown == [j \in DOMAIN store |-> <<store[j][1] + item[j][1]>> \o Tail(item[j])]
<1>1. Inserted(item) = grown
    BY DEF Inserted, Rest
<1>2. DOMAIN store = 1..Arity /\ 1 \in DOMAIN store
    BY BuildAssumption DEF Calls
<1>3. \A j \in DOMAIN store :
          /\ store[j] \in Seq(Nat) \ {<<>>} /\ item[j] \in Seq(Nat) \ {<<>>}
          /\ Tail(store[j]) = Tail(item[j])
    BY <1>2 DEF Calls, CanInsert, Rest
<1>4. \A j \in DOMAIN store :
          /\ store[j][1] \in Nat /\ item[j][1] \in Nat
          /\ Tail(item[j]) \in Seq(Nat)
    BY <1>3, ShapeFacts
<1>5. ASSUME NEW j \in DOMAIN store
      PROVE  /\ grown[j] \in Seq(Nat) \ {<<>>}
             /\ grown[j][1] = store[j][1] + item[j][1]
             /\ Tail(grown[j]) = Tail(store[j])
    <2>1. store[j][1] + item[j][1] \in Nat
        BY <1>4
    <2>2. grown[j] = <<store[j][1] + item[j][1]>> \o Tail(item[j])
        OBVIOUS
    <2> QED BY <1>3, <1>4, <2>1, <2>2, ShapeFacts
<1>6. DOMAIN grown = 1..Arity
    BY <1>2
<1> HIDE DEF grown
<1>7. grown \in Calls
    <2>1. grown = [j \in 1..Arity |-> grown[j]]
        BY <1>6 DEF grown
    <2> QED BY <1>2, <1>5, <2>1 DEF Calls
<1> QED BY <1>1, <1>2, <1>4, <1>5, <1>7, SMTT(30)

(* The rows of a batch look like items.                                    *)
LEMMA RowFacts ==
    ASSUME kind = "batch", store \in Calls, NEW idx \in Nat
    PROVE  /\ Row(idx) \in Calls
           /\ \A j \in 1..Arity : Row(idx)[j] = <<IF idx <= store[j][1] THEN 1 ELSE 0>> \o Tail(store[j])
<1>1. DOMAIN store = 1..Arity /\ \A j \in 1..Arity : store[j] \in Seq(Nat) \ {<<>>}
    BY DEF Calls
<1>2. ASSUME NEW j \in 1..Arity
      PROVE  <<IF idx <= store[j][1] THEN 1 ELSE 0>> \o Tail(store[j]) \in Seq(Nat) \ {<<>>}
    <2>1. (IF idx <= store[j][1] THEN 1 ELSE 0) \in Nat /\ Tail(store[j]) \in Seq(Nat)
        BY <1>1, ShapeFacts
    <2> QED BY <2>1, ShapeFacts
<1> QED BY <1>1, <1>2 DEF Row, Rest, Calls

(* The items of every dataset are examples.                                *)
LEMMA ItemsAreCalls == StoreByKind => Items \in Seq(Calls)
<1> SUFFICES ASSUME StoreByKind PROVE Items \in Seq(Calls)
    OBVIOUS
<1>1. CASE kind = "list"
    BY <1>1 DEF StoreByKind, Items
<1>2. CASE kind = "batch"
    <2>1. CASE store = <<>>
        BY <1>2, <2>1 DEF Items
    <2>2. CASE store # <<>>
        <3>1. store \in Calls /\ Items = [idx \in 1..store[1][1] |-> Row(idx)]
            BY <1>2, <2>2 DEF StoreByKind, Items
        <3>2. store[1] \in Seq(Nat) \ {<<>>}
            BY <3>1, BuildAssumption DEF Calls
        <3>3. store[1][1] \in Nat
            BY <3>2, ShapeFacts
        <3>4. \A idx \in 1..store[1][1] : Row(idx) \in Calls
            BY <1>2, <3>1, RowFacts
        <3> QED BY <3>1, <3>3, <3>4
    <2> QED BY <2>1, <2>2
<1>3. CASE kind = "folder"
    <2>1. Items = [idx \in 1..Cardinality(Names) |-> store[FilePath(idx)]]
        BY <1>3 DEF Items
    <2>2. \A idx \in 1..Cardinality(Names) : store[FilePath(idx)] \in Calls
        BY <1>3, FilesAreListed DEF StoreByKind
    <2> QED BY <1>3, <2>1, <2>2, FilesAreListed
<1> QED BY <1>1, <1>2, <1>3 DEF StoreByKind

(* What the items keep in a step (RecordingKeepsItems).                    *)
Kept ==
    CASE kind = "folder" -> \A i \in DOMAIN store : store'[i] = store[i]
      [] kind = "list"   -> IsPrefix(Items, Items')
      [] kind = "batch"  -> \A i \in DOMAIN Items : Items'[i][1] = Items[i][1]

LEMMA SameStore ==
    ASSUME StoreByKind, UNCHANGED <<kind, store>>
    PROVE  StoreByKind' /\ Kept
<1>1. StoreByKind'
    BY DEF StoreByKind
<1>2. Items' = Items
    BY DEF Items, Row, FilePath
<1>3. kind = "list" => IsPrefix(Items, Items)
    BY DEF IsPrefix, Items
<1> QED BY <1>1, <1>2, <1>3 DEF Kept, StoreByKind

(* The recorder's callback keeps every item there is.                      *)
LEMMA CallbackKeeps ==
    ASSUME StoreByKind, NEW item \in Calls, Len(Items) < MaxItems, Callback(item), UNCHANGED kind
    PROVE  StoreByKind' /\ Kept
<1>1. CASE store' = store
    BY <1>1, SameStore
<1>2. CASE store' # store
    <2>1. store' = Inserted(item) /\ CanInsert(item)
        BY <1>2 DEF Callback
    <2>2. CASE kind = "list"
        <3>1. store \in Seq(Calls) /\ store' = Append(store, item) /\ store' \in Seq(Calls)
            BY <2>1, <2>2, ListInserts DEF StoreByKind
        <3>2. Items = store /\ Items' = store'
            BY <2>2 DEF Items
        <3>3. IsPrefix(store, store')
            BY <3>1 DEF IsPrefix
        <3> QED BY <2>2, <3>1, <3>2, <3>3 DEF Kept, StoreByKind
    <2>3. CASE kind = "folder"
        <3>1. Items = [idx \in 1..Cardinality(Names) |-> store[FilePath(idx)]] /\ Cardinality(Names) \in Nat
            BY <2>3, FilesAreListed DEF Items
        <3>2. Cardinality(DOMAIN store) < MaxItems
            BY <2>3, <3>1, FilesAreListed
        <3>3. /\ DOMAIN store' \subseteq 0..MaxItems
              /\ \A i \in DOMAIN store' : store'[i] \in Calls
              /\ \A i \in DOMAIN store : store'[i] = store[i]
            BY <2>1, <2>3, <3>2, FolderInserts
        <3>4. Calls' = Calls
            BY DEF Calls, Arity
        <3>5. StoreByKind'
            BY <2>3, <3>3, <3>4 DEF StoreByKind
        <3> QED BY <2>3, <3>3, <3>5 DEF Kept
    <2>4. CASE kind = "batch" /\ store = <<>>
        <3>1. store' = item
            BY <2>1, <2>4 DEF Inserted
        <3>2. Items = <<>>
            BY <2>4 DEF Items
        <3> QED BY <2>4, <3>1, <3>2 DEF Kept, StoreByKind
    <2>5. CASE kind = "batch" /\ store # <<>>
        <3>1. store \in Calls /\ item \in Calls
            BY <2>5 DEF StoreByKind
        <3>2. /\ store' \in Calls
              /\ store[1][1] \in Nat /\ store'[1][1] \in Nat
              /\ store[1][1] <= store'[1][1]
              /\ Tail(store'[1]) = Tail(store[1])
            BY <2>1, <2>5, <3>1, BatchInserts
        <3>3. 1 \in DOMAIN store /\ 1 \in DOMAIN store'
            BY <3>1, <3>2, BuildAssumption DEF Calls
        <3>4. store' # <<>>
            BY <3>3
        <3>5. /\ Items = [idx \in 1..store[1][1] |-> Row(idx)]
              /\ Items' = [idx \in 1..store'[1][1] |-> Row(idx)']
            BY <2>5, <3>4 DEF Items
        <3>6. ASSUME NEW i \in 1..store[1][1]
              PROVE  Items'[i][1] = Items[i][1]
            <4>1. i \in 1..store'[1][1] /\ i <= store[1][1] /\ i <= store'[1][1]
                BY <3>2
            <4>2. Row(i)[1] = <<1>> \o Tail(store[1])
                BY <3>3, <4>1 DEF Row, Rest
            <4>3. Row(i)'[1] = <<1>> \o Tail(store'[1])
                BY <3>3, <4>1 DEF Row, Rest
            <4> QED BY <3>2, <3>5, <4>1, <4>2, <4>3
        <3> QED BY <2>5, <3>2, <3>5, <3>6 DEF Kept, StoreByKind
    <2> QED BY <2>2, <2>3, <2>4, <2>5 DEF StoreByKind
<1> QED BY <1>1, <1>2

(* Every step keeps the invariant, and only deleting a file loses an item. *)
LEMMA RecordingStep ==
    ASSUME StoreInv, [BuildNext]_engineVars
    PROVE  StoreInv' /\ ((\A i \in DOMAIN store : ~RemoveFile(i)) => Kept)
<1>1. StoreByKind /\ (stage \in {"traced", "profiled"} => inputs \in Calls)
    BY DEF StoreInv
<1>2. CASE stage = "idle" /\ DatasetNext /\ UNCHANGED buildVars
    <2>1. stage' = "idle"
        BY <1>2 DEF buildVars
    <2>2. CASE EnterRecorder \/ ExitRecorder
        BY <1>1, <2>1, <2>2, SameStore DEF EnterRecorder, ExitRecorder, StoreInv
    <2>3. ASSUME NEW item \in Inputs, ModuleCall(item) PROVE StoreByKind' /\ Kept
        <3>1. item \in Calls
            BY BuildAssumption
        <3> QED BY <1>1, <2>3, <3>1, CallbackKeeps DEF ModuleCall
    <2>4. ASSUME NEW i \in DOMAIN store, RemoveFile(i) PROVE StoreByKind'
        BY <1>1, <2>4 DEF RemoveFile, StoreByKind
    <2> QED BY <1>2, <2>1, <2>2, <2>3, <2>4 DEF DatasetNext, StoreInv
<1>3. ASSUME NEW batch \in MaxBatchSizes, NEW dev \in DefaultDevices, Start(batch, dev)
      PROVE  StoreInv' /\ Kept
    <2>1. CASE Items = <<>>
        BY <1>1, <1>3, <2>1, SameStore DEF Start, StoreInv
    <2>2. CASE Items # <<>>
        <3>1. /\ inputs' = Items[1] /\ Len(Items) < MaxItems
              /\ Callback(Items[1]) /\ UNCHANGED kind
            BY <1>3, <2>2 DEF Start
        <3>2. Items[1] \in Calls
            BY <1>1, <2>2, ItemsAreCalls
        <3>3. StoreByKind' /\ Kept
            BY <1>1, <3>1, <3>2, CallbackKeeps
        <3>4. inputs' \in Calls'
            BY <3>1, <3>2 DEF Calls, Arity
        <3> QED BY <3>3, <3>4 DEF StoreInv
    <2> QED BY <2>1, <2>2
<1>4. CASE Profile
    <2>1. UNCHANGED <<kind, store, inputs>> /\ stage = "traced"
        BY <1>4 DEF Profile
    <2> QED BY <1>1, <2>1, SameStore DEF StoreInv, Calls, Arity
<1>5. CASE Convert
    <2>1. /\ stage = "profiled" /\ stage' = "calibrating"
          /\ Len(Items) < MaxItems /\ Callback(inputs) /\ UNCHANGED kind
        BY <1>5 DEF Convert
    <2>2. StoreByKind' /\ Kept
        BY <1>1, <2>1, CallbackKeeps
    <2> QED BY <2>1, <2>2 DEF StoreInv
<1>6. CASE GetBatch
    <2>1. UNCHANGED <<kind, store>> /\ stage' \notin {"traced", "profiled"}
        BY <1>6 DEF GetBatch
    <2> QED BY <1>1, <2>1, SameStore DEF StoreInv
<1>7. CASE UNCHANGED engineVars
    <2>1. UNCHANGED <<kind, store, inputs, stage>>
        BY <1>7 DEF engineVars, datasetVars, buildVars
    <2> QED BY <1>1, <2>1, SameStore DEF StoreInv, Calls, Arity
<1> QED BY <1>2, <1>3, <1>4, <1>5, <1>6, <1>7 DEF BuildNext

(* RecordingKeepsItems of Dataset, DatasetRecorder and torch2trt: whatever *)
(* a recorder inserts, before the conversion or while it runs the module,  *)
(* no item is overwritten in a list, a batch or a folder from which files  *)
(* are deleted meanwhile.                                                  *)
THEOREM ItemsAreKept == BuildSpec => RecordingKeepsItems
<1>1. BuildInit => StoreInv
    <2> SUFFICES ASSUME BuildInit PROVE StoreInv
        OBVIOUS
    <2>1. store = <<>> /\ kind \in {"list", "batch", "folder"} /\ stage = "idle"
        BY DEF BuildInit, DatasetInit
    <2>2. <<>> \in Seq(Calls) /\ DOMAIN <<>> = {}
        OBVIOUS
    <2> QED BY <2>1, <2>2 DEF StoreInv, StoreByKind
<1>2. StoreInv /\ [BuildNext]_engineVars => StoreInv'
    BY RecordingStep
<1>3. StoreInv /\ [BuildNext]_engineVars =>
          [(\A i \in DOMAIN store : ~RemoveFile(i)) =>
               CASE kind = "folder" -> \A i \in DOMAIN store : store'[i] = store[i]
                 [] kind = "list"   -> IsPrefix(Items, Items')
                 [] kind = "batch"  -> \A i \in DOMAIN Items : Items'[i][1] = Items[i][1]]_engineVars
    BY RecordingStep DEF Kept
<1> QED BY <1>1, <1>2, <1>3, PTL DEF BuildSpec, RecordingKeepsItems
-------------------------------------------------------------------------------
(* The profile spans the items it is from: on every axis but a legacy      *)
(* batch its ends are sizes of items, with those of all items between.     *)
AxisSpan(j, a) ==
    IF a = 1 /\ maxBatch # 0 THEN profile.min[j][a] = 1 /\ profile.max[j][a] = maxBatch
    ELSE /\ \A i \in DOMAIN profile.from :
                profile.min[j][a] <= profile.from[i][j][a] /\ profile.from[i][j][a] <= profile.max[j][a]
         /\ \E i \in DOMAIN profile.from : profile.from[i][j][a] = profile.min[j][a]
         /\ \E i \in DOMAIN profile.from : profile.from[i][j][a] = profile.max[j][a]

ProfileSpans ==
    /\ profile.from \in Seq(Calls) /\ DOMAIN profile.min = 1..Arity
    /\ \E i \in DOMAIN profile.from : profile.from[i] = inputs
    /\ \E i \in DOMAIN profile.from : profile.from[i] = profile.opt
    /\ \A j \in 1..Arity :
          /\ DOMAIN profile.min[j] = DOMAIN inputs[j]
          /\ \A i \in DOMAIN profile.from : DOMAIN profile.from[i][j] = DOMAIN inputs[j]
          /\ \A a \in DOMAIN inputs[j] : AxisSpan(j, a)

(* The network is that of the inputs, but for the axes the profile leaves  *)
(* open.                                                                   *)
NetworkFits ==
    network = [j \in 1..Arity |-> [a \in DOMAIN inputs[j] |->
                  IF profile.min[j][a] # profile.max[j][a] THEN -1 ELSE inputs[j][a]]]

(* The inductive invariant of a build: the inputs it traces with are among *)
(* its examples until the profile is made of them.                         *)
BuildInv ==
    /\ StoreInv
    /\ recording \in BOOLEAN /\ maxBatch \in Nat
    /\ stage \in {"idle", "traced", "profiled", "calibrating", "built", "raised"}
    /\ stage = "traced" => \E i \in DOMAIN Items : Items[i] = inputs
    /\ Profiled => ProfileSpans
    /\ IF stage \in {"calibrating", "built"} THEN NetworkFits /\ count \in 0..Len(Items)
       ELSE network = None /\ count = 0
    /\ stage = "built" => count = Len(Items)

(* What is recorded of the first run of the module leaves its inputs among *)
(* the items.                                                              *)
LEMMA FirstItemStays ==
    ASSUME StoreByKind, StoreByKind', Items # <<>>, Callback(Items[1]), UNCHANGED kind
    PROVE  \E i \in DOMAIN Items' : Items'[i] = Items[1]
<1>1. Items \in Seq(Calls) /\ Items' \in Seq(Calls)
    <2>1. (StoreByKind => Items \in Seq(Calls))'
        BY ItemsAreCalls, PTL
    <2>2. Calls' = Calls
        BY DEF Calls, Arity
    <2> QED BY <2>1, <2>2, ItemsAreCalls
<1>2. 1 \in DOMAIN Items /\ Items[1] \in Calls
    BY <1>1
<1>3. CASE store' = store
    <2>1. Items' = Items
        BY <1>3 DEF Items, Row, FilePath, Names
    <2> QED BY <1>2, <2>1
<1>4. CASE store' # store
    <2>1. store' = Inserted(Items[1]) /\ CanInsert(Items[1])
        BY <1>4 DEF Callback
    <2>2. CASE kind = "list"
        <3>1. Items = store /\ Items' = store' /\ store' = Append(store, Items[1])
            BY <2>1, <2>2 DEF Items, Inserted
        <3>2. 1 \in DOMAIN Items' /\ Items'[1] = Items[1]
            BY <1>1, <1>2, <3>1
        <3> QED BY <3>2
    <2>3. CASE kind = "folder"
        <3>1. Items = [idx \in 1..Cardinality(Names) |-> store[FilePath(idx)]]
            BY <2>3 DEF Items
        <3>2. PICK f \in DOMAIN store : Items[1] = store[f]
            BY <1>2, <2>3, <3>1, FilesAreListed
        <3>3. f \in DOMAIN store' /\ store'[f] = store[f]
            <4>1. f # FreeIndex \/ store[f] = Items[1]
                BY <3>2
            <4> QED BY <2>1, <2>3, <3>2, <4>1 DEF Inserted
        <3>4. (StoreByKind /\ kind = "folder" =>
                  /\ Cardinality(Names) \in Nat /\ Cardinality(Names) = Cardinality(DOMAIN store)
                  /\ \A pos \in 1..Cardinality(Names) : FilePath(pos) \in DOMAIN store
                  /\ \A i \in DOMAIN store : \E pos \in 1..Cardinality(Names) : FilePath(pos) = i)'
            BY FilesAreListed, PTL
        <3>5. Items' = [idx \in 1..Cardinality(Names') |-> store'[FilePath(idx)']]
            BY <2>3 DEF Items
        <3>6. PICK pos \in 1..Cardinality(Names') : FilePath(pos)' = f
            BY <2>3, <3>3, <3>4
        <3> QED BY <3>2, <3>3, <3>5, <3>6
    <2>4. CASE kind = "batch"
        <3>1. store # <<>> /\ store \in Calls
            BY <2>4 DEF StoreByKind, Items
        <3>2. Items = [idx \in 1..store[1][1] |-> Row(idx)]
            BY <2>4, <3>1 DEF Items
        <3>3. Items[1] = Row(1)
            BY <1>2, <3>2
        <3>4. store' \in Calls /\ store' # <<>> /\ store'[1][1] \in Nat /\ store[1][1] \in Nat /\ store[1][1] <= store'[1][1]
            <4>1. store' \in Calls /\ store'[1][1] \in Nat /\ store[1][1] \in Nat /\ store[1][1] <= store'[1][1]
                BY <1>2, <2>1, <2>4, <3>1, BatchInserts
            <4>2. 1 \in DOMAIN store'
                BY <4>1, BuildAssumption DEF Calls
            <4> QED BY <4>1, <4>2
        <3>5. Items' = [idx \in 1..store'[1][1] |-> Row(idx)']
            BY <2>4, <3>4 DEF Items
        <3>6. 1 \in DOMAIN Items' /\ Items'[1] = Row(1)'
            <4>1. 1 \in 1..store[1][1]
                BY <1>2, <3>2
            <4>2. 1 \in 1..store'[1][1]
                BY <3>4, <4>1
            <4> QED BY <3>5, <4>2
        <3>7. DOMAIN store = 1..Arity /\ DOMAIN store' = 1..Arity
            BY <3>1, <3>4 DEF Calls
        <3>8. ASSUME NEW j \in 1..Arity
              PROVE  <<IF 1 <= store'[j][1] THEN 1 ELSE 0>> \o Tail(store'[j])
                         = <<IF 1 <= store[j][1] THEN 1 ELSE 0>> \o Tail(store[j])
            <4> DEFINE b == IF 1 <= store[j][1] THEN 1 ELSE 0
            <4>1. store[j] \in Seq(Nat) \ {<<>>}
                BY <3>1 DEF Calls
            <4>2. store[j][1] \in Nat /\ Tail(store[j]) \in Seq(Nat) /\ b \in Nat
                BY <4>1, ShapeFacts
            <4>3. Items[1][j] = <<b>> \o Tail(store[j])
                BY <2>4, <3>1, <3>3, RowFacts
            <4> HIDE DEF b
            <4>4. Items[1][j][1] = b /\ Tail(Items[1][j]) = Tail(store[j])
                <5>1. (<<b>> \o Tail(store[j]))[1] = b /\ Tail(<<b>> \o Tail(store[j])) = Tail(store[j])
                    BY <4>2, ShapeFacts
                <5> QED BY <4>3, <5>1
            <4>5. store'[j] = <<store[j][1] + Items[1][j][1]>> \o Tail(Items[1][j])
                BY <2>1, <2>4, <3>1, <3>7 DEF Inserted, Rest
            <4>6. PICK m \in Nat : m = store[j][1] + b
                BY <4>2
            <4>7. store'[j][1] = store[j][1] + b /\ Tail(store'[j]) = Tail(store[j])
                <5>1. (<<m>> \o Tail(store[j]))[1] = m /\ Tail(<<m>> \o Tail(store[j])) = Tail(store[j])
                    BY <4>2, <4>6, ShapeFacts
                <5>2. store'[j] = <<m>> \o Tail(store[j])
                    BY <4>4, <4>5, <4>6
                <5> QED BY <4>6, <5>1, <5>2
            <4>8. 1 <= store'[j][1] <=> 1 <= store[j][1]
                BY <4>2, <4>7 DEF b
            <4> QED BY <4>7, <4>8
        <3>9. Row(1)' = Row(1)
            BY <3>7, <3>8 DEF Row, Rest
        <3> QED BY <3>3, <3>6, <3>9
    <2> QED BY <2>2, <2>3, <2>4 DEF StoreByKind
<1> QED BY <1>3, <1>4

(* The least and the greatest of the sizes of an axis.                     *)
LEMMA SizeBounds ==
    ASSUME StoreByKind, Items # <<>>, ~Ragged, NEW j \in 1..Arity, NEW a \in AxesOf(j)
    PROVE  /\ \A i \in DOMAIN Items : Min(SizesOf(j, a)) <= Items[i][j][a] /\ Items[i][j][a] <= Max(SizesOf(j, a))
           /\ \E i \in DOMAIN Items : Items[i][j][a] = Min(SizesOf(j, a))
           /\ \E i \in DOMAIN Items : Items[i][j][a] = Max(SizesOf(j, a))
           /\ Min(SizesOf(j, a)) \in Nat /\ Max(SizesOf(j, a)) \in Nat
<1> DEFINE n == Len(Items)
           f == [i \in 1..n |-> Items[i][j][a]]
           V == SizesOf(j, a)
<1>1. Items \in Seq(Calls) /\ n \in Nat \ {0} /\ DOMAIN Items = 1..n
    <2>1. Items \in Seq(Calls)
        BY ItemsAreCalls
    <2> QED BY <2>1
<1>2. NumInputs = Arity
    <2>1. Items[1] \in Calls /\ Arity \in Nat
        BY <1>1, BuildAssumption
    <2> QED BY <2>1 DEF NumInputs, Calls
<1>3. \A i \in 1..n : Items[i][j][a] \in Nat
    <2> SUFFICES ASSUME NEW i \in 1..n PROVE Items[i][j][a] \in Nat
        OBVIOUS
    <2>1. Items[i] \in Calls
        BY <1>1
    <2>2. Items[i][j] \in Seq(Nat)
        BY <2>1 DEF Calls
    <2>3. DOMAIN Items[i][j] = AxesOf(j)
        BY <1>1, <1>2 DEF Ragged
    <2>4. a \in DOMAIN Items[i][j]
        BY <2>3
    <2> QED BY <2>2, <2>4
<1>4. f \in [1..n -> Nat]
    BY <1>3
<1>5. \A v : v \in V <=> \E i \in 1..n : f[i] = v
    BY <1>1 DEF SizesOf
<1>6. \A i \in DOMAIN Items : f[i] = Items[i][j][a] /\ f[i] \in V
    BY <1>1, <1>5
<1> HIDE DEF f, V, n
<1>7. PICK m \in 1..n : \A i \in 1..n : f[i] <= f[m]
    BY <1>1, <1>4, Greatest
<1>8. V \in SUBSET Nat /\ V # {}
    BY <1>1, <1>4, <1>5, <1>6
<1>9. PICK l \in V : \A v \in V : l <= v
    BY <1>8, LeastNat
<1>10. Min(V) \in V /\ \A v \in V : Min(V) <= v
    BY <1>9 DEF Min
<1>11. Max(V) \in V /\ \A v \in V : v <= Max(V)
    <2>1. f[m] \in V /\ \A v \in V : f[m] >= v
        BY <1>4, <1>5, <1>7
    <2>2. Max(V) \in V /\ \A v \in V : Max(V) >= v
        BY <2>1 DEF Max
    <2> QED BY <1>8, <2>2
<1>12. \A v \in V : \E i \in DOMAIN Items : Items[i][j][a] = v
    BY <1>1, <1>5, <1>6
<1>13. V = SizesOf(j, a)
    BY DEF V
<1> QED BY <1>6, <1>8, <1>10, <1>11, <1>12, <1>13
(* The legacy batch takes the place of the first axis.                     *)
LEMMA BatchReplaced ==
    ASSUME NEW n \in Nat, NEW shapes, NEW j \in DOMAIN shapes, shapes[j] \in Seq(Nat) \ {<<>>}
    PROVE  /\ DOMAIN WithBatch(n, shapes) = DOMAIN shapes
           /\ DOMAIN WithBatch(n, shapes)[j] = DOMAIN shapes[j]
           /\ \A a \in DOMAIN shapes[j] :
                  WithBatch(n, shapes)[j][a] = IF a = 1 /\ maxBatch # 0 THEN n ELSE shapes[j][a]
<1>1. CASE maxBatch = 0
    BY <1>1 DEF WithBatch
<1>2. CASE maxBatch # 0
    <2> DEFINE s == shapes[j]
               t == <<n>> \o Tail(s)
    <2>1. s \in Seq(Nat) /\ Len(s) \in Nat \ {0} /\ DOMAIN s = 1..Len(s)
        OBVIOUS
    <2>2. Tail(s) \in Seq(Nat) /\ Len(Tail(s)) = Len(s) - 1 /\ \A i \in 1..Len(s) - 1 : Tail(s)[i] = s[i + 1]
        BY <2>1
    <2>3. t \in Seq(Nat) /\ Len(t) = Len(s) /\ t[1] = n /\ \A i \in 1..Len(s) - 1 : t[i + 1] = s[i + 1]
        BY <2>1, <2>2
    <2>4. WithBatch(n, shapes)[j] = t /\ DOMAIN WithBatch(n, shapes) = DOMAIN shapes
        BY <1>2 DEF WithBatch, Rest
    <2> HIDE DEF t, s
    <2>5. DOMAIN t = DOMAIN s
        BY <2>1, <2>3
    <2>6. ASSUME NEW a \in DOMAIN s PROVE t[a] = IF a = 1 THEN n ELSE s[a]
        <3>1. a # 1 => a - 1 \in 1..Len(s) - 1 /\ (a - 1) + 1 = a
            BY <2>1
        <3> QED BY <2>3, <3>1
    <2> QED BY <1>2, <2>4, <2>5, <2>6 DEF s
<1> QED BY <1>1, <1>2

(* The profile is made of the items there are.                             *)
LEMMA ProfileStep == ASSUME BuildInv, Profile PROVE BuildInv'
<1>1. /\ stage = "traced" /\ UNCHANGED <<kind, recording, store, maxBatch, device, inputs, network, count>>
    BY DEF Profile
<1>2. StoreByKind /\ inputs \in Calls /\ maxBatch \in Nat /\ recording \in BOOLEAN /\ network = None /\ count = 0
    BY <1>1 DEF BuildInv, StoreInv
<1>3. Items \in Seq(Calls) /\ Items' = Items /\ Calls' = Calls
    <2>1. Items \in Seq(Calls)
        BY <1>2, ItemsAreCalls
    <2>2. Items' = Items /\ Calls' = Calls
        BY <1>1 DEF Items, Row, FilePath, Names, Calls, Arity
    <2> QED BY <2>1, <2>2
<1>4. PICK first \in DOMAIN Items : Items[first] = inputs
    BY <1>1 DEF BuildInv
<1>5. StoreByKind' /\ inputs' \in Calls'
    BY <1>1, <1>2, <1>3 DEF StoreByKind
<1>6. CASE Ragged
    <2>1. stage' = "raised"
        BY <1>6 DEF Profile
    <2> QED BY <1>1, <1>2, <1>5, <2>1 DEF BuildInv, StoreInv, Profiled
<1>7. CASE ~Ragged
    <2>1. PICK median \in DOMAIN Items :
              /\ profile' = [min |-> WithBatch(1, MinShapes), opt |-> Items[median],
                             max |-> WithBatch(maxBatch, MaxShapes), from |-> Items]
              /\ stage' \in {"raised", "profiled"}
        BY <1>7 DEF Profile
    <2>2. /\ profile'.min = WithBatch(1, MinShapes) /\ profile'.max = WithBatch(maxBatch, MaxShapes)
          /\ profile'.opt = Items[median] /\ profile'.from = Items
        BY <2>1
    <2>3. Items # <<>> /\ 1 \in DOMAIN Items /\ Items[1] \in Calls
        BY <1>3, <1>4
    <2>4. NumInputs = Arity
        BY <2>3, BuildAssumption DEF NumInputs, Calls
    <2>5. \A i \in DOMAIN Items, j \in 1..Arity : DOMAIN Items[i][j] = AxesOf(j)
        BY <1>7, <2>4 DEF Ragged
    <2>6. ASSUME NEW j \in 1..Arity
          PROVE  /\ AxesOf(j) = DOMAIN inputs[j] /\ DOMAIN profile'.min[j] = DOMAIN inputs[j]
                 /\ \A a \in DOMAIN inputs[j] : AxisSpan(j, a)'
        <3>1. inputs[j] \in Seq(Nat) \ {<<>>} /\ AxesOf(j) = DOMAIN inputs[j]
            BY <1>2, <1>4, <2>5 DEF Calls
        <3>2. PICK n \in Nat \ {0} : AxesOf(j) = 1..n
            BY <3>1
        <3>3. \A a \in 1..n : Min(SizesOf(j, a)) \in Nat /\ Max(SizesOf(j, a)) \in Nat
            BY <1>2, <1>7, <2>3, <3>2, SizeBounds
        <3>4. /\ MinShapes[j] = [a \in 1..n |-> Min(SizesOf(j, a))]
              /\ MaxShapes[j] = [a \in 1..n |-> Max(SizesOf(j, a))]
              /\ j \in DOMAIN MinShapes /\ j \in DOMAIN MaxShapes
            BY <2>4, <3>2 DEF MinShapes, MaxShapes
        <3>5. MinShapes[j] \in Seq(Nat) \ {<<>>} /\ MaxShapes[j] \in Seq(Nat) \ {<<>>}
              /\ DOMAIN MinShapes[j] = 1..n /\ DOMAIN MaxShapes[j] = 1..n
            <4>1. \A g \in [1..n -> Nat] : g \in Seq(Nat) \ {<<>>} /\ DOMAIN g = 1..n
                OBVIOUS
            <4>2. MinShapes[j] \in [1..n -> Nat] /\ MaxShapes[j] \in [1..n -> Nat]
                BY <3>3, <3>4
            <4> QED BY <4>1, <4>2
        <3>6. /\ DOMAIN profile'.min[j] = 1..n
              /\ \A a \in 1..n : profile'.min[j][a] = IF a = 1 /\ maxBatch # 0 THEN 1 ELSE Min(SizesOf(j, a))
            <4>1. 1 \in Nat
                OBVIOUS
            <4>2. \A a \in 1..n : MinShapes[j][a] = Min(SizesOf(j, a))
                BY <3>4
            <4> QED BY <2>2, <3>4, <3>5, <4>1, <4>2, BatchReplaced
        <3>7. \A a \in 1..n : profile'.max[j][a] = IF a = 1 /\ maxBatch # 0 THEN maxBatch ELSE Max(SizesOf(j, a))
            <4>1. \A a \in 1..n : MaxShapes[j][a] = Max(SizesOf(j, a))
                BY <3>4
            <4>2. PICK m \in Nat : m = maxBatch
                BY <1>2
            <4>3. \A a \in 1..n : WithBatch(m, MaxShapes)[j][a] = IF a = 1 /\ maxBatch # 0 THEN m ELSE MaxShapes[j][a]
                <5>1. j \in DOMAIN MaxShapes /\ MaxShapes[j] \in Seq(Nat) \ {<<>>}
                    BY <3>4, <3>5
                <5>2. \A a \in DOMAIN MaxShapes[j] :
                          WithBatch(m, MaxShapes)[j][a] = IF a = 1 /\ maxBatch # 0 THEN m ELSE MaxShapes[j][a]
                    BY <5>1, BatchReplaced, ZenonT(40)
                <5> QED BY <3>5, <5>2
            <4> QED BY <2>2, <4>1, <4>2, <4>3
        <3>8. ASSUME NEW a \in 1..n PROVE AxisSpan(j, a)'
            <4>1. CASE a = 1 /\ maxBatch # 0
                BY <1>1, <3>6, <3>7, <4>1 DEF AxisSpan
            <4>2. CASE ~(a = 1 /\ maxBatch # 0)
                <5>1. profile'.min[j][a] = Min(SizesOf(j, a)) /\ profile'.max[j][a] = Max(SizesOf(j, a))
                    BY <3>6, <3>7, <4>2
                <5>2. /\ \A i \in DOMAIN Items : Min(SizesOf(j, a)) <= Items[i][j][a] /\ Items[i][j][a] <= Max(SizesOf(j, a))
                      /\ \E i \in DOMAIN Items : Items[i][j][a] = Min(SizesOf(j, a))
                      /\ \E i \in DOMAIN Items : Items[i][j][a] = Max(SizesOf(j, a))
                    BY <1>2, <1>7, <2>3, <3>2, SizeBounds
                <5> QED BY <1>1, <2>2, <4>2, <5>1, <5>2 DEF AxisSpan
            <4> QED BY <4>1, <4>2
        <3> QED BY <3>1, <3>2, <3>6, <3>8
    <2>7. DOMAIN profile'.min = 1..Arity
        <3>1. DOMAIN MinShapes = 1..Arity
            BY <2>4 DEF MinShapes
        <3>2. DOMAIN WithBatch(1, MinShapes) = DOMAIN MinShapes
            BY DEF WithBatch
        <3> QED BY <2>2, <3>1, <3>2
    <2>8. ProfileSpans'
        <3>1. Arity' = Arity
            BY DEF Arity
        <3>2. \A j \in 1..Arity :
                  /\ DOMAIN profile'.min[j] = DOMAIN inputs'[j]
                  /\ \A i \in DOMAIN profile'.from : DOMAIN profile'.from[i][j] = DOMAIN inputs'[j]
                  /\ \A a \in DOMAIN inputs'[j] : AxisSpan(j, a)'
            BY <1>1, <2>2, <2>5, <2>6
        <3> QED BY <1>1, <1>3, <1>4, <2>2, <2>7, <3>1, <3>2 DEF ProfileSpans
    <2> QED BY <1>1, <1>2, <1>5, <2>1, <2>8 DEF BuildInv, StoreInv, Profiled
<1> QED BY <1>6, <1>7
LEMMA SameProfile ==
    ASSUME ProfileSpans, UNCHANGED <<profile, inputs, maxBatch>>
    PROVE  ProfileSpans'
BY DEF ProfileSpans, AxisSpan, Calls, Arity

(* Every step of a build keeps its invariant.                              *)
LEMMA BuildStep == ASSUME BuildInv, [BuildNext]_engineVars PROVE BuildInv'
<1>1. StoreInv' /\ StoreByKind /\ StoreByKind'
    BY RecordingStep DEF BuildInv, StoreInv
<1>2. CASE stage = "idle" /\ DatasetNext /\ UNCHANGED buildVars
    <2>1. recording' \in BOOLEAN
        BY <1>2 DEF BuildInv, DatasetNext, EnterRecorder, ExitRecorder, ModuleCall, RemoveFile
    <2>2. UNCHANGED <<stage, maxBatch, network, count>> /\ stage = "idle"
        BY <1>2 DEF buildVars
    <2> QED BY <1>1, <2>1, <2>2 DEF BuildInv, Profiled
<1>3. ASSUME NEW batch \in MaxBatchSizes, NEW dev \in DefaultDevices, Start(batch, dev)
      PROVE  BuildInv'
    <2>1. /\ stage = "idle" /\ maxBatch' = batch /\ UNCHANGED <<kind, recording, network, count>>
        BY <1>3 DEF Start
    <2>2. /\ maxBatch' \in Nat /\ recording' \in BOOLEAN /\ network' = None /\ count' = 0
        BY <2>1, BuildAssumption DEF BuildInv
    <2>3. CASE Items = <<>>
        <3>1. stage' = "raised"
            BY <1>3, <2>3 DEF Start
        <3> QED BY <1>1, <2>2, <3>1 DEF BuildInv, Profiled
    <2>4. CASE Items # <<>>
        <3>1. stage' = "traced" /\ inputs' = Items[1] /\ Callback(Items[1])
            BY <1>3, <2>4 DEF Start
        <3>2. \E i \in DOMAIN Items' : Items'[i] = inputs'
            BY <1>1, <2>1, <2>4, <3>1, FirstItemStays
        <3> QED BY <1>1, <2>2, <3>1, <3>2 DEF BuildInv, Profiled
    <2> QED BY <2>3, <2>4
<1>4. CASE Profile
    BY <1>4, ProfileStep
<1>5. CASE Convert
    <2>1. /\ stage = "profiled" /\ stage' = "calibrating"
          /\ network' = [j \in DOMAIN inputs |-> [a \in DOMAIN inputs[j] |->
                            IF a \in DynamicAxes(profile, j) THEN -1 ELSE inputs[j][a]]]
          /\ UNCHANGED <<recording, maxBatch, inputs, profile, count>>
        BY <1>5 DEF Convert
    <2>2. ProfileSpans /\ ProfileSpans' /\ inputs \in Calls
        BY <2>1, SameProfile DEF BuildInv, StoreInv, Profiled
    <2>3. DOMAIN inputs = 1..Arity
        BY <2>2 DEF Calls
    <2>4. \A j \in 1..Arity : \A a \in DOMAIN inputs[j] : a \in DynamicAxes(profile, j) <=> profile.min[j][a] # profile.max[j][a]
        BY <2>2 DEF ProfileSpans, DynamicAxes
    <2>5. network' = [j \in 1..Arity |-> [a \in DOMAIN inputs[j] |->
                         IF profile.min[j][a] # profile.max[j][a] THEN -1 ELSE inputs[j][a]]]
        BY <2>1, <2>3, <2>4
    <2>6. NetworkFits'
        BY <2>1, <2>5 DEF NetworkFits, Arity
    <2>7. Len(Items') \in Nat
        <3>1. (StoreByKind => Items \in Seq(Calls))'
            BY ItemsAreCalls, PTL
        <3> QED BY <1>1, <3>1
    <2>8. count' = 0 /\ recording' \in BOOLEAN /\ maxBatch' \in Nat
        BY <2>1 DEF BuildInv
    <2> QED BY <1>1, <2>1, <2>2, <2>6, <2>7, <2>8 DEF BuildInv, Profiled
<1>6. CASE GetBatch
    <2>1. /\ stage = "calibrating" /\ stage' \in {"calibrating", "built"}
          /\ UNCHANGED <<kind, recording, store, maxBatch, inputs, profile, network>>
        BY <1>6 DEF GetBatch
    <2>2. Items' = Items
        BY <2>1 DEF Items, Row, FilePath, Names
    <2>3. ProfileSpans /\ ProfileSpans' /\ NetworkFits /\ count \in 0..Len(Items)
        BY <2>1, SameProfile DEF BuildInv, Profiled
    <2>4. NetworkFits'
        BY <2>1, <2>3 DEF NetworkFits, Arity
    <2>5. Len(Items) \in Nat
        BY <1>1, ItemsAreCalls
    <2>6. count' \in 0..Len(Items') /\ (stage' = "built" => count' = Len(Items'))
        BY <1>6, <2>2, <2>3, <2>5 DEF GetBatch, HasBatch
    <2>7. recording' \in BOOLEAN /\ maxBatch' \in Nat
        BY <2>1 DEF BuildInv
    <2> QED BY <1>1, <2>1, <2>3, <2>4, <2>6, <2>7 DEF BuildInv, Profiled
<1>7. CASE UNCHANGED engineVars
    <2>1. UNCHANGED <<kind, recording, store, stage, maxBatch, inputs, profile, network, count>>
        BY <1>7 DEF engineVars, datasetVars, buildVars
    <2>2. Items' = Items
        BY <2>1 DEF Items, Row, FilePath, Names
    <2>3. (Profiled => ProfileSpans)' /\ (NetworkFits => NetworkFits')
        BY <2>1, SameProfile DEF BuildInv, Profiled, NetworkFits, Arity
    <2> QED BY <1>1, <2>1, <2>2, <2>3 DEF BuildInv
<1> QED BY <1>2, <1>3, <1>4, <1>5, <1>6, <1>7 DEF BuildNext

(* The example inputs, the profile, the network and the calibration agree  *)
(* throughout a build.                                                     *)
THEOREM BuildInvariance == BuildSpec => []BuildInv
<1>1. BuildInit => BuildInv
    <2> SUFFICES ASSUME BuildInit PROVE BuildInv
        OBVIOUS
    <2>1. /\ store = <<>> /\ kind \in {"list", "batch", "folder"} /\ stage = "idle" /\ recording = FALSE
          /\ maxBatch = 0 /\ network = None /\ count = 0
        BY DEF BuildInit, DatasetInit
    <2>2. <<>> \in Seq(Calls) /\ DOMAIN <<>> = {}
        OBVIOUS
    <2>3. StoreInv
        BY <2>1, <2>2 DEF StoreInv, StoreByKind
    <2> QED BY <2>1, <2>3 DEF BuildInv, Profiled
<1>2. BuildInv /\ [BuildNext]_engineVars => BuildInv'
    BY BuildStep
<1> QED BY <1>1, <1>2, PTL DEF BuildSpec

(* What a profile that spans its items says of the opt shape and of the    *)
(* inputs.                                                                 *)
LEMMA SpanFacts ==
    ASSUME ProfileSpans, maxBatch \in Nat
    PROVE  /\ inputs \in Calls /\ profile.opt \in Calls
           /\ \A j \in 1..Arity : 1 \in DOMAIN inputs[j] /\ DOMAIN profile.min[j] = DOMAIN inputs[j]
           /\ \A j \in 1..Arity : \A a \in DOMAIN inputs[j] :
                 /\ inputs[j][a] \in Nat /\ profile.opt[j][a] \in Nat
                 /\ profile.min[j][a] \in Nat /\ profile.max[j][a] \in Nat
                 /\ \A i \in DOMAIN profile.from : profile.from[i][j][a] \in Nat
                 /\ ~(a = 1 /\ maxBatch # 0) =>
                       /\ profile.min[j][a] <= profile.opt[j][a] /\ profile.opt[j][a] <= profile.max[j][a]
                       /\ \A i \in DOMAIN profile.from : profile.from[i][j][a] \in profile.min[j][a]..profile.max[j][a]
                       /\ profile.min[j][a] = profile.max[j][a] <=>
                              \A i \in DOMAIN profile.from : profile.from[i][j][a] = inputs[j][a]
<1>1. profile.from \in Seq(Calls)
    BY DEF ProfileSpans
<1>2. PICK f \in DOMAIN profile.from : profile.from[f] = inputs
    BY DEF ProfileSpans
<1>3. PICK o \in DOMAIN profile.from : profile.from[o] = profile.opt
    BY DEF ProfileSpans
<1>4. \A i \in DOMAIN profile.from : profile.from[i] \in Calls
    BY <1>1
<1>5. ASSUME NEW j \in 1..Arity PROVE 1 \in DOMAIN inputs[j] /\ DOMAIN profile.min[j] = DOMAIN inputs[j]
    <2>1. inputs[j] \in Seq(Nat) \ {<<>>}
        BY <1>2, <1>4 DEF Calls
    <2> QED BY <2>1 DEF ProfileSpans
<1>6. ASSUME NEW j \in 1..Arity, NEW a \in DOMAIN inputs[j], NEW i \in DOMAIN profile.from
      PROVE  profile.from[i][j][a] \in Nat
    <2>1. profile.from[i][j] \in Seq(Nat)
        BY <1>4 DEF Calls
    <2>2. a \in DOMAIN profile.from[i][j]
        BY DEF ProfileSpans
    <2> QED BY <2>1, <2>2
<1>7. ASSUME NEW j \in 1..Arity, NEW a \in DOMAIN inputs[j]
      PROVE  /\ inputs[j][a] \in Nat /\ profile.opt[j][a] \in Nat
             /\ profile.min[j][a] \in Nat /\ profile.max[j][a] \in Nat
             /\ ~(a = 1 /\ maxBatch # 0) =>
                   /\ profile.min[j][a] <= profile.opt[j][a] /\ profile.opt[j][a] <= profile.max[j][a]
                   /\ \A i \in DOMAIN profile.from : profile.from[i][j][a] \in profile.min[j][a]..profile.max[j][a]
                   /\ profile.min[j][a] = profile.max[j][a] <=>
                          \A i \in DOMAIN profile.from : profile.from[i][j][a] = inputs[j][a]
    <2>1. AxisSpan(j, a)
        BY DEF ProfileSpans
    <2>2. inputs[j][a] \in Nat /\ profile.opt[j][a] \in Nat
        BY <1>2, <1>3, <1>6
    <2>3. CASE a = 1 /\ maxBatch # 0
        BY <2>1, <2>2, <2>3 DEF AxisSpan
    <2>4. CASE ~(a = 1 /\ maxBatch # 0)
        <3>1. \A i \in DOMAIN profile.from :
                  profile.min[j][a] <= profile.from[i][j][a] /\ profile.from[i][j][a] <= profile.max[j][a]
            BY <2>1, <2>4 DEF AxisSpan
        <3>2. PICK l \in DOMAIN profile.from : profile.from[l][j][a] = profile.min[j][a]
            BY <2>1, <2>4 DEF AxisSpan
        <3>3. PICK g \in DOMAIN profile.from : profile.from[g][j][a] = profile.max[j][a]
            BY <2>1, <2>4 DEF AxisSpan
        <3>4. profile.min[j][a] \in Nat /\ profile.max[j][a] \in Nat
            BY <1>6, <3>2, <3>3
        <3>5. profile.min[j][a] <= profile.opt[j][a] /\ profile.opt[j][a] <= profile.max[j][a]
            BY <1>3, <3>1
        <3>6. \A i \in DOMAIN profile.from : profile.from[i][j][a] \in profile.min[j][a]..profile.max[j][a]
            BY <1>6, <3>1, <3>4
        <3>7. ASSUME profile.min[j][a] = profile.max[j][a], NEW i \in DOMAIN profile.from
              PROVE  profile.from[i][j][a] = inputs[j][a]
            <4>1. profile.from[i][j][a] = profile.min[j][a]
                BY <1>6, <3>1, <3>4, <3>7
            <4>2. profile.from[f][j][a] = profile.min[j][a]
                BY <1>6, <3>1, <3>4, <3>7
            <4> QED BY <1>2, <4>1, <4>2
        <3>8. (\A i \in DOMAIN profile.from : profile.from[i][j][a] = inputs[j][a])
                  => profile.min[j][a] = profile.max[j][a]
            BY <3>2, <3>3
        <3> QED BY <2>2, <3>4, <3>5, <3>6, <3>7, <3>8
    <2> QED BY <2>3, <2>4
<1>8. inputs \in Calls /\ profile.opt \in Calls
    BY <1>2, <1>3, <1>4
<1> QED BY <1>5, <1>6, <1>7, <1>8

(* torch2trt() (InputsAreCovered): every item fits the profile, which      *)
(* TensorRT accepts, under the legacy max_batch_size just when the median  *)
(* item fits; the axes fixed are those on which all items agree; and the   *)
(* engine is calibrated with every item.                                   *)
THEOREM InputsCovered == BuildSpec => []InputsAreCovered
<1>1. BuildInv => InputsAreCovered
    <2> SUFFICES ASSUME BuildInv PROVE InputsAreCovered
        OBVIOUS
    <2>1. maxBatch \in Nat /\ (Profiled => ProfileSpans)
        BY DEF BuildInv
    <2>2. Items \in Seq(Calls) /\ Len(Items) \in Nat
        BY ItemsAreCalls DEF BuildInv, StoreInv
    <2>3. Profiled => DOMAIN profile.min = 1..Arity
        BY <2>1 DEF ProfileSpans
    <2>4. \A c \in Calls : DOMAIN c = 1..Arity
        BY DEF Calls
    <2>5. network # None => Profiled /\ NetworkFits
        BY DEF BuildInv, Profiled
    <2>6. ASSUME Profiled, NEW j \in 1..Arity, NEW a \in DOMAIN inputs[j], NetworkFits
          PROVE  network[j][a] = IF profile.min[j][a] # profile.max[j][a] THEN -1 ELSE inputs[j][a]
        BY <2>6 DEF NetworkFits
    <2>7. BuildTypeOK
        <3>1. \A i \in DOMAIN Items : \A j \in DOMAIN Items[i] : \A a \in DOMAIN Items[i][j] : Items[i][j][a] \in Nat
            <4> SUFFICES ASSUME NEW i \in DOMAIN Items, NEW j \in DOMAIN Items[i], NEW a \in DOMAIN Items[i][j]
                         PROVE  Items[i][j][a] \in Nat
                OBVIOUS
            <4>1. Items[i] \in Calls
                BY <2>2
            <4>2. Items[i][j] \in Seq(Nat)
                BY <4>1 DEF Calls
            <4> QED BY <4>2
        <3>2. network # None => \A j \in DOMAIN network : \A a \in DOMAIN network[j] : network[j][a] >= -1
            <4> SUFFICES ASSUME network # None, NEW j \in DOMAIN network, NEW a \in DOMAIN network[j]
                         PROVE  network[j][a] >= -1
                OBVIOUS
            <4>1. j \in 1..Arity
                BY <2>5 DEF NetworkFits
            <4>2. a \in DOMAIN inputs[j]
                BY <2>5, <4>1 DEF NetworkFits
            <4>3. inputs[j][a] \in Nat
                BY <2>1, <2>5, <4>1, <4>2, SpanFacts
            <4>4. network[j][a] = -1 \/ network[j][a] = inputs[j][a]
                BY <2>5, <2>6, <4>1, <4>2
            <4> QED BY <4>3, <4>4
        <3>3. count \in 0..Len(Items)
            BY <2>2 DEF BuildInv
        <3> QED BY <3>1, <3>2, <3>3 DEF BuildTypeOK, BuildInv
    <2>8. ItemsFitTheProfile
        <3> SUFFICES ASSUME Profiled, maxBatch = 0, NEW j \in DOMAIN profile.min, NEW a \in DOMAIN profile.min[j]
                     PROVE  /\ profile.min[j][a] <= profile.opt[j][a] /\ profile.opt[j][a] <= profile.max[j][a]
                            /\ \A i \in DOMAIN profile.from :
                                  profile.from[i][j][a] \in profile.min[j][a]..profile.max[j][a]
            BY DEF ItemsFitTheProfile
        <3>1. j \in 1..Arity /\ a \in DOMAIN inputs[j]
            BY <2>1, <2>3, SpanFacts
        <3> QED BY <2>1, <3>1, SpanFacts
    <2>9. LegacyBatchMustFit
        <3> SUFFICES ASSUME Profiled, maxBatch # 0
                     PROVE  (\A j \in DOMAIN profile.min : \A a \in DOMAIN profile.min[j] :
                                profile.min[j][a] <= profile.opt[j][a] /\ profile.opt[j][a] <= profile.max[j][a])
                            <=> \A j \in DOMAIN profile.opt : profile.opt[j][1] \in 1..maxBatch
            BY DEF LegacyBatchMustFit
        <3>1. DOMAIN profile.min = 1..Arity /\ DOMAIN profile.opt = 1..Arity
            BY <2>1, <2>3, <2>4, SpanFacts
        <3>2. ASSUME NEW j \in 1..Arity
              PROVE  (\A a \in DOMAIN profile.min[j] :
                         profile.min[j][a] <= profile.opt[j][a] /\ profile.opt[j][a] <= profile.max[j][a])
                     <=> profile.opt[j][1] \in 1..maxBatch
            <4>1. DOMAIN profile.min[j] = DOMAIN inputs[j] /\ 1 \in DOMAIN inputs[j]
                BY <2>1, SpanFacts
            <4>2. \A a \in DOMAIN inputs[j] : a # 1 =>
                      profile.min[j][a] <= profile.opt[j][a] /\ profile.opt[j][a] <= profile.max[j][a]
                BY <2>1, SpanFacts
            <4>3. profile.min[j][1] = 1 /\ profile.max[j][1] = maxBatch
                BY <2>1, <4>1 DEF ProfileSpans, AxisSpan
            <4>4. profile.opt[j][1] \in Nat
                BY <2>1, <4>1, SpanFacts
            <4> QED BY <2>1, <4>1, <4>2, <4>3, <4>4
        <3> QED BY <3>1, <3>2
    <2>10. FixedAxesAreCommon
        <3> SUFFICES ASSUME network # None, NEW j \in DOMAIN profile.min, NEW a \in DOMAIN profile.min[j]
                     PROVE  IF a = 1 /\ maxBatch # 0
                            THEN network[j][a] # -1 <=> maxBatch = 1
                            ELSE /\ network[j][a] # -1 <=> \A i \in DOMAIN profile.from : profile.from[i][j][a] = inputs[j][a]
                                 /\ network[j][a] # -1 =>
                                        profile.min[j][a] = network[j][a] /\ profile.max[j][a] = network[j][a]
            BY DEF FixedAxesAreCommon
        <3>1. j \in 1..Arity /\ a \in DOMAIN inputs[j]
            BY <2>1, <2>3, <2>5, SpanFacts
        <3>2. inputs[j][a] \in Nat /\ profile.min[j][a] \in Nat /\ profile.max[j][a] \in Nat
            BY <2>1, <2>5, <3>1, SpanFacts
        <3>3. network[j][a] # -1 <=> profile.min[j][a] = profile.max[j][a]
            BY <2>5, <2>6, <3>1, <3>2
        <3>4. CASE a = 1 /\ maxBatch # 0
            <4>1. profile.min[j][a] = 1 /\ profile.max[j][a] = maxBatch
                BY <2>1, <2>5, <3>1, <3>4 DEF ProfileSpans, AxisSpan
            <4> QED BY <3>3, <3>4, <4>1
        <3>5. CASE ~(a = 1 /\ maxBatch # 0)
            <4>1. profile.min[j][a] = profile.max[j][a] <=>
                      \A i \in DOMAIN profile.from : profile.from[i][j][a] = inputs[j][a]
                BY <2>1, <2>5, <3>1, <3>5, SpanFacts
            <4>2. ASSUME network[j][a] # -1
                  PROVE  profile.min[j][a] = network[j][a] /\ profile.max[j][a] = network[j][a]
                <5>1. network[j][a] = inputs[j][a] /\ profile.min[j][a] = profile.max[j][a]
                    BY <2>5, <2>6, <3>1, <3>3, <4>2
                <5>2. PICK i \in DOMAIN profile.from : profile.from[i][j][a] = profile.min[j][a]
                    BY <2>1, <2>5, <3>1, <3>5 DEF ProfileSpans, AxisSpan
                <5> QED BY <4>1, <5>1, <5>2
            <4> QED BY <3>3, <3>5, <4>1, <4>2
        <3> QED BY <3>4, <3>5
    <2>11. CalibratedWithAll
        BY DEF BuildInv, CalibratedWithAll
    <2> QED BY <2>7, <2>8, <2>9, <2>10, <2>11 DEF InputsAreCovered
<1> QED BY <1>1, BuildInvariance, PTL
===============================================================================
