------------------------- MODULE RealtimeTuneProofs -------------------------
(***************************************************************************)
(* realtime_tune over crashes, failing commands and reboots, for any sets  *)
(* of boot entries and kernel parameters and any number of calls, faults   *)
(* and edits: type correctness, and the three safety properties that the   *)
(* run realtime_tune checks.                                               *)
(***************************************************************************)
EXTENDS RealtimeTune, TLAPS

\* A step that reaches the boot loader has the tuner listed, or a write of the list
\* that failed, and as long as the file was not edited a Disable removes everything
\* an Enable may have written into the entry of the running kernel.
ListedInv ==
  /\ ListedWhileInstalled
  /\ doing # "none" => up
  /\ list = "broken" => unsaved
  /\ doing \in {"update", "mkconfig", "rollback", "relist"} => unsaved \/ Listed
  /\ doing = "unlist" => switchConfig = {}
  /\ edits = 0 =>
       /\ config.range = "cpus" /\ config.features = Params
       /\ enabled \/ doing # "none" => switchConfig = Params
       /\ doing = "remove" =>
            /\ \A k \in Params \ left : <<running, k>> \notin stuck => grub[running][k] # Range
            /\ \A e \in Kernels, k \in Params :
                 e # running /\ <<e, k>> \notin stuck => grub[e][k] # Range

\* What an Enable has not touched, or has rolled back, is as it was found, if the
\* entry it found and the one it changes are the same.
RollbackInv ==
  /\ doing # "none" => up
  /\ from = running =>
       /\ doing = "list" => grub[running] = found
       /\ doing \in {"update", "mkconfig"} => \A k \in Params \ updated : grub[running][k] = found[k]
       /\ doing = "rollback" =>
            \A k \in Params \ left :
              <<running, k>> \notin stuck /\ found[k] # Bare => grub[running][k] = found[k]

\* What an Enable has done so far, and what keeps its promise until the boot and
\* after it: nothing is in progress that could take it back.
EffectInv ==
  /\ doing # "none" => up
  /\ list = "broken" => unsaved
  /\ from = running =>
       /\ doing \in {"list", "update"} /\ ~failed =>
            \A k \in switchConfig \ left : grub[running][k] = Range
       /\ doing \in {"mkconfig", "relist"} => \A k \in switchConfig : grub[running][k] = Range
  /\ doing \in {"update", "mkconfig", "rollback", "relist"} => unsaved \/ Listed
  /\ doing \in {"list", "mkconfig", "relist"} => ~failed
  /\ asked.phase = "asked" => doing = "none" /\ (up => enabled)
  /\ asked.phase \in {"asked", "booted"} =>
       /\ unsaved \/ Listed
       /\ doing \notin {"remove", "unlist"}
       /\ \A k \in asked.params : grub[running][k] = Range
  /\ asked.phase = "booted" =>
       \A k \in asked.params :
         cmdline[k] = Range /\ (doing # "none" => from = running /\ found[k] = Range)

-----------------------------------------------------------------------------
(* Type correctness                                                        *)

\* The parts of TypeOK.
ParamsTyped ==
  /\ grub \in [Kernels -> [Params -> Values]]
  /\ default \in Kernels /\ running \in Kernels /\ from \in Kernels
  /\ cmdline \in [Params -> Values] /\ found \in [Params -> Values]
StepTyped == list \in EnableLists /\ config \in Configs /\ doing \in Steps
FlagsTyped ==
  /\ up \in BOOLEAN /\ enabled \in BOOLEAN /\ isRebooting \in BOOLEAN
  /\ exiting \in BOOLEAN /\ failed \in BOOLEAN /\ unsaved \in BOOLEAN
SetsTyped ==
  /\ switchConfig \subseteq Params /\ left \subseteq Params
  /\ updated \subseteq Params /\ stuck \subseteq Kernels \X Params
CountersTyped == calls \in 0..MaxCalls /\ faults \in 0..MaxFaults /\ edits \in 0..MaxEdits
AskedTyped ==
  asked \in [phase : {"nothing", "asked", "booted", "closed", "off"}, params : SUBSET Params]

\* Every reachable state is well typed, over any number of deaths and reboots.
THEOREM TypeCorrect == Spec => []TypeOK
<1>1. Init => TypeOK
<2> SUFFICES ASSUME Init PROVE TypeOK
  OBVIOUS
<2>1. ParamsTyped
  BY DEF Init, Values, ParamsTyped
<2>2. StepTyped
  BY DEF Init, Steps, EnableLists, StepTyped
<2>3. FlagsTyped
  BY DEF Init, FlagsTyped
<2>4. SetsTyped
  BY DEF Init, SetsTyped
<2>5. CountersTyped
  BY BoundsAssumption DEF Init, CountersTyped
<2>6. AskedTyped
  BY DEF Init, Nothing, AskedTyped
<2>7. QED
  BY <2>1, <2>2, <2>3, <2>4, <2>5, <2>6
     DEF TypeOK, ParamsTyped, StepTyped, FlagsTyped, SetsTyped, CountersTyped, AskedTyped
<1>2. TypeOK /\ [Next]_vars => TypeOK'
<2> SUFFICES ASSUME TypeOK, [Next]_vars PROVE TypeOK'
  OBVIOUS
<2>1. CASE Enable
  <3>1. ParamsTyped'
    BY <2>1, BoundsAssumption DEF Enable, BeginEnable, KeptPromise, ParseFromSwitchConfig,
         GenerateExpectedKernelParams, FirstStep, Call, files, machine, process, history, TypeOK,
         Values, EnableLists, Configs, Steps, Nothing, ParamsTyped
  <3>2. FlagsTyped'
    BY <2>1, BoundsAssumption DEF Enable, BeginEnable, KeptPromise, ParseFromSwitchConfig,
         GenerateExpectedKernelParams, FirstStep, Call, files, machine, process, history, TypeOK,
         Values, EnableLists, Configs, Steps, Nothing, FlagsTyped
  <3>3. StepTyped'
    BY <2>1, BoundsAssumption DEF Enable, BeginEnable, KeptPromise, ParseFromSwitchConfig,
         GenerateExpectedKernelParams, FirstStep, Call, files, machine, process, history, TypeOK,
         Values, EnableLists, Configs, Steps, Nothing, StepTyped
  <3>4. SetsTyped'
    BY <2>1, BoundsAssumption DEF Enable, BeginEnable, KeptPromise, ParseFromSwitchConfig,
         GenerateExpectedKernelParams, FirstStep, Call, files, machine, process, history, TypeOK,
         Values, EnableLists, Configs, Steps, Nothing, SetsTyped
  <3>5. CountersTyped'
    BY <2>1, BoundsAssumption DEF Enable, BeginEnable, KeptPromise, ParseFromSwitchConfig,
         GenerateExpectedKernelParams, FirstStep, Call, files, machine, process, history, TypeOK,
         Values, EnableLists, Configs, Steps, Nothing, CountersTyped
  <3>6. AskedTyped'
    BY <2>1, BoundsAssumption DEF Enable, BeginEnable, KeptPromise, ParseFromSwitchConfig,
         GenerateExpectedKernelParams, FirstStep, Call, files, machine, process, history, TypeOK,
         Values, EnableLists, Configs, Steps, Nothing, AskedTyped
  <3>7. QED
    BY <3>1, <3>2, <3>3, <3>4, <3>5, <3>6 DEF TypeOK, ParamsTyped, FlagsTyped, StepTyped,
         SetsTyped, CountersTyped, AskedTyped
<2>2. CASE Disable(FALSE)
  <3>1. ParamsTyped'
    BY <2>2, BoundsAssumption DEF Disable, KeepsParams, Elsewhere, Call, files, machine, process,
         history, TypeOK, Values, EnableLists, Configs, Steps, Nothing, ParamsTyped
  <3>2. FlagsTyped'
    BY <2>2, BoundsAssumption DEF Disable, KeepsParams, Elsewhere, Call, files, machine, process,
         history, TypeOK, Values, EnableLists, Configs, Steps, Nothing, FlagsTyped
  <3>3. StepTyped'
    BY <2>2, BoundsAssumption DEF Disable, KeepsParams, Elsewhere, Call, files, machine, process,
         history, TypeOK, Values, EnableLists, Configs, Steps, Nothing, StepTyped
  <3>4. SetsTyped'
    BY <2>2, BoundsAssumption DEF Disable, KeepsParams, Elsewhere, Call, files, machine, process,
         history, TypeOK, Values, EnableLists, Configs, Steps, Nothing, SetsTyped
  <3>5. CountersTyped'
    BY <2>2, BoundsAssumption DEF Disable, KeepsParams, Elsewhere, Call, files, machine, process,
         history, TypeOK, Values, EnableLists, Configs, Steps, Nothing, CountersTyped
  <3>6. AskedTyped'
    BY <2>2, BoundsAssumption DEF Disable, KeepsParams, Elsewhere, Call, files, machine, process,
         history, TypeOK, Values, EnableLists, Configs, Steps, Nothing, AskedTyped
  <3>7. QED
    BY <3>1, <3>2, <3>3, <3>4, <3>5, <3>6 DEF TypeOK, ParamsTyped, FlagsTyped, StepTyped,
         SetsTyped, CountersTyped, AskedTyped
<2>3. CASE Disable(TRUE)
  <3>1. ParamsTyped'
    BY <2>3, BoundsAssumption DEF Disable, KeepsParams, Elsewhere, Call, files, machine, process,
         history, TypeOK, Values, EnableLists, Configs, Steps, Nothing, ParamsTyped
  <3>2. FlagsTyped'
    BY <2>3, BoundsAssumption DEF Disable, KeepsParams, Elsewhere, Call, files, machine, process,
         history, TypeOK, Values, EnableLists, Configs, Steps, Nothing, FlagsTyped
  <3>3. StepTyped'
    BY <2>3, BoundsAssumption DEF Disable, KeepsParams, Elsewhere, Call, files, machine, process,
         history, TypeOK, Values, EnableLists, Configs, Steps, Nothing, StepTyped
  <3>4. SetsTyped'
    BY <2>3, BoundsAssumption DEF Disable, KeepsParams, Elsewhere, Call, files, machine, process,
         history, TypeOK, Values, EnableLists, Configs, Steps, Nothing, SetsTyped
  <3>5. CountersTyped'
    BY <2>3, BoundsAssumption DEF Disable, KeepsParams, Elsewhere, Call, files, machine, process,
         history, TypeOK, Values, EnableLists, Configs, Steps, Nothing, CountersTyped
  <3>6. AskedTyped'
    BY <2>3, BoundsAssumption DEF Disable, KeepsParams, Elsewhere, Call, files, machine, process,
         history, TypeOK, Values, EnableLists, Configs, Steps, Nothing, AskedTyped
  <3>7. QED
    BY <3>1, <3>2, <3>3, <3>4, <3>5, <3>6 DEF TypeOK, ParamsTyped, FlagsTyped, StepTyped,
         SetsTyped, CountersTyped, AskedTyped
<2>4. CASE Exit
  <3>1. ParamsTyped'
    BY <2>4, BoundsAssumption DEF Exit, Call, files, machine, process, history, TypeOK, Values,
         EnableLists, Configs, Steps, Nothing, ParamsTyped
  <3>2. FlagsTyped'
    BY <2>4, BoundsAssumption DEF Exit, Call, files, machine, process, history, TypeOK, Values,
         EnableLists, Configs, Steps, Nothing, FlagsTyped
  <3>3. StepTyped'
    BY <2>4, BoundsAssumption DEF Exit, Call, files, machine, process, history, TypeOK, Values,
         EnableLists, Configs, Steps, Nothing, StepTyped
  <3>4. SetsTyped'
    BY <2>4, BoundsAssumption DEF Exit, Call, files, machine, process, history, TypeOK, Values,
         EnableLists, Configs, Steps, Nothing, SetsTyped
  <3>5. CountersTyped'
    BY <2>4, BoundsAssumption DEF Exit, Call, files, machine, process, history, TypeOK, Values,
         EnableLists, Configs, Steps, Nothing, CountersTyped
  <3>6. AskedTyped'
    BY <2>4, BoundsAssumption DEF Exit, Call, files, machine, process, history, TypeOK, Values,
         EnableLists, Configs, Steps, Nothing, AskedTyped
  <3>7. QED
    BY <3>1, <3>2, <3>3, <3>4, <3>5, <3>6 DEF TypeOK, ParamsTyped, FlagsTyped, StepTyped,
         SetsTyped, CountersTyped, AskedTyped
<2>5. CASE Dies
  <3>1. ParamsTyped'
    BY <2>5, BoundsAssumption DEF Dies, Call, files, machine, process, history, TypeOK, Values,
         EnableLists, Configs, Steps, Nothing, ParamsTyped
  <3>2. FlagsTyped'
    BY <2>5, BoundsAssumption DEF Dies, Call, files, machine, process, history, TypeOK, Values,
         EnableLists, Configs, Steps, Nothing, FlagsTyped
  <3>3. StepTyped'
    BY <2>5, BoundsAssumption DEF Dies, Call, files, machine, process, history, TypeOK, Values,
         EnableLists, Configs, Steps, Nothing, StepTyped
  <3>4. SetsTyped'
    BY <2>5, BoundsAssumption DEF Dies, Call, files, machine, process, history, TypeOK, Values,
         EnableLists, Configs, Steps, Nothing, SetsTyped
  <3>5. CountersTyped'
    BY <2>5, BoundsAssumption DEF Dies, Call, files, machine, process, history, TypeOK, Values,
         EnableLists, Configs, Steps, Nothing, CountersTyped
  <3>6. AskedTyped'
    BY <2>5, BoundsAssumption DEF Dies, Call, files, machine, process, history, TypeOK, Values,
         EnableLists, Configs, Steps, Nothing, AskedTyped
  <3>7. QED
    BY <3>1, <3>2, <3>3, <3>4, <3>5, <3>6 DEF TypeOK, ParamsTyped, FlagsTyped, StepTyped,
         SetsTyped, CountersTyped, AskedTyped
<2>6. CASE Boots
  BY <2>6, BoundsAssumption DEF Boots, Call, files, machine, process, history, TypeOK, Values,
       EnableLists, Configs, Steps, Nothing
<2>7. CASE Starts
  <3>1. ParamsTyped'
    BY <2>7, BoundsAssumption DEF Starts, BeginEnable, KeptPromise, ParseFromSwitchConfig,
         GenerateExpectedKernelParams, FirstStep, Call, files, machine, process, history, TypeOK,
         Values, EnableLists, Configs, Steps, Nothing, ParamsTyped
  <3>2. FlagsTyped'
    BY <2>7, BoundsAssumption DEF Starts, BeginEnable, KeptPromise, ParseFromSwitchConfig,
         GenerateExpectedKernelParams, FirstStep, Call, files, machine, process, history, TypeOK,
         Values, EnableLists, Configs, Steps, Nothing, FlagsTyped
  <3>3. StepTyped'
    BY <2>7, BoundsAssumption DEF Starts, BeginEnable, KeptPromise, ParseFromSwitchConfig,
         GenerateExpectedKernelParams, FirstStep, Call, files, machine, process, history, TypeOK,
         Values, EnableLists, Configs, Steps, Nothing, StepTyped
  <3>4. SetsTyped'
    BY <2>7, BoundsAssumption DEF Starts, BeginEnable, KeptPromise, ParseFromSwitchConfig,
         GenerateExpectedKernelParams, FirstStep, Call, files, machine, process, history, TypeOK,
         Values, EnableLists, Configs, Steps, Nothing, SetsTyped
  <3>5. CountersTyped'
    BY <2>7, BoundsAssumption DEF Starts, BeginEnable, KeptPromise, ParseFromSwitchConfig,
         GenerateExpectedKernelParams, FirstStep, Call, files, machine, process, history, TypeOK,
         Values, EnableLists, Configs, Steps, Nothing, CountersTyped
  <3>6. AskedTyped'
    BY <2>7, BoundsAssumption DEF Starts, BeginEnable, KeptPromise, ParseFromSwitchConfig,
         GenerateExpectedKernelParams, FirstStep, Call, files, machine, process, history, TypeOK,
         Values, EnableLists, Configs, Steps, Nothing, AskedTyped
  <3>7. QED
    BY <3>1, <3>2, <3>3, <3>4, <3>5, <3>6 DEF TypeOK, ParamsTyped, FlagsTyped, StepTyped,
         SetsTyped, CountersTyped, AskedTyped
<2>8. CASE Edits
  BY <2>8, BoundsAssumption DEF Edits, files, machine, process, history, TypeOK, Values,
       EnableLists, Configs, Steps, Nothing
<2>9. CASE SetsDefault
  BY <2>9, BoundsAssumption DEF SetsDefault, Call, files, machine, process, history, TypeOK,
       Values, EnableLists, Configs, Steps, Nothing
<2>10. CASE Lists
  <3>1. ParamsTyped'
    BY <2>10, BoundsAssumption DEF Lists, AddRealtimeTuneToConfig, WriteFails, Fault, EnableLists,
         files, machine, process, history, TypeOK, Values, Configs, Steps, Nothing, ParamsTyped
  <3>2. FlagsTyped'
    BY <2>10, BoundsAssumption DEF Lists, AddRealtimeTuneToConfig, WriteFails, Fault, EnableLists,
         files, machine, process, history, TypeOK, Values, Configs, Steps, Nothing, FlagsTyped
  <3>3. StepTyped'
    BY <2>10, BoundsAssumption DEF Lists, AddRealtimeTuneToConfig, WriteFails, Fault, EnableLists,
         files, machine, process, history, TypeOK, Values, Configs, Steps, Nothing, StepTyped
  <3>4. SetsTyped'
    BY <2>10, BoundsAssumption DEF Lists, AddRealtimeTuneToConfig, WriteFails, Fault, EnableLists,
         files, machine, process, history, TypeOK, Values, Configs, Steps, Nothing, SetsTyped
  <3>5. CountersTyped'
    BY <2>10, BoundsAssumption DEF Lists, AddRealtimeTuneToConfig, WriteFails, Fault, EnableLists,
         files, machine, process, history, TypeOK, Values, Configs, Steps, Nothing, CountersTyped
  <3>6. AskedTyped'
    BY <2>10, BoundsAssumption DEF Lists, AddRealtimeTuneToConfig, WriteFails, Fault, EnableLists,
         files, machine, process, history, TypeOK, Values, Configs, Steps, Nothing, AskedTyped
  <3>7. QED
    BY <3>1, <3>2, <3>3, <3>4, <3>5, <3>6 DEF TypeOK, ParamsTyped, FlagsTyped, StepTyped,
         SetsTyped, CountersTyped, AskedTyped
<2>11. CASE EnableFails
  BY <2>11, BoundsAssumption DEF EnableFails, Fault, files, machine, process, history, TypeOK,
       Values, EnableLists, Configs, Steps, Nothing
<2>12. CASE Updated
  BY <2>12, BoundsAssumption DEF Updated, files, machine, process, history, TypeOK, Values,
       EnableLists, Configs, Steps, Nothing
<2>13. CASE MakesConfig
  BY <2>13, BoundsAssumption DEF MakesConfig, Fault, files, machine, process, history, TypeOK,
       Values, EnableLists, Configs, Steps, Nothing
<2>14. CASE RolledBackAll
  BY <2>14, BoundsAssumption DEF RolledBackAll, files, machine, process, history, TypeOK, Values,
       EnableLists, Configs, Steps, Nothing
<2>15. CASE Enables
  <3>1. ParamsTyped'
    BY <2>15, BoundsAssumption DEF Enables, AddRealtimeTuneToConfig, WriteFails, Fault,
         EnableLists, files, machine, process, history, TypeOK, Values, Configs, Steps, Nothing,
         ParamsTyped
  <3>2. FlagsTyped'
    BY <2>15, BoundsAssumption DEF Enables, AddRealtimeTuneToConfig, WriteFails, Fault,
         EnableLists, files, machine, process, history, TypeOK, Values, Configs, Steps, Nothing,
         FlagsTyped
  <3>3. StepTyped'
    BY <2>15, BoundsAssumption DEF Enables, AddRealtimeTuneToConfig, WriteFails, Fault,
         EnableLists, files, machine, process, history, TypeOK, Values, Configs, Steps, Nothing,
         StepTyped
  <3>4. SetsTyped'
    BY <2>15, BoundsAssumption DEF Enables, AddRealtimeTuneToConfig, WriteFails, Fault,
         EnableLists, files, machine, process, history, TypeOK, Values, Configs, Steps, Nothing,
         SetsTyped
  <3>5. CountersTyped'
    BY <2>15, BoundsAssumption DEF Enables, AddRealtimeTuneToConfig, WriteFails, Fault,
         EnableLists, files, machine, process, history, TypeOK, Values, Configs, Steps, Nothing,
         CountersTyped
  <3>6. AskedTyped'
    BY <2>15, BoundsAssumption DEF Enables, AddRealtimeTuneToConfig, WriteFails, Fault,
         EnableLists, files, machine, process, history, TypeOK, Values, Configs, Steps, Nothing,
         AskedTyped
  <3>7. QED
    BY <3>1, <3>2, <3>3, <3>4, <3>5, <3>6 DEF TypeOK, ParamsTyped, FlagsTyped, StepTyped,
         SetsTyped, CountersTyped, AskedTyped
<2>16. CASE Unlists
  <3>1. ParamsTyped'
    BY <2>16, BoundsAssumption DEF Unlists, RemoveRealtimeTuneFromConfig, WriteFails, Fault,
         EnableLists, files, machine, process, history, TypeOK, Values, Configs, Steps, Nothing,
         ParamsTyped
  <3>2. FlagsTyped'
    BY <2>16, BoundsAssumption DEF Unlists, RemoveRealtimeTuneFromConfig, WriteFails, Fault,
         EnableLists, files, machine, process, history, TypeOK, Values, Configs, Steps, Nothing,
         FlagsTyped
  <3>3. StepTyped'
    BY <2>16, BoundsAssumption DEF Unlists, RemoveRealtimeTuneFromConfig, WriteFails, Fault,
         EnableLists, files, machine, process, history, TypeOK, Values, Configs, Steps, Nothing,
         StepTyped
  <3>4. SetsTyped'
    BY <2>16, BoundsAssumption DEF Unlists, RemoveRealtimeTuneFromConfig, WriteFails, Fault,
         EnableLists, files, machine, process, history, TypeOK, Values, Configs, Steps, Nothing,
         SetsTyped
  <3>5. CountersTyped'
    BY <2>16, BoundsAssumption DEF Unlists, RemoveRealtimeTuneFromConfig, WriteFails, Fault,
         EnableLists, files, machine, process, history, TypeOK, Values, Configs, Steps, Nothing,
         CountersTyped
  <3>6. AskedTyped'
    BY <2>16, BoundsAssumption DEF Unlists, RemoveRealtimeTuneFromConfig, WriteFails, Fault,
         EnableLists, files, machine, process, history, TypeOK, Values, Configs, Steps, Nothing,
         AskedTyped
  <3>7. QED
    BY <3>1, <3>2, <3>3, <3>4, <3>5, <3>6 DEF TypeOK, ParamsTyped, FlagsTyped, StepTyped,
         SetsTyped, CountersTyped, AskedTyped
<2>17. CASE \E k \in Params : Updates(k)
  <3>1. ParamsTyped'
    <4>1. PICK k \in Params : Updates(k)
      BY <2>17
    <4>2. Range \in Values /\ ParamsTyped
      BY DEF Values, TypeOK, ParamsTyped
    <4>3. grub' \in [Kernels -> [Params -> Values]]
      <5>1. \/ grub' = [grub EXCEPT ![running][k] = Range]
            \/ grub' = grub
        BY <4>1 DEF Updates, Entry
      <5> QED  BY <4>2, <5>1 DEF ParamsTyped
    <4>4. UNCHANGED <<default, running, from, cmdline, found>>
      BY <4>1 DEF Updates, machine
    <4> QED  BY <4>2, <4>3, <4>4 DEF ParamsTyped
  <3>2. FlagsTyped'
    BY <2>17, BoundsAssumption DEF Updates, Entry, Fault, files, machine, process, history,
         TypeOK, Values, EnableLists, Configs, Steps, Nothing, FlagsTyped
  <3>3. StepTyped'
    BY <2>17, BoundsAssumption DEF Updates, Entry, Fault, files, machine, process, history,
         TypeOK, Values, EnableLists, Configs, Steps, Nothing, StepTyped
  <3>4. SetsTyped'
    BY <2>17, BoundsAssumption DEF Updates, Entry, Fault, files, machine, process, history,
         TypeOK, Values, EnableLists, Configs, Steps, Nothing, SetsTyped
  <3>5. CountersTyped'
    BY <2>17, BoundsAssumption DEF Updates, Entry, Fault, files, machine, process, history,
         TypeOK, Values, EnableLists, Configs, Steps, Nothing, CountersTyped
  <3>6. AskedTyped'
    BY <2>17, BoundsAssumption DEF Updates, Entry, Fault, files, machine, process, history,
         TypeOK, Values, EnableLists, Configs, Steps, Nothing, AskedTyped
  <3>7. QED
    BY <3>1, <3>2, <3>3, <3>4, <3>5, <3>6 DEF TypeOK, ParamsTyped, FlagsTyped, StepTyped,
         SetsTyped, CountersTyped, AskedTyped
<2>18. CASE \E k \in Params : RollsBack(k)
  <3>1. ParamsTyped'
    <4>1. PICK k \in Params : RollsBack(k)
      BY <2>18
    <4>2. RollbackValue(k) \in Values /\ ParamsTyped
      BY DEF RollbackValue, Values, TypeOK, ParamsTyped
    <4>3. grub' \in [Kernels -> [Params -> Values]]
      <5>1. \/ grub' = [grub EXCEPT ![running][k] = RollbackValue(k)]
            \/ grub' = grub
        BY <4>1 DEF RollsBack, Entry
      <5> QED  BY <4>2, <5>1 DEF ParamsTyped
    <4>4. UNCHANGED <<default, running, from, cmdline, found>>
      BY <4>1 DEF RollsBack, machine
    <4> QED  BY <4>2, <4>3, <4>4 DEF ParamsTyped
  <3>2. FlagsTyped'
    BY <2>18, BoundsAssumption DEF RollsBack, Entry, RollbackValue, Fault, files, machine,
         process, history, TypeOK, Values, EnableLists, Configs, Steps, Nothing, FlagsTyped
  <3>3. StepTyped'
    BY <2>18, BoundsAssumption DEF RollsBack, Entry, RollbackValue, Fault, files, machine,
         process, history, TypeOK, Values, EnableLists, Configs, Steps, Nothing, StepTyped
  <3>4. SetsTyped'
    BY <2>18, BoundsAssumption DEF RollsBack, Entry, RollbackValue, Fault, files, machine,
         process, history, TypeOK, Values, EnableLists, Configs, Steps, Nothing, SetsTyped
  <3>5. CountersTyped'
    BY <2>18, BoundsAssumption DEF RollsBack, Entry, RollbackValue, Fault, files, machine,
         process, history, TypeOK, Values, EnableLists, Configs, Steps, Nothing, CountersTyped
  <3>6. AskedTyped'
    BY <2>18, BoundsAssumption DEF RollsBack, Entry, RollbackValue, Fault, files, machine,
         process, history, TypeOK, Values, EnableLists, Configs, Steps, Nothing, AskedTyped
  <3>7. QED
    BY <3>1, <3>2, <3>3, <3>4, <3>5, <3>6 DEF TypeOK, ParamsTyped, FlagsTyped, StepTyped,
         SetsTyped, CountersTyped, AskedTyped
<2>19. CASE \E k \in Params : Removes(k)
  <3>1. ParamsTyped'
    <4>1. PICK k \in Params : Removes(k)
      BY <2>19
    <4>2. NoParam \in Values /\ ParamsTyped
      BY DEF Values, TypeOK, ParamsTyped
    <4>3. grub' \in [Kernels -> [Params -> Values]]
      <5>1. \/ grub' = [grub EXCEPT ![running][k] = NoParam]
            \/ grub' = grub
        BY <4>1 DEF Removes, Entry
      <5> QED  BY <4>2, <5>1 DEF ParamsTyped
    <4>4. UNCHANGED <<default, running, from, cmdline, found>>
      BY <4>1 DEF Removes, machine
    <4> QED  BY <4>2, <4>3, <4>4 DEF ParamsTyped
  <3>2. FlagsTyped'
    BY <2>19, BoundsAssumption DEF Removes, Entry, Fault, files, machine, process, history,
         TypeOK, Values, EnableLists, Configs, Steps, Nothing, FlagsTyped
  <3>3. StepTyped'
    BY <2>19, BoundsAssumption DEF Removes, Entry, Fault, files, machine, process, history,
         TypeOK, Values, EnableLists, Configs, Steps, Nothing, StepTyped
  <3>4. SetsTyped'
    BY <2>19, BoundsAssumption DEF Removes, Entry, Fault, files, machine, process, history,
         TypeOK, Values, EnableLists, Configs, Steps, Nothing, SetsTyped
  <3>5. CountersTyped'
    BY <2>19, BoundsAssumption DEF Removes, Entry, Fault, files, machine, process, history,
         TypeOK, Values, EnableLists, Configs, Steps, Nothing, CountersTyped
  <3>6. AskedTyped'
    BY <2>19, BoundsAssumption DEF Removes, Entry, Fault, files, machine, process, history,
         TypeOK, Values, EnableLists, Configs, Steps, Nothing, AskedTyped
  <3>7. QED
    BY <3>1, <3>2, <3>3, <3>4, <3>5, <3>6 DEF TypeOK, ParamsTyped, FlagsTyped, StepTyped,
         SetsTyped, CountersTyped, AskedTyped
<2>20. CASE UNCHANGED vars
  BY <2>20, BoundsAssumption DEF vars, files, machine, process, history, TypeOK, Values,
       EnableLists, Configs, Steps, Nothing
<2>21. QED
  BY <2>1, <2>2, <2>3, <2>4, <2>5, <2>6, <2>7, <2>8, <2>9, <2>10, <2>11, <2>12, <2>13, <2>14,
       <2>15, <2>16, <2>17, <2>18, <2>19, <2>20 DEF Next
<1>3. QED
  BY <1>1, <1>2, PTL DEF Spec

-----------------------------------------------------------------------------
(* Safety                                                                  *)

\* Whatever dies between two commands of Enable and Disable, no parameter that
\* realtime_tune wrote is orphaned in an entry of the boot loader: the tuner is on
\* the enable list, unless the last write of that list failed, a command failed to
\* take the parameter back, or a Disable ran under another kernel.
THEOREM NeverOrphaned == Spec => []ListedWhileInstalled
<1>1. Init => ListedInv
  BY ValuesAssumption DEF Init, ListedInv, ListedWhileInstalled, Listed, Configs
<1>2. TypeOK /\ ListedInv /\ [Next]_vars => ListedInv'
<2> SUFFICES ASSUME TypeOK, ListedInv, [Next]_vars PROVE ListedInv'
  OBVIOUS
<2>1. CASE Enable
  BY <2>1, ValuesAssumption DEF Enable, BeginEnable, KeptPromise, ParseFromSwitchConfig,
       GenerateExpectedKernelParams, FirstStep, Call, files, machine, process, history, TypeOK,
       ListedInv, ListedWhileInstalled, Listed, EnableLists, Configs
<2>2. CASE Disable(FALSE)
  BY <2>2, ValuesAssumption DEF Disable, KeepsParams, Elsewhere, Call, files, machine, process,
       history, TypeOK, ListedInv, ListedWhileInstalled, Listed, EnableLists, Configs
<2>3. CASE Disable(TRUE)
  BY <2>3, ValuesAssumption DEF Disable, KeepsParams, Elsewhere, Call, files, machine, process,
       history, TypeOK, ListedInv, ListedWhileInstalled, Listed, EnableLists, Configs
<2>4. CASE Exit
  BY <2>4, ValuesAssumption DEF Exit, Call, files, machine, process, history, TypeOK, ListedInv,
       ListedWhileInstalled, Listed, EnableLists, Configs
<2>5. CASE Dies
  BY <2>5, ValuesAssumption DEF Dies, Call, files, machine, process, history, TypeOK, ListedInv,
       ListedWhileInstalled, Listed, EnableLists, Configs
<2>6. CASE Boots
  BY <2>6, ValuesAssumption DEF Boots, Call, files, machine, process, history, TypeOK, ListedInv,
       ListedWhileInstalled, Listed, EnableLists, Configs
<2>7. CASE Starts
  BY <2>7, ValuesAssumption DEF Starts, BeginEnable, KeptPromise, ParseFromSwitchConfig,
       GenerateExpectedKernelParams, FirstStep, Call, files, machine, process, history, TypeOK,
       ListedInv, ListedWhileInstalled, Listed, EnableLists, Configs
<2>8. CASE Edits
  BY <2>8, ValuesAssumption DEF Edits, files, machine, process, history, TypeOK, ListedInv,
       ListedWhileInstalled, Listed, EnableLists, Configs
<2>9. CASE SetsDefault
  BY <2>9, ValuesAssumption DEF SetsDefault, Call, files, machine, process, history, TypeOK,
       ListedInv, ListedWhileInstalled, Listed, EnableLists, Configs
<2>10. CASE Lists
  BY <2>10, ValuesAssumption DEF Lists, AddRealtimeTuneToConfig, WriteFails, Fault, EnableLists,
       files, machine, process, history, TypeOK, ListedInv, ListedWhileInstalled, Listed, Configs
<2>11. CASE EnableFails
  BY <2>11, ValuesAssumption DEF EnableFails, Fault, files, machine, process, history, TypeOK,
       ListedInv, ListedWhileInstalled, Listed, EnableLists, Configs
<2>12. CASE Updated
  BY <2>12, ValuesAssumption DEF Updated, files, machine, process, history, TypeOK, ListedInv,
       ListedWhileInstalled, Listed, EnableLists, Configs
<2>13. CASE MakesConfig
  BY <2>13, ValuesAssumption DEF MakesConfig, Fault, files, machine, process, history, TypeOK,
       ListedInv, ListedWhileInstalled, Listed, EnableLists, Configs
<2>14. CASE RolledBackAll
  BY <2>14, ValuesAssumption DEF RolledBackAll, files, machine, process, history, TypeOK,
       ListedInv, ListedWhileInstalled, Listed, EnableLists, Configs
<2>15. CASE Enables
  BY <2>15, ValuesAssumption DEF Enables, AddRealtimeTuneToConfig, WriteFails, Fault, EnableLists,
       files, machine, process, history, TypeOK, ListedInv, ListedWhileInstalled, Listed, Configs
<2>16. CASE Unlists
  BY <2>16, ValuesAssumption DEF Unlists, RemoveRealtimeTuneFromConfig, WriteFails, Fault,
       EnableLists, files, machine, process, history, TypeOK, ListedInv, ListedWhileInstalled,
       Listed, Configs
<2>17. CASE \E k \in Params : Updates(k)
  BY <2>17, ValuesAssumption DEF Updates, Entry, Fault, files, machine, process, history, TypeOK,
       ListedInv, ListedWhileInstalled, Listed, EnableLists, Configs
<2>18. CASE \E k \in Params : RollsBack(k)
  BY <2>18, ValuesAssumption DEF RollsBack, Entry, RollbackValue, Fault, files, machine, process,
       history, TypeOK, ListedInv, ListedWhileInstalled, Listed, EnableLists, Configs
<2>19. CASE \E k \in Params : Removes(k)
  BY <2>19, ValuesAssumption DEF Removes, Entry, Fault, files, machine, process, history, TypeOK,
       ListedInv, ListedWhileInstalled, Listed, EnableLists, Configs
<2>20. CASE UNCHANGED vars
  BY <2>20, ValuesAssumption DEF vars, files, machine, process, history, TypeOK, ListedInv,
       ListedWhileInstalled, Listed, EnableLists, Configs
<2>21. QED
  BY <2>1, <2>2, <2>3, <2>4, <2>5, <2>6, <2>7, <2>8, <2>9, <2>10, <2>11, <2>12, <2>13, <2>14,
       <2>15, <2>16, <2>17, <2>18, <2>19, <2>20 DEF Next
<1>3. ListedInv => ListedWhileInstalled
  BY DEF ListedInv
<1>4. QED
  BY <1>1, <1>2, <1>3, TypeCorrect, PTL DEF Spec

\* A failed update of the kernel parameters leaves the entry of the running kernel
\* as Enable found it, if it is the default one, but for the commands of the
\* rollback that failed and for parameters without a value.
THEOREM UpdateRollsBack == Spec => []RollbackRestores
<1>1. Init => RollbackInv
  BY DEF Init, RollbackInv
<1>2. TypeOK /\ RollbackInv /\ [Next]_vars => RollbackInv'
<2> SUFFICES ASSUME TypeOK, RollbackInv, [Next]_vars PROVE RollbackInv'
  OBVIOUS
<2>1. CASE Enable
  BY <2>1, ValuesAssumption DEF Enable, BeginEnable, KeptPromise, ParseFromSwitchConfig,
       GenerateExpectedKernelParams, FirstStep, Call, files, machine, process, history, TypeOK,
       RollbackInv
<2>2. CASE Disable(FALSE)
  BY <2>2, ValuesAssumption DEF Disable, KeepsParams, Elsewhere, Call, files, machine, process,
       history, TypeOK, RollbackInv
<2>3. CASE Disable(TRUE)
  BY <2>3, ValuesAssumption DEF Disable, KeepsParams, Elsewhere, Call, files, machine, process,
       history, TypeOK, RollbackInv
<2>4. CASE Exit
  BY <2>4, ValuesAssumption DEF Exit, Call, files, machine, process, history, TypeOK, RollbackInv
<2>5. CASE Dies
  BY <2>5, ValuesAssumption DEF Dies, Call, files, machine, process, history, TypeOK, RollbackInv
<2>6. CASE Boots
  BY <2>6, ValuesAssumption DEF Boots, Call, files, machine, process, history, TypeOK, RollbackInv
<2>7. CASE Starts
  BY <2>7, ValuesAssumption DEF Starts, BeginEnable, KeptPromise, ParseFromSwitchConfig,
       GenerateExpectedKernelParams, FirstStep, Call, files, machine, process, history, TypeOK,
       RollbackInv
<2>8. CASE Edits
  BY <2>8, ValuesAssumption DEF Edits, files, machine, process, history, TypeOK, RollbackInv
<2>9. CASE SetsDefault
  BY <2>9, ValuesAssumption DEF SetsDefault, Call, files, machine, process, history, TypeOK,
       RollbackInv
<2>10. CASE Lists
  BY <2>10, ValuesAssumption DEF Lists, AddRealtimeTuneToConfig, WriteFails, Fault, EnableLists,
       files, machine, process, history, TypeOK, RollbackInv
<2>11. CASE EnableFails
  BY <2>11, ValuesAssumption DEF EnableFails, Fault, files, machine, process, history, TypeOK,
       RollbackInv
<2>12. CASE Updated
  BY <2>12, ValuesAssumption DEF Updated, files, machine, process, history, TypeOK, RollbackInv
<2>13. CASE MakesConfig
  BY <2>13, ValuesAssumption DEF MakesConfig, Fault, files, machine, process, history, TypeOK,
       RollbackInv
<2>14. CASE RolledBackAll
  BY <2>14, ValuesAssumption DEF RolledBackAll, files, machine, process, history, TypeOK,
       RollbackInv
<2>15. CASE Enables
  BY <2>15, ValuesAssumption DEF Enables, AddRealtimeTuneToConfig, WriteFails, Fault, EnableLists,
       files, machine, process, history, TypeOK, RollbackInv
<2>16. CASE Unlists
  BY <2>16, ValuesAssumption DEF Unlists, RemoveRealtimeTuneFromConfig, WriteFails, Fault,
       EnableLists, files, machine, process, history, TypeOK, RollbackInv
<2>17. CASE \E k \in Params : Updates(k)
  BY <2>17, ValuesAssumption DEF Updates, Entry, Fault, files, machine, process, history, TypeOK,
       RollbackInv
<2>18. CASE \E k \in Params : RollsBack(k)
  BY <2>18, ValuesAssumption DEF RollsBack, Entry, RollbackValue, Fault, files, machine, process,
       history, TypeOK, RollbackInv
<2>19. CASE \E k \in Params : Removes(k)
  BY <2>19, ValuesAssumption DEF Removes, Entry, Fault, files, machine, process, history, TypeOK,
       RollbackInv
<2>20. CASE UNCHANGED vars
  BY <2>20, ValuesAssumption DEF vars, files, machine, process, history, TypeOK, RollbackInv
<2>21. QED
  BY <2>1, <2>2, <2>3, <2>4, <2>5, <2>6, <2>7, <2>8, <2>9, <2>10, <2>11, <2>12, <2>13, <2>14,
       <2>15, <2>16, <2>17, <2>18, <2>19, <2>20 DEF Next
<1>3. RollbackInv => RollbackRestores
  BY DEF RollbackInv, RollbackRestores
<1>4. QED
  BY <1>1, <1>2, <1>3, TypeCorrect, PTL DEF Spec

\* What an Enable that compared with the entry of the running kernel promised is in
\* effect after the reboot it asked for into that entry, whether the service was
\* stopped before it or died; and the tuner is listed, unless the last write of
\* config.yaml failed.
THEOREM PromisedIsInEffect == Spec => []InEffectAfterReboot
<1>1. Init => EffectInv
  BY DEF Init, EffectInv, Nothing
<1>2. TypeOK /\ EffectInv /\ [Next]_vars => EffectInv'
<2> SUFFICES ASSUME TypeOK, EffectInv, [Next]_vars PROVE EffectInv'
  OBVIOUS
<2>1. CASE Enable
  BY <2>1, ValuesAssumption DEF Enable, BeginEnable, KeptPromise, ParseFromSwitchConfig,
       GenerateExpectedKernelParams, FirstStep, Call, files, machine, process, history, TypeOK,
       EffectInv, Listed, EnableLists, Nothing
<2>2. CASE Disable(FALSE)
  BY <2>2, ValuesAssumption DEF Disable, KeepsParams, Elsewhere, Call, files, machine, process,
       history, TypeOK, EffectInv, Listed, EnableLists, Nothing
<2>3. CASE Disable(TRUE)
  BY <2>3, ValuesAssumption DEF Disable, KeepsParams, Elsewhere, Call, files, machine, process,
       history, TypeOK, EffectInv, Listed, EnableLists, Nothing
<2>4. CASE Exit
  BY <2>4, ValuesAssumption DEF Exit, Call, files, machine, process, history, TypeOK, EffectInv,
       Listed, EnableLists, Nothing
<2>5. CASE Dies
  BY <2>5, ValuesAssumption DEF Dies, Call, files, machine, process, history, TypeOK, EffectInv,
       Listed, EnableLists, Nothing
<2>6. CASE Boots
  BY <2>6, ValuesAssumption DEF Boots, Call, files, machine, process, history, TypeOK, EffectInv,
       Listed, EnableLists, Nothing
<2>7. CASE Starts
  BY <2>7, ValuesAssumption DEF Starts, BeginEnable, KeptPromise, ParseFromSwitchConfig,
       GenerateExpectedKernelParams, FirstStep, Call, files, machine, process, history, TypeOK,
       EffectInv, Listed, EnableLists, Nothing
<2>8. CASE Edits
  BY <2>8, ValuesAssumption DEF Edits, files, machine, process, history, TypeOK, EffectInv,
       Listed, EnableLists, Nothing
<2>9. CASE SetsDefault
  BY <2>9, ValuesAssumption DEF SetsDefault, Call, files, machine, process, history, TypeOK,
       EffectInv, Listed, EnableLists, Nothing
<2>10. CASE Lists
  BY <2>10, ValuesAssumption DEF Lists, AddRealtimeTuneToConfig, WriteFails, Fault, EnableLists,
       files, machine, process, history, TypeOK, EffectInv, Listed, Nothing
<2>11. CASE EnableFails
  BY <2>11, ValuesAssumption DEF EnableFails, Fault, files, machine, process, history, TypeOK,
       EffectInv, Listed, EnableLists, Nothing
<2>12. CASE Updated
  BY <2>12, ValuesAssumption DEF Updated, files, machine, process, history, TypeOK, EffectInv,
       Listed, EnableLists, Nothing
<2>13. CASE MakesConfig
  BY <2>13, ValuesAssumption DEF MakesConfig, Fault, files, machine, process, history, TypeOK,
       EffectInv, Listed, EnableLists, Nothing
<2>14. CASE RolledBackAll
  BY <2>14, ValuesAssumption DEF RolledBackAll, files, machine, process, history, TypeOK,
       EffectInv, Listed, EnableLists, Nothing
<2>15. CASE Enables
  BY <2>15, ValuesAssumption DEF Enables, AddRealtimeTuneToConfig, WriteFails, Fault, EnableLists,
       files, machine, process, history, TypeOK, EffectInv, Listed, Nothing
<2>16. CASE Unlists
  BY <2>16, ValuesAssumption DEF Unlists, RemoveRealtimeTuneFromConfig, WriteFails, Fault,
       EnableLists, files, machine, process, history, TypeOK, EffectInv, Listed, Nothing
<2>17. CASE \E k \in Params : Updates(k)
  BY <2>17, ValuesAssumption DEF Updates, Entry, Fault, files, machine, process, history, TypeOK,
       EffectInv, Listed, EnableLists, Nothing
<2>18. CASE \E k \in Params : RollsBack(k)
  BY <2>18, ValuesAssumption DEF RollsBack, Entry, RollbackValue, Fault, files, machine, process,
       history, TypeOK, EffectInv, Listed, EnableLists, Nothing
<2>19. CASE \E k \in Params : Removes(k)
  BY <2>19, ValuesAssumption DEF Removes, Entry, Fault, files, machine, process, history, TypeOK,
       EffectInv, Listed, EnableLists, Nothing
<2>20. CASE UNCHANGED vars
  BY <2>20, ValuesAssumption DEF vars, files, machine, process, history, TypeOK, EffectInv,
       Listed, EnableLists, Nothing
<2>21. QED
  BY <2>1, <2>2, <2>3, <2>4, <2>5, <2>6, <2>7, <2>8, <2>9, <2>10, <2>11, <2>12, <2>13, <2>14,
       <2>15, <2>16, <2>17, <2>18, <2>19, <2>20 DEF Next
<1>3. EffectInv => InEffectAfterReboot
  BY DEF EffectInv, InEffectAfterReboot
<1>4. QED
  BY <1>1, <1>2, <1>3, TypeCorrect, PTL DEF Spec
=============================================================================
