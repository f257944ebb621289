---------------------------- MODULE RealtimeTune ----------------------------
(***************************************************************************)
(* The part of realtime_tune that outlives the process.  Enable writes the *)
(* CPU isolation parameters of the kernel into the boot loader and puts    *)
(* the tuner on the enable list of config.yaml, so that it is enabled      *)
(* again after the reboot the parameters need; Disable, which Exit calls   *)
(* too when the machine goes down, takes both away unless isRebooting says *)
(* that the parameters still wait for their reboot.  Enable compares with  *)
(* the boot entry that is the default, and changes that of the kernel that *)
(* runs.  Every command may fail, a write of config.yaml unnoticed, and    *)
(* the process or the machine may die between two of them.  The settings   *)
(* that need no reboot are in TuneSettings.tla.                            *)
(***************************************************************************)
EXTENDS Integers

CONSTANTS
  Kernels,     \* the entries of the boot loader
  Params,      \* KERNEL_PARAM_KEYS
  NoParam,     \* a parameter that is not on the command line
  Bare,        \* a parameter without a value, set by the administrator
  Range,       \* the value realtime_tune.yaml asks for
  Other,       \* any other value, set by the administrator
  MaxCalls,    \* bound: commands of the user, stops, deaths, boots, starts, new defaults
  MaxFaults,   \* bound: commands of the tuner that fail
  MaxEdits     \* bound: changes of realtime_tune.yaml

ASSUME ValuesAssumption ==
  /\ NoParam # Range /\ NoParam # Other /\ Range # Other
  /\ Bare # NoParam /\ Bare # Range /\ Bare # Other
ASSUME KernelsAssumption == Kernels # {}
ASSUME BoundsAssumption == MaxCalls \in Nat /\ MaxFaults \in Nat /\ MaxEdits \in Nat

VARIABLES
  grub,        \* the parameters of each boot entry
  default,     \* the entry of the next boot
  running,     \* the entry of this boot: uname -r
  cmdline,     \* the parameters of this boot
  list,        \* the enable list: "absent", "named", "every" instance of the plugin, or
               \* "broken": config.yaml is not one that the service starts with
  config,      \* realtime_tune.yaml
  up, enabled, isRebooting,
  switchConfig,\* the parameters that were on when Enable read the file
  doing,       \* the step the call in progress is at
  left,        \* the parameters this step has yet to do
  updated, failed, \* updatedParams; failedUpdates is not empty
  from, found, \* the entry that Enable read, and its parameters
  exiting,     \* the Disable is Exit's
  calls, faults, edits,
  unsaved,     \* history: the last write of config.yaml failed
  stuck,       \* history: parameters of an entry that a command failed to take back, or
               \* that a Disable left in the entry of another kernel
  asked        \* history: what the last Enable promised the next boot

files == <<grub, default, list, config>>
machine == <<running, cmdline>>
process == <<up, enabled, isRebooting, switchConfig, doing, left, updated, failed, from, found, exiting>>
history == <<calls, faults, edits, unsaved, stuck, asked>>
vars == <<files, machine, process, history>>

Values == {NoParam, Bare, Range, Other}
EnableLists == {"absent", "named", "every", "broken"}
Listed == list \in {"named", "every"}
\* range is "0" or empty, names CPUs, or is refused by ValidateCpuRange; only with
\* CPUs do the features count.
Configs ==
  {c \in [range : {"0", "cpus", "invalid"}, features : SUBSET Params] :
     c.range = "cpus" \/ c.features = {}}
Steps == {"none", "list", "update", "mkconfig", "rollback", "relist", "remove", "unlist"}
Nothing == [phase |-> "nothing", params |-> {}]

Init ==
  /\ grub \in [Kernels -> [Params -> {NoParam, Bare, Other}]]
  /\ default \in Kernels /\ running \in Kernels /\ cmdline = grub[running]
  /\ list \in {"absent", "every"}
  /\ config \in {c \in Configs : c.range = "cpus" /\ c.features = Params}
  /\ up = FALSE /\ enabled = FALSE /\ isRebooting = FALSE /\ switchConfig = {}
  /\ doing = "none" /\ left = {} /\ updated = {} /\ failed = FALSE /\ exiting = FALSE
  /\ from = default /\ found = grub[default]
  /\ calls = 0 /\ faults = 0 /\ edits = 0 /\ unsaved = FALSE /\ stuck = {} /\ asked = Nothing

Call == calls < MaxCalls /\ calls' = calls + 1
Fault == faults < MaxFaults /\ faults' = faults + 1

-----------------------------------------------------------------------------
(* Enable                                                                  *)

\* Mutant: the enable list is left to the end.
ListLast == "update"
\* Enable lists the tuner before it changes anything else.
FirstStep == "list"

ParseFromSwitchConfig == IF config.range = "cpus" THEN config.features ELSE {}

\* The parameters that the default entry does not have as expected.
GenerateExpectedKernelParams(on) == {k \in on : grub[default][k] # Range}

BeginEnable ==
  /\ switchConfig' = ParseFromSwitchConfig
  /\ doing' = IF config.range = "invalid" THEN "none" ELSE FirstStep
  /\ left' = GenerateExpectedKernelParams(ParseFromSwitchConfig)
  /\ updated' = {} /\ failed' = FALSE /\ from' = default /\ found' = grub[default]

\* A new Enable that compares with another entry than the one of this kernel is
\* not held to what an earlier one promised.
KeptPromise == IF asked.phase = "booted" /\ default # running THEN Nothing ELSE asked

Enable ==
  /\ up /\ doing = "none" /\ ~enabled /\ Call
  /\ BeginEnable
  /\ asked' = IF asked.phase \in {"closed", "off"} THEN Nothing ELSE KeptPromise
  /\ UNCHANGED <<files, machine, up, enabled, isRebooting, exiting, faults, edits, unsaved, stuck>>

\* Neither the opening nor the writing of config.yaml is checked: the file keeps
\* what it had, or a beginning of what was to be written.
WriteFails == Fault /\ list' \in EnableLists /\ unsaved' = TRUE

\* An entry that names no instances is left alone.  A file that was cut short gets
\* an enable list and still lacks the rest.
AddRealtimeTuneToConfig ==
  \/ list \in {"every", "broken"} /\ UNCHANGED <<list, unsaved, faults>>
  \/ /\ list \in {"absent", "named"}
     /\ \/ list' = "named" /\ unsaved' = FALSE /\ UNCHANGED faults
        \/ WriteFails

Lists ==
  /\ doing = "list" /\ AddRealtimeTuneToConfig
  /\ doing' = IF switchConfig = {} THEN "relist" ELSE "update"
  /\ UNCHANGED <<grub, default, config, machine, up, enabled, isRebooting, switchConfig, left,
                 updated, failed, from, found, exiting, calls, edits, stuck, asked>>

\* config.yaml cannot be loaded, or grubby is missing: Enable returns FAILED.
EnableFails ==
  /\ \/ doing \in {"list", "relist"} /\ (Fault \/ (list = "broken" /\ UNCHANGED faults))
     \/ doing = "update" /\ updated = {} /\ Fault
  /\ doing' = "none"
  /\ UNCHANGED <<files, machine, up, enabled, isRebooting, switchConfig, left, updated, failed,
                 from, found, exiting, calls, edits, unsaved, stuck, asked>>

\* The entry that grubby changes: that of the kernel uname -r names.
Entry == running

Updates(k) ==
  /\ doing = "update" /\ k \in left
  /\ left' = left \ {k} /\ updated' = updated \cup {k}
  /\ \/ grub' = [grub EXCEPT ![Entry][k] = Range] /\ UNCHANGED <<failed, faults>>
     \/ failed' = TRUE /\ Fault /\ UNCHANGED grub
  /\ UNCHANGED <<default, list, config, machine, up, enabled, isRebooting, switchConfig, doing, from,
                 found, exiting, calls, edits, unsaved, stuck, asked>>

\* isRebooting is set before grub2-mkconfig has run, and stays when it fails.
Updated ==
  /\ doing = "update" /\ left = {}
  /\ doing' = IF failed THEN "rollback" ELSE IF updated = {} THEN "relist" ELSE "mkconfig"
  /\ left' = IF failed THEN updated ELSE {}
  /\ isRebooting' = (isRebooting \/ (~failed /\ updated # {}))
  /\ UNCHANGED <<files, machine, up, enabled, switchConfig, updated, failed, from, found, exiting,
                 history>>

MakesConfig ==
  /\ doing = "mkconfig"
  /\ \/ doing' = "relist" /\ UNCHANGED <<left, faults>>
     \/ doing' = "rollback" /\ left' = updated /\ Fault
  /\ UNCHANGED <<files, machine, up, enabled, isRebooting, switchConfig, updated, failed, from,
                 found, exiting, calls, edits, unsaved, stuck, asked>>

\* Mutant: a rollback always removes.
RollbackRemoves(k) == NoParam
\* A parameter that is not set and one that has no value are both kept as "",
\* which a rollback removes.
RollbackValue(k) == IF found[k] = Bare THEN NoParam ELSE found[k]

RollsBack(k) ==
  /\ doing = "rollback" /\ k \in left /\ left' = left \ {k}
  /\ \/ grub' = [grub EXCEPT ![Entry][k] = RollbackValue(k)] /\ UNCHANGED <<faults, stuck>>
     \/ Fault /\ stuck' = stuck \cup {<<running, k>>} /\ UNCHANGED grub
  /\ UNCHANGED <<default, list, config, machine, up, enabled, isRebooting, switchConfig, doing,
                 updated, failed, from, found, exiting, calls, edits, unsaved, asked>>

RolledBackAll ==
  /\ doing = "rollback" /\ left = {} /\ doing' = "none"
  /\ UNCHANGED <<files, machine, up, enabled, isRebooting, switchConfig, left, updated, failed,
                 from, found, exiting, history>>

\* The tuner is listed again, and enabled.  What is not set in the entry of this
\* kernel is promised for its next boot if this was the entry compared with.
Enables ==
  /\ doing = "relist" /\ AddRealtimeTuneToConfig
  /\ enabled' = TRUE /\ doing' = "none"
  /\ asked' = IF ~isRebooting THEN asked
              ELSE IF from # running THEN Nothing
              ELSE [phase |-> "asked", params |-> switchConfig]
  /\ UNCHANGED <<grub, default, config, machine, up, isRebooting, switchConfig, left, updated,
                 failed, from, found, exiting, calls, edits, stuck>>

-----------------------------------------------------------------------------
(* Disable                                                                 *)

\* Mutant: the parameters that wait for their reboot are removed as well.
NeverKeeps == FALSE
KeepsParams == isRebooting

\* The parameters in the entries of other kernels, which no one will remove.
Elsewhere ==
  {p \in Kernels \X Params : p[1] # running /\ grub[p[1]][p[2]] = Range}

\* exit: the call is Exit's, which ends the process.
Disable(exit) ==
  /\ up /\ doing = "none" /\ enabled /\ Call
  /\ enabled' = FALSE
  /\ isRebooting' = FALSE
  /\ doing' = IF KeepsParams THEN "none" ELSE IF switchConfig = {} THEN "unlist" ELSE "remove"
  /\ left' = IF KeepsParams THEN {} ELSE switchConfig
  /\ up' = ~(exit /\ KeepsParams)
  /\ exiting' = (exit /\ ~KeepsParams)
  /\ asked' = IF exit THEN IF isRebooting THEN asked ELSE Nothing
              ELSE [phase |-> "closed", params |-> {}]
  /\ stuck' = IF KeepsParams THEN stuck ELSE stuck \cup Elsewhere
  /\ UNCHANGED <<files, machine, switchConfig, updated, failed, from, found, faults, edits, unsaved>>

\* A failure is logged; so is one of grub2-mkconfig.
Removes(k) ==
  /\ doing = "remove" /\ k \in left /\ left' = left \ {k}
  /\ \/ grub' = [grub EXCEPT ![Entry][k] = NoParam] /\ UNCHANGED <<faults, stuck>>
     \/ Fault /\ stuck' = stuck \cup {<<running, k>>} /\ UNCHANGED grub
  /\ UNCHANGED <<default, list, config, machine, up, enabled, isRebooting, switchConfig, doing,
                 updated, failed, from, found, exiting, calls, edits, unsaved, asked>>

\* A file that cannot be loaded stays; so does an entry that names no instances.
RemoveRealtimeTuneFromConfig ==
  \/ list \in {"every", "broken"} /\ UNCHANGED <<list, unsaved, faults>>
  \/ /\ list \in {"absent", "named"}
     /\ \/ list' = "absent" /\ unsaved' = FALSE /\ UNCHANGED faults
        \/ WriteFails
        \/ Fault /\ UNCHANGED <<list, unsaved>>

Unlists ==
  /\ doing = "unlist" \/ (doing = "remove" /\ left = {})
  /\ RemoveRealtimeTuneFromConfig
  /\ doing' = "none" /\ up' = ~exiting /\ exiting' = FALSE
  /\ UNCHANGED <<grub, default, config, machine, enabled, isRebooting, switchConfig, left, updated,
                 failed, from, found, calls, edits, stuck, asked>>

-----------------------------------------------------------------------------
(* The process, the machine and the administrator                          *)

Exit ==
  /\ up /\ doing = "none" /\ ~enabled /\ Call
  /\ up' = FALSE /\ isRebooting' = FALSE
  /\ UNCHANGED <<files, machine, enabled, switchConfig, doing, left, updated, failed, from, found,
                 exiting, faults, edits, unsaved, stuck, asked>>

\* The process dies, or the machine with it.
Dies ==
  /\ up /\ Call
  /\ up' = FALSE /\ enabled' = FALSE /\ isRebooting' = FALSE /\ doing' = "none" /\ exiting' = FALSE
  /\ UNCHANGED <<files, machine, switchConfig, left, updated, failed, from, found, faults, edits,
                 unsaved, stuck, asked>>

\* A promise is for the next boot of the same kernel.
Boots ==
  /\ ~up /\ Call
  /\ running' = default /\ cmdline' = grub[default]
  /\ asked' = CASE asked.phase = "closed" -> [asked EXCEPT !.phase = "off"]
                [] asked.phase \in {"asked", "booted"} ->
                     IF default = running THEN [asked EXCEPT !.phase = "booted"] ELSE Nothing
                [] OTHER -> asked
  /\ UNCHANGED <<files, process, faults, edits, unsaved, stuck>>

\* Without a config.yaml that can be loaded the service does not start.
\* PreEnable: what the enable list names is enabled.
Starts ==
  /\ ~up /\ list # "broken" /\ Call
  /\ up' = TRUE
  /\ IF list = "absent" THEN UNCHANGED <<switchConfig, doing, left, updated, failed, from, found>>
                        ELSE BeginEnable
  /\ asked' = IF asked.phase = "asked" THEN Nothing ELSE KeptPromise
  /\ UNCHANGED <<files, machine, enabled, isRebooting, exiting, faults, edits, unsaved, stuck>>

Edits ==
  /\ edits < MaxEdits /\ edits' = edits + 1
  /\ config' \in Configs \ {config}
  /\ UNCHANGED <<grub, default, list, machine, process, calls, faults, unsaved, stuck, asked>>

\* The administrator, or the installation of a kernel, changes the default entry.
SetsDefault ==
  /\ Call /\ default' \in Kernels \ {default}
  /\ UNCHANGED <<grub, list, config, machine, process, faults, edits, unsaved, stuck, asked>>

Next ==
  \/ Enable \/ Disable(FALSE) \/ Disable(TRUE) \/ Exit \/ Dies \/ Boots \/ Starts \/ Edits \/ SetsDefault
  \/ Lists \/ EnableFails \/ Updated \/ MakesConfig \/ RolledBackAll \/ Enables \/ Unlists
  \/ \E k \in Params : Updates(k) \/ RollsBack(k) \/ Removes(k)

Spec == Init /\ [][Next]_vars

-----------------------------------------------------------------------------
(* Properties                                                              *)

TypeOK ==
  /\ grub \in [Kernels -> [Params -> Values]]
  /\ default \in Kernels /\ running \in Kernels /\ from \in Kernels
  /\ cmdline \in [Params -> Values] /\ found \in [Params -> Values]
  /\ list \in EnableLists /\ config \in Configs
  /\ up \in BOOLEAN /\ enabled \in BOOLEAN /\ isRebooting \in BOOLEAN /\ exiting \in BOOLEAN
  /\ failed \in BOOLEAN /\ unsaved \in BOOLEAN /\ doing \in Steps
  /\ switchConfig \subseteq Params /\ left \subseteq Params /\ updated \subseteq Params
  /\ calls \in 0..MaxCalls /\ faults \in 0..MaxFaults /\ edits \in 0..MaxEdits
  /\ stuck \subseteq Kernels \X Params
  /\ asked \in [phase : {"nothing", "asked", "booted", "closed", "off"}, params : SUBSET Params]

\* Whatever dies between two commands, a parameter this tuner has in an entry of
\* the boot loader is not orphaned: the tuner is on the enable list, so that the
\* next start finds it again.  The exceptions are a config.yaml whose last write
\* failed, which the tuner does not notice, parameters that a command failed to
\* take back or that a Disable left in the entry of a kernel that was not running,
\* and an edit of realtime_tune.yaml in between.
ListedWhileInstalled ==
  edits = 0 /\ ~unsaved =>
    \A e \in Kernels, k \in Params : <<e, k>> \notin stuck /\ grub[e][k] = Range => Listed

\* A failed update leaves the parameters of the entry it changed as they were,
\* those of the administrator too, but for the commands of the rollback that
\* failed and for parameters without a value, which are removed.  The entry must
\* be the default: the old values are read there.
RollbackRestores ==
  doing = "rollback" /\ left = {} /\ from = running =>
    \A k \in Params : <<running, k>> \notin stuck /\ found[k] # Bare => grub[running][k] = found[k]

\* The promise of an Enable that reported success, for the entry it compared
\* with, holds at the next reboot into that entry, clean or not: the parameters
\* are in effect and the tuner will be enabled, unless the last write of config.yaml
\* failed.  A restart of the process before the reboot forfeits it: see
\* RemovesAfterReboot.
InEffectAfterReboot ==
  asked.phase = "booted" =>
    (unsaved \/ Listed) /\ \A k \in asked.params : cmdline[k] = Range

-----------------------------------------------------------------------------
(* What comments of the code say and the code does not do                  *)

\* Disable keeps the parameters as long as they wait for their reboot; when it
\* removes them, cmdline has them.  Fails: a Disable and a restart of the process
\* both clear isRebooting, and the next Enable finds nothing to update.
RemovesAfterReboot ==
  doing = "remove" /\ faults = 0 /\ edits = 0 => \A k \in left : cmdline[k] = Range

\* After -d and a reboot the tuner is off, unless the list starts every
\* instance.  Fails: a Disable before the first reboot takes nothing away, and
\* the tuner is enabled again after it.
DisabledStaysOff ==
  asked.phase = "off" /\ faults = 0 /\ list # "every" => ~enabled
=============================================================================
