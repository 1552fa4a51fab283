--------------------------- MODULE ScenarioRecipes ---------------------------
(***************************************************************************)
(* What each scenario harness does, as data: the ordered steps of its      *)
(* experiment and the attempts of its recovery.  ScenarioHarness runs      *)
(* these programs.  An object of the cluster is known by the variant of    *)
(* its specification; evidence gathering appears as the state of the       *)
(* cluster it has to find (Await), and fails by raising.                   *)
(***************************************************************************)
EXTENDS Naturals, Sequences

Services == {"payments-api", "risk-sim", "processor-adapter", "webhook-sim"}

\* Objects a harness creates and has to remove again.
Made == {"hpa", "job", "noise", "namespace", "sessions"}

Objects == Services \cup Made \cup {"quota", "limits", "redis", "kubelet"}

\* What the specification of an object is known by.
Variants == {"original", "absent", "foreign", "control", "fault", "enabled", "scaled", "rescaled",
             "off", "owned", "held", "cap1", "cap2", "pressure", "v2"}

\* The state every object is in before a harness touches it.
Home(o) == IF o \in Made THEN "absent" ELSE "original"

-----------------------------------------------------------------------------
(* The steps.                                                              *)

\* Read the restoration source of every object in `on` and keep it in memory.
Capture(on) == <<[op |-> "capture", on |-> on]>>

\* Save to the evidence directory every variant the run may give object o.
Journal(o, variants) == <<[op |-> "journal", specs |-> {o} \X variants]>>

\* Replace the specification of o if it is still one of `from`.
Write(o, from, to) == <<[op |-> "write", o |-> o, from |-> from, to |-> to]>>

\* Put o back to its original, only from one of the run's own variants.
Undo(o, known) == <<[op |-> "undo", o |-> o, known |-> known]>>

Create(o, to) == <<[op |-> "create", o |-> o, to |-> to]>>

\* Wait until the cluster runs `want`.
Await(want) == <<[op |-> "await", want |-> want, strict |-> FALSE]>>

\* The same, and every service is unrestarted and every other one at its original.
Settle(want) == <<[op |-> "await", want |-> want, strict |-> TRUE]>>

\* Delete o if it is there and owned, then wait until it is gone.
Remove(o, known) == <<[op |-> "remove", o |-> o, known |-> known]>> \o Await({<<o, "absent">>})

\* All five services healthy at their originals.
Baseline == Settle({})

\* Requests between two looks at the same runtime.
Batch(want) == Settle(want) \o Settle(want)

\* The fault is active: record it and run the operator's collector.
Investigate == <<[op |-> "investigate"]>>

\* Check bare specifications, without waiting.
Confirm(on) == <<[op |-> "confirm", on |-> on]>>

\* Change the kubelet's file and restart it; nothing to do if `unless` is there already.
ReplaceConfig(from, to, unless) ==
  <<[op |-> "compare", from |-> from, unless |-> unless],
    [op |-> "tee", to |-> to],
    [op |-> "restart"]>>

-----------------------------------------------------------------------------
(* LocalScenarioRunner                                                     *)

target(case) ==
  CASE case = "PAY-04" -> "webhook-sim"
    [] case \in {"DEP-01", "DEP-02"} -> "processor-adapter"
    [] OTHER -> "payments-api"

\* PAY-04 leaves the specification alone; OOM-01 has a control before its fault.
fault_spec(case) == IF case = "PAY-04" THEN "original" ELSE "fault"

\* What the observed pods, logs, events or samples of a case have to show.
activation(case) == Await({<<target(case), fault_spec(case)>>})

package_activation(case) == Await({<<target(case), fault_spec(case)>>}) \o activation(case)

RunnerBaseline(case) ==
  Journal(target(case), {"original"}) \o Await({<<target(case), "original">>})
    \o Capture({target(case)})

\* Two looks: the allocation is held, then a payment passes while it still is.
control_observation == Await({<<"payments-api", "control">>}) \o Await({<<"payments-api", "control">>})

RunnerControl ==
  Journal("payments-api", {"original", "control", "fault"})
    \o Write("payments-api", {"original"}, "control") \o control_observation

RunnerInject(case, from) ==
  Journal(target(case), {from, fault_spec(case)})
    \o (IF fault_spec(case) = from THEN <<>> ELSE Write(target(case), {from}, fault_spec(case)))
    \o (IF case \in {"DEP-02", "PAY-04"} THEN package_activation(case) ELSE activation(case))

RunnerExperiment(case) ==
  RunnerBaseline(case)
    \o (IF case = "OOM-01" THEN RunnerControl \o RunnerInject(case, "control")
                           ELSE RunnerInject(case, "original"))
    \o Investigate

RunnerRecovery(case) ==
  <<Undo(target(case), {"control", "fault"}) \o Await({<<target(case), "original">>})>>

-----------------------------------------------------------------------------
(* SchedulerHarness: quota, limits and payments, each restored on its own. *)

Slots == {"quota", "limits", "payments-api"}

\* Admission objects and users as reviewed, with the quota's accounting converged.
healthy_users == {<<o, "original">> : o \in Services \cup {"quota"}}

SchedulerPreflight == Await(healthy_users) \o Capture(Slots)

SchedulerJournal ==
  Journal("quota", {"original", "fault"}) \o Journal("limits", {"original", "fault"})
    \o Journal("payments-api", {"original", "fault"})

\* A pod of the new template is pending for want of the resource.
scheduler_activated == Await({<<"payments-api", "fault">>})

SchedulerApply ==
  Write("quota", {"original"}, "fault") \o Await({<<"quota", "fault">>})
    \o Write("limits", {"original"}, "fault") \o Await({<<"limits", "fault">>})
    \o Write("payments-api", {"original"}, "fault") \o scheduler_activated

SchedulerExperiment == SchedulerPreflight \o SchedulerJournal \o SchedulerApply \o Investigate

deployment_recovery ==
  Undo("payments-api", {"fault"}) \o Await({<<s, "original">> : s \in Services})

verify_restored == Confirm(Slots) \o Await(healthy_users)

SchedulerRecovery ==
  <<deployment_recovery, Undo("limits", {"fault"}), Undo("quota", {"fault"}), verify_restored>>

-----------------------------------------------------------------------------
(* HpaHarness: an autoscaler and a load Job around the enabled workload.   *)

\* The Job's own pod, told apart from the pods of the services.
split_load_pod(load) == IF load THEN {<<"job", "owned">>} ELSE {}

HpaRuntime(spec, load) == {<<"payments-api", spec>>} \cup split_load_pod(load)

hpa_demand(cap) == {<<"hpa", cap>>}

HpaSettle(spec, load) == Settle(HpaRuntime(spec, load))

\* CPU metrics between two looks at the same pods, and the autoscaler's own status.
HpaDemand(spec, cap, load) == HpaSettle(spec, load) \o Settle(HpaRuntime(spec, load) \cup hpa_demand(cap))

HpaPrepare ==
  Await({<<"hpa", "absent">>, <<"job", "absent">>}) \o Baseline
    \o Journal("payments-api", {"original", "enabled", "scaled"}) \o Capture({"payments-api"})
    \o Write("payments-api", {"original"}, "enabled") \o HpaSettle("enabled", FALSE)
    \o Create("hpa", "cap1")

raise_cap == Write("hpa", {"cap1", "cap2"}, "cap2")

\* The finished Job's receipt, read between two looks at its process.
completed_load == Await(split_load_pod(TRUE)) \o Await(split_load_pod(TRUE))

replica_work == HpaSettle("scaled", TRUE) \o HpaSettle("scaled", TRUE)

HpaExperiment ==
  HpaPrepare \o HpaDemand("enabled", "cap1", FALSE) \o Create("job", "owned")
    \o HpaSettle("enabled", TRUE) \o HpaDemand("enabled", "cap1", TRUE) \o Investigate
    \o raise_cap \o HpaSettle("scaled", TRUE) \o HpaDemand("scaled", "cap2", TRUE)
    \o completed_load \o replica_work

HpaRecovery ==
  <<Remove("job", {"owned"}), Remove("hpa", {"cap1", "cap2"}),
    Undo("payments-api", {"enabled", "scaled"}) \o Baseline>>

-----------------------------------------------------------------------------
(* ConcurrencyHarness: three stages, each from the original and back.      *)

ConcurrencyPrepare == Baseline \o Capture({"payments-api"})

ConcurrencySettle(enabled) == Settle(IF enabled THEN {<<"payments-api", "enabled">>} ELSE {})

ConcurrencyEnable == Write("payments-api", {"original"}, "enabled") \o ConcurrencySettle(TRUE)

\* Logs of the one pod that runs the current template.
ConcurrencyCapture == Await({<<"payments-api", "enabled">>})

RestoreOriginal == Undo("payments-api", {"enabled"}) \o ConcurrencySettle(FALSE)

ConcurrencyStage(stage) ==
  ConcurrencyEnable
    \o (IF stage = "parallel" THEN ConcurrencyCapture \o Investigate
        ELSE ConcurrencySettle(TRUE) \o ConcurrencyCapture \o ConcurrencySettle(TRUE))
    \o RestoreOriginal

ConcurrencyExperiment ==
  ConcurrencyPrepare \o Journal("payments-api", {"original", "enabled"})
    \o ConcurrencyStage("control") \o ConcurrencyStage("parallel")
    \o ConcurrencyStage("recovered")

ConcurrencyRecovery == <<RestoreOriginal>>

-----------------------------------------------------------------------------
(* LeakHarness: release control, then retained allocations, on risk-sim.   *)

LeakPrepare == Baseline \o Capture({"risk-sim"})

LeakTransition(to) == Write("risk-sim", {"original", "control", "fault"}, to)

LeakCapture(spec) == Await({<<"risk-sim", spec>>})

LeakControl == LeakCapture("control") \o Settle({<<"risk-sim", "control">>})

\* Two observations of the retained variant, for two ended containers.
LeakFault == LeakCapture("fault") \o LeakCapture("fault")

LeakExperiment ==
  LeakPrepare \o Journal("risk-sim", {"original", "control", "fault"})
    \o LeakTransition("control") \o LeakControl
    \o LeakTransition("fault") \o LeakFault \o Investigate

LeakUndo == Undo("risk-sim", {"control", "fault"})

LeakRecovery == <<LeakUndo \o Baseline>>

-----------------------------------------------------------------------------
(* CpuHarness: original, control, restricted and recovered stages.         *)

CpuPrepare == Baseline \o Journal("payments-api", {"original", "control", "fault"}) \o Capture({"payments-api"})

CpuSettle(spec) == Settle({<<"payments-api", spec>>})

CpuStage(spec) == CpuSettle(spec) \o CpuSettle(spec)

CpuTransition(from, to) == Write("payments-api", {from}, to)

CpuExperiment ==
  CpuPrepare \o CpuStage("original")
    \o CpuTransition("original", "control") \o CpuStage("control")
    \o CpuTransition("control", "fault") \o CpuStage("fault") \o Investigate
    \o CpuTransition("fault", "control") \o CpuStage("control")

CpuUndo == Undo("payments-api", {"control", "fault"})

CpuRecovery == <<CpuUndo \o CpuStage("original")>>

-----------------------------------------------------------------------------
(* NoiseHarness: a CPU Job beside a processor that goes away and returns.  *)

NoisePrepare ==
  Await({<<"noise", "absent">>, <<"job", "absent">>, <<"hpa", "absent">>})
    \o Baseline \o Capture({"processor-adapter"})

\* The whole namespace with the owned noise Job set apart; peers and specs unchanged.
NoiseSnapshot(processor) == Settle({<<"noise", "owned">>, <<"processor-adapter", processor>>})

NoiseBatch(processor) ==
  NoiseSnapshot(processor) \o NoiseSnapshot(processor) \o NoiseSnapshot(processor)

RestoreProcessor == Undo("processor-adapter", {"off"})

NoiseStages ==
  Create("noise", "owned") \o Await({<<"noise", "owned">>}) \o NoiseBatch("original")
    \o Write("processor-adapter", {"original"}, "off") \o Await({<<"processor-adapter", "off">>})
    \o NoiseBatch("off") \o Investigate
    \o RestoreProcessor \o Await({<<s, "original">> : s \in Services}) \o NoiseBatch("original")

NoiseExperiment == NoisePrepare \o Journal("processor-adapter", {"original", "off"}) \o NoiseStages

NoiseRecovery ==
  <<RestoreProcessor \o Await({<<s, "original">> : s \in Services}),
    Remove("noise", {"owned"}) \o Settle({<<"processor-adapter", "original">>})>>

-----------------------------------------------------------------------------
(* DependencyHarness: PostgreSQL sessions exhausted, or Redis switched off. *)

DependencyPrepare ==
  Baseline \o Await({<<"redis", "original">>}) \o Capture({"payments-api", "redis"})

DependencyBatch == Batch({<<"payments-api", "enabled">>})

\* _sessions: none, or exactly the four this run holds.
Sessions(held) == Await({<<"sessions", IF held THEN "held" ELSE "absent">>})

DependencyFault == DependencyBatch \o Investigate

RestoreData == Undo("redis", {"off"}) \o Await({<<"redis", "original">>})

PostgresPressure ==
  Sessions(FALSE) \o Create("sessions", "held") \o Sessions(TRUE) \o DependencyFault
    \o Sessions(TRUE) \o Remove("sessions", {"held"})

RedisOutage ==
  Write("redis", {"original"}, "off") \o Await({<<"redis", "off">>}) \o DependencyFault
    \o RestoreData

DependencyStages(case) ==
  ConcurrencyEnable \o DependencyBatch
    \o (IF case = "DEP-03" THEN PostgresPressure ELSE RedisOutage)
    \o DependencyBatch

DependencyExperiment(case) ==
  DependencyPrepare \o Journal("payments-api", {"original", "enabled"})
    \o Journal("redis", {"original", "off"}) \o DependencyStages(case)

DependencyRecovery(case) ==
  <<RestoreData \o (IF case = "DEP-03" THEN Sessions(FALSE) ELSE <<>>), RestoreOriginal>>

-----------------------------------------------------------------------------
(* EvictionHarness: a kubelet configuration in a cluster of its own.       *)

EvictionPrepare == Await({<<"namespace", "absent">>}) \o Capture({"kubelet"})

\* A ready victim that answers, on a node without pressure.
node_recovered == Await({<<"kubelet", "original">>, <<"namespace", "owned">>})

eviction_proof == Await({<<"kubelet", "pressure">>, <<"namespace", "owned">>})

RestoreConfig == ReplaceConfig({"pressure"}, "original", {"original"})

EvictionStages ==
  Create("namespace", "owned") \o node_recovered
    \o Journal("kubelet", {"original", "pressure"})
    \o ReplaceConfig({"original"}, "pressure", {}) \o eviction_proof
    \o Investigate \o RestoreConfig \o node_recovered

EvictionExperiment == EvictionPrepare \o Journal("kubelet", {"original"}) \o EvictionStages

\* The namespace is removed by its label even if the answer of its creation was lost.
CleanupNamespace == Remove("namespace", {"owned"})

EvictionRecovery == <<RestoreConfig \o Confirm({"kubelet"}), CleanupNamespace>>

-----------------------------------------------------------------------------
(* SamplingHarness: the processor's trace sampling suppressed and restored. *)

SamplingSettle(spec) == Settle({<<"processor-adapter", spec>>})

SamplingStage(spec) == SamplingSettle(spec) \o SamplingSettle(spec)

SamplingPrepare ==
  Baseline \o SamplingStage("original")
    \o Journal("processor-adapter", {"original", "fault", "control"})
    \o Capture({"processor-adapter"})

SamplingTransition(from, to) == Write("processor-adapter", {from}, to)

SamplingExperiment ==
  SamplingPrepare
    \o SamplingTransition("original", "fault") \o SamplingStage("fault") \o Investigate
    \o SamplingTransition("fault", "control") \o SamplingStage("control")

SamplingUndo == Undo("processor-adapter", {"fault", "control"})

final_observation == SamplingSettle("original") \o SamplingSettle("original")

SamplingRecovery == <<SamplingUndo, final_observation>>

-----------------------------------------------------------------------------
(* ProtocolHarness: risk-sim, then payments-api, moved to the next protocol. *)

\* The two specifications of each stage.
protocol_specs(stage) ==
  {<<"payments-api", IF stage = "matched" THEN "v2" ELSE "original">>,
   <<"risk-sim", IF stage \in {"mismatch", "matched"} THEN "v2" ELSE "original">>}

ProtocolSettle(stage) == Settle(protocol_specs(stage))

ProtocolStage(stage) == ProtocolSettle(stage) \o ProtocolSettle(stage)

ProtocolPrepare ==
  Baseline \o ProtocolStage("original") \o Journal("payments-api", {"original", "v2"})
    \o Journal("risk-sim", {"original", "v2"}) \o Capture({"payments-api", "risk-sim"})

ProtocolTransition(o) == Write(o, {"original"}, "v2")

ProtocolExperiment ==
  ProtocolPrepare \o ProtocolTransition("risk-sim") \o ProtocolStage("mismatch") \o Investigate
    \o ProtocolTransition("payments-api") \o ProtocolStage("matched")

ProtocolUndo(o) == Undo(o, {"v2"})

ProtocolRecovery ==
  <<ProtocolUndo("payments-api"), ProtocolUndo("risk-sim"), ProtocolStage("final")>>

-----------------------------------------------------------------------------
(* The cases, and the harness that runs each.                              *)

RunnerCases == {"ROLLOUT-01", "OOM-01", "DEP-02", "PAY-04"}

CaseIds == RunnerCases \cup
  {"SCHED-01", "SCHED-03", "OOM-02", "OOM-03", "OOM-04", "TELEM-01", "DEP-03", "DEP-04",
   "SCHED-04", "TELEM-03", "ROLLOUT-04"}

Experiment(case) ==
  CASE case \in RunnerCases -> RunnerExperiment(case)
    [] case = "SCHED-01" -> SchedulerExperiment
    [] case = "SCHED-03" -> HpaExperiment
    [] case = "SCHED-04" -> EvictionExperiment
    [] case = "OOM-02" -> LeakExperiment
    [] case = "OOM-03" -> CpuExperiment
    [] case = "OOM-04" -> ConcurrencyExperiment
    [] case = "TELEM-01" -> NoiseExperiment
    [] case = "TELEM-03" -> SamplingExperiment
    [] case = "ROLLOUT-04" -> ProtocolExperiment
    [] case \in {"DEP-03", "DEP-04"} -> DependencyExperiment(case)

Recovery(case) ==
  CASE case \in RunnerCases -> RunnerRecovery(case)
    [] case = "SCHED-01" -> SchedulerRecovery
    [] case = "SCHED-03" -> HpaRecovery
    [] case = "SCHED-04" -> EvictionRecovery
    [] case = "OOM-02" -> LeakRecovery
    [] case = "OOM-03" -> CpuRecovery
    [] case = "OOM-04" -> ConcurrencyRecovery
    [] case = "TELEM-01" -> NoiseRecovery
    [] case = "TELEM-03" -> SamplingRecovery
    [] case = "ROLLOUT-04" -> ProtocolRecovery
    [] case \in {"DEP-03", "DEP-04"} -> DependencyRecovery(case)
=============================================================================
