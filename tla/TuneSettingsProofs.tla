------------------------- MODULE TuneSettingsProofs -------------------------
(***************************************************************************)
(* What holds of the tuners for any set of them, any state the system was  *)
(* found in, and any number of calls and of writes that fail: a setting    *)
(* that several tuners use is a stack of saved values, and each tuner that *)
(* is enabled holds the setting at the value that the one above it found.  *)
(***************************************************************************)
EXTENDS TuneSettings, SequenceTheorems, TLAPS

Entries(q) == {q[i] : i \in DOMAIN q}
Increasing(q) == \A i, j \in DOMAIN q : i < j => q[i] < q[j]
Distinct(q) == \A i, j \in DOMAIN q : q[i] = q[j] => i = j

Indices(t) == DOMAIN Code[t].writes
W(t, k) == Code[t].writes[k]
\* What Disable does about w does not depend on what the tuner read.
Fixed(w) == w.back \notin {"saved", "changed"}

-----------------------------------------------------------------------------
(* The tuners of the repository                                            *)

\* The settings that only one tuner uses and that are not restored to what was
\* read, or that Run writes.
Owned == {"oenetcls", "smp_affinity", "enable_list", "swap", "cpufreq_seep", "NUMA_SCHED", "STEAL"}
Owner ==
  [oenetcls |-> "multi_net_path", smp_affinity |-> "hardirq_tune", enable_list |-> "realtime_tune",
   swap |-> "realtime_tune", cpufreq_seep |-> "seep_tune", NUMA_SCHED |-> "numa_sched_tune",
   STEAL |-> "stealtask_tune"]

\* Every write is done by Enable or by Run.
Shape(c, n) ==
  /\ n \in Nat \ {0} /\ DOMAIN c.writes = 1..n
  /\ c.enables \in Seq(1..n) /\ Increasing(c.enables)
  /\ c.runs \in Seq(1..n) /\ Distinct(c.runs)
  /\ c.backs \in Seq(1..n) /\ Distinct(c.backs)
  /\ \A k \in 1..n : k \in Entries(c.enables) \cup Entries(c.runs)

\* A tuner that writes a setting twice wants one value of it, Disable writes it
\* back once, and what cannot be shared has an owner.
Sound(t, c) ==
  \A k \in DOMAIN c.writes :
    /\ \A j \in DOMAIN c.writes : c.writes[j].set = c.writes[k].set =>
         /\ c.writes[j].to = c.writes[k].to /\ c.writes[j].back = c.writes[k].back
         /\ k \in Entries(c.runs) => j = k
    /\ c.writes[k].back # "never" => \E j \in Entries(c.backs) : c.writes[j].set = c.writes[k].set
    /\ k \in Entries(c.runs) => ~c.writes[k].must /\ ~c.already
    /\ (Fixed(c.writes[k]) \/ k \in Entries(c.runs)) => c.writes[k].set \in Owned
    /\ c.writes[k].set \in Owned => Owner[c.writes[k].set] = t
    /\ (c.already /\ Fixed(c.writes[k])) => (k = 1 /\ c.writes[k].back # "never")
    /\ (c.already /\ k = 1) => Fixed(c.writes[k])

\* The writes of each tuner are what the argument needs.
LEMMA TunerShapes ==
  /\ Shape(multi_net_path, 2)
  /\ Shape(hardirq_tune, 2)
  /\ Shape(transparent_hugepage_tune, 1)
  /\ Shape(cluster_cpu_tune, 1)
  /\ Shape(realtime_tune, 7)
  /\ Shape(seep_tune, 3)
  /\ Shape(dynamic_smt_tune, 2)
  /\ Shape(numa_sched_tune, 2)
  /\ Shape(coordination_burst, 3)
  /\ Shape(stealtask_tune, 1)
  <1>1. Shape(multi_net_path, 2)
    BY DEF Shape, multi_net_path, Tuner, Upto, Write, Increasing, Distinct, Entries
  <1>2. Shape(hardirq_tune, 2)
    BY DEF Shape, hardirq_tune, Tuner, Upto, Write, Increasing, Distinct, Entries
  <1>3. Shape(transparent_hugepage_tune, 1)
    BY DEF Shape, transparent_hugepage_tune, Tuner, Upto, Write, Increasing, Distinct, Entries
  <1>4. Shape(cluster_cpu_tune, 1)
    BY DEF Shape, cluster_cpu_tune, Tuner, Upto, Write, Increasing, Distinct, Entries
  <1>5. Shape(realtime_tune, 7)
    BY DEF Shape, realtime_tune, Tuner, Upto, Write, Increasing, Distinct, Entries
  <1>6. Shape(seep_tune, 3)
    BY DEF Shape, seep_tune, Tuner, Upto, Write, Increasing, Distinct, Entries
  <1>7. Shape(dynamic_smt_tune, 2)
    BY DEF Shape, dynamic_smt_tune, Tuner, Upto, Write, Increasing, Distinct, Entries
  <1>8. Shape(numa_sched_tune, 2)
    BY DEF Shape, numa_sched_tune, Tuner, Upto, Write, Increasing, Distinct, Entries
  <1>9. Shape(coordination_burst, 3)
    BY DEF Shape, coordination_burst, Tuner, Upto, Write, Increasing, Distinct, Entries
  <1>10. Shape(stealtask_tune, 1)
    BY DEF Shape, stealtask_tune, Tuner, Upto, Write, Increasing, Distinct, Entries
  <1> QED  BY <1>1, <1>2, <1>3, <1>4, <1>5, <1>6, <1>7, <1>8, <1>9, <1>10

\* Each tuner treats its settings as it must for them to be restored.
LEMMA TunersSound ==
  /\ Sound("multi_net_path", multi_net_path)
  /\ Sound("hardirq_tune", hardirq_tune)
  /\ Sound("transparent_hugepage_tune", transparent_hugepage_tune)
  /\ Sound("cluster_cpu_tune", cluster_cpu_tune)
  /\ Sound("realtime_tune", realtime_tune)
  /\ Sound("seep_tune", seep_tune)
  /\ Sound("dynamic_smt_tune", dynamic_smt_tune)
  /\ Sound("numa_sched_tune", numa_sched_tune)
  /\ Sound("coordination_burst", coordination_burst)
  /\ Sound("stealtask_tune", stealtask_tune)
  <1>1. Sound("multi_net_path", multi_net_path)
    BY DEF Sound, Fixed, multi_net_path, Tuner, Upto, Write, Entries, Owned, Owner
  <1>2. Sound("hardirq_tune", hardirq_tune)
    BY DEF Sound, Fixed, hardirq_tune, Tuner, Upto, Write, Entries, Owned, Owner
  <1>3. Sound("transparent_hugepage_tune", transparent_hugepage_tune)
    BY DEF Sound, Fixed, transparent_hugepage_tune, Tuner, Upto, Write, Entries, Owned, Owner
  <1>4. Sound("cluster_cpu_tune", cluster_cpu_tune)
    BY DEF Sound, Fixed, cluster_cpu_tune, Tuner, Upto, Write, Entries, Owned, Owner
  <1>5. Sound("realtime_tune", realtime_tune)
    BY DEF Sound, Fixed, realtime_tune, Tuner, Upto, Write, Entries, Owned, Owner
  <1>6. Sound("seep_tune", seep_tune)
    BY DEF Sound, Fixed, seep_tune, Tuner, Upto, Write, Entries, Owned, Owner
  <1>7. Sound("dynamic_smt_tune", dynamic_smt_tune)
    BY DEF Sound, Fixed, dynamic_smt_tune, Tuner, Upto, Write, Entries, Owned, Owner
  <1>8. Sound("numa_sched_tune", numa_sched_tune)
    BY DEF Sound, Fixed, numa_sched_tune, Tuner, Upto, Write, Entries, Owned, Owner
  <1>9. Sound("coordination_burst", coordination_burst)
    BY DEF Sound, Fixed, coordination_burst, Tuner, Upto, Write, Entries, Owned, Owner
  <1>10. Sound("stealtask_tune", stealtask_tune)
    BY DEF Sound, Fixed, stealtask_tune, Tuner, Upto, Write, Entries, Owned, Owner
  <1> QED  BY <1>1, <1>2, <1>3, <1>4, <1>5, <1>6, <1>7, <1>8, <1>9, <1>10

\* The same of the tuners that are loaded.
LEMMA CodeSound ==
  ASSUME NEW t \in Tuners
  PROVE  Sound(t, Code[t]) /\ \E n \in Nat : Shape(Code[t], n)
  <1>1. t \in {"multi_net_path", "hardirq_tune", "transparent_hugepage_tune", "cluster_cpu_tune",
                "realtime_tune", "seep_tune", "dynamic_smt_tune", "numa_sched_tune", "coordination_burst",
                "stealtask_tune"}
    BY TunersAssumption DEF Code
  <1>2. ASSUME t = "multi_net_path"
        PROVE  Sound(t, Code[t]) /\ \E n \in Nat : Shape(Code[t], n)
    <2>1. Code[t] = multi_net_path
      BY <1>2 DEF Code
    <2> QED  BY <1>2, <2>1, TunerShapes, TunersSound
  <1>3. ASSUME t = "hardirq_tune"
        PROVE  Sound(t, Code[t]) /\ \E n \in Nat : Shape(Code[t], n)
    <2>1. Code[t] = hardirq_tune
      BY <1>3 DEF Code
    <2> QED  BY <1>3, <2>1, TunerShapes, TunersSound
  <1>4. ASSUME t = "transparent_hugepage_tune"
        PROVE  Sound(t, Code[t]) /\ \E n \in Nat : Shape(Code[t], n)
    <2>1. Code[t] = transparent_hugepage_tune
      BY <1>4 DEF Code
    <2> QED  BY <1>4, <2>1, TunerShapes, TunersSound
  <1>5. ASSUME t = "cluster_cpu_tune"
        PROVE  Sound(t, Code[t]) /\ \E n \in Nat : Shape(Code[t], n)
    <2>1. Code[t] = cluster_cpu_tune
      BY <1>5 DEF Code
    <2> QED  BY <1>5, <2>1, TunerShapes, TunersSound
  <1>6. ASSUME t = "realtime_tune"
        PROVE  Sound(t, Code[t]) /\ \E n \in Nat : Shape(Code[t], n)
    <2>1. Code[t] = realtime_tune
      BY <1>6 DEF Code
    <2> QED  BY <1>6, <2>1, TunerShapes, TunersSound
  <1>7. ASSUME t = "seep_tune"
        PROVE  Sound(t, Code[t]) /\ \E n \in Nat : Shape(Code[t], n)
    <2>1. Code[t] = seep_tune
      BY <1>7 DEF Code
    <2> QED  BY <1>7, <2>1, TunerShapes, TunersSound
  <1>8. ASSUME t = "dynamic_smt_tune"
        PROVE  Sound(t, Code[t]) /\ \E n \in Nat : Shape(Code[t], n)
    <2>1. Code[t] = dynamic_smt_tune
      BY <1>8 DEF Code
    <2> QED  BY <1>8, <2>1, TunerShapes, TunersSound
  <1>9. ASSUME t = "numa_sched_tune"
        PROVE  Sound(t, Code[t]) /\ \E n \in Nat : Shape(Code[t], n)
    <2>1. Code[t] = numa_sched_tune
      BY <1>9 DEF Code
    <2> QED  BY <1>9, <2>1, TunerShapes, TunersSound
  <1>10. ASSUME t = "coordination_burst"
        PROVE  Sound(t, Code[t]) /\ \E n \in Nat : Shape(Code[t], n)
    <2>1. Code[t] = coordination_burst
      BY <1>10 DEF Code
    <2> QED  BY <1>10, <2>1, TunerShapes, TunersSound
  <1>11. ASSUME t = "stealtask_tune"
        PROVE  Sound(t, Code[t]) /\ \E n \in Nat : Shape(Code[t], n)
    <2>1. Code[t] = stealtask_tune
      BY <1>11 DEF Code
    <2> QED  BY <1>11, <2>1, TunerShapes, TunersSound
  <1> QED  BY <1>1, <1>2, <1>3, <1>4, <1>5, <1>6, <1>7, <1>8, <1>9, <1>10, <1>11

\* The indices of the writes, and the sequences of them.
LEMMA IndexFacts ==
  ASSUME NEW t \in Tuners
  PROVE  /\ Indices(t) \subseteq Nat \ {0} /\ 1 \in Indices(t)
         /\ \A k \in Indices(t) : 1..k \subseteq Indices(t)
         /\ Code[t].enables \in Seq(Nat) /\ Increasing(Code[t].enables)
         /\ Code[t].runs \in Seq(Nat) /\ Distinct(Code[t].runs)
         /\ Code[t].backs \in Seq(Nat) /\ Distinct(Code[t].backs)
         /\ Entries(Code[t].enables) \subseteq Indices(t)
         /\ Entries(Code[t].runs) \subseteq Indices(t)
         /\ Entries(Code[t].backs) \subseteq Indices(t)
         /\ \A k \in Indices(t) : k \in Entries(Code[t].enables) \cup Entries(Code[t].runs)
  <1>1. PICK n \in Nat : Shape(Code[t], n)
    BY CodeSound
  <1>2. n \in Nat \ {0} /\ Indices(t) = 1..n
    BY <1>1 DEF Shape, Indices
  <1>3. ASSUME NEW q \in Seq(1..n)
        PROVE  q \in Seq(Nat) /\ Entries(q) \subseteq 1..n
    BY <1>3 DEF Entries
  <1>4. /\ Code[t].enables \in Seq(1..n) /\ Code[t].runs \in Seq(1..n) /\ Code[t].backs \in Seq(1..n)
        /\ Increasing(Code[t].enables) /\ Distinct(Code[t].runs) /\ Distinct(Code[t].backs)
        /\ \A k \in 1..n : k \in Entries(Code[t].enables) \cup Entries(Code[t].runs)
    BY <1>1 DEF Shape
  <1>5. 1 \in 1..n /\ 1..n \subseteq Nat \ {0} /\ \A k \in 1..n : 1..k \subseteq 1..n
    BY <1>2
  <1> QED  BY <1>2, <1>3, <1>4, <1>5, Zenon

\* A tuner uses the settings it writes.
LEMMA SettingsOfDef ==
  ASSUME NEW t \in Tuners, NEW s
  PROVE  s \in SettingsOf(t) <=> \E k \in Indices(t) : W(t, k).set = s
  BY DEF SettingsOf, Indices, W

\* Its settings are settings of the system.
LEMMA SettingsOfSettings ==
  ASSUME NEW t \in Tuners
  PROVE  /\ SettingsOf(t) \subseteq Settings
         /\ \A k \in Indices(t) : W(t, k).set \in SettingsOf(t) /\ W(t, k).set \in Settings
  BY SettingsOfDef DEF Settings

\* Two writes of one setting agree.
LEMMA SameSetting ==
  ASSUME NEW t \in Tuners, NEW j \in Indices(t), NEW k \in Indices(t), W(t, j).set = W(t, k).set
  PROVE  /\ W(t, j).to = W(t, k).to /\ W(t, j).back = W(t, k).back
         /\ k \in Entries(Code[t].runs) => j = k
  BY CodeSound DEF Sound, Indices, W

\* What is restored to a fixed value, or written by Run, is one tuner's own.
LEMMA PrivateSetting ==
  ASSUME NEW t \in Tuners, NEW k \in Indices(t), Fixed(W(t, k)) \/ k \in Entries(Code[t].runs),
         NEW u \in Tuners, W(t, k).set \in SettingsOf(u)
  PROVE  u = t
  <1>1. PICK j \in Indices(u) : W(u, j).set = W(t, k).set
    BY SettingsOfDef
  <1>2. W(t, k).set \in Owned /\ Owner[W(t, k).set] = t
    BY CodeSound DEF Sound, Indices, W
  <1>3. W(u, j).set \in Owned => Owner[W(u, j).set] = u
    BY CodeSound DEF Sound, Indices, W
  <1> QED  BY <1>1, <1>2, <1>3

\* The other things the code of a tuner tells.
LEMMA WriteFacts ==
  ASSUME NEW t \in Tuners, NEW k \in Indices(t)
  PROVE  /\ W(t, k).back # "never" =>
              \E j \in Entries(Code[t].backs) : W(t, j).set = W(t, k).set
         /\ k \in Entries(Code[t].runs) => ~W(t, k).must /\ ~Code[t].already
         /\ (Code[t].already /\ Fixed(W(t, k))) => (k = 1 /\ W(t, k).back # "never")
         /\ (Code[t].already /\ k = 1) => Fixed(W(t, k))
  BY CodeSound DEF Sound, Indices, W

\* The settings that Disable does not restore.
LEMMA NotRestoredDef ==
  ASSUME NEW s \in Settings
  PROVE  s \in NotRestored <=>
           \E t \in Tuners : \E k \in Indices(t) :
             /\ W(t, k).set = s /\ ~Code[t].already
             /\ W(t, k).back \notin {"saved", "changed", original[s]} \ {"never"}
  BY DEF NotRestored, Indices, W

\* No tuner shares a setting that is not restored.
LEMMA NotRestoredPrivate ==
  ASSUME NEW s \in Settings, s \in NotRestored, NEW t \in Tuners, NEW u \in Tuners,
         s \in SettingsOf(t), s \in SettingsOf(u)
  PROVE  t = u
  <1>1. PICK v \in Tuners : \E k \in Indices(v) : W(v, k).set = s /\ Fixed(W(v, k))
    BY NotRestoredDef DEF Fixed
  <1> QED  BY <1>1, PrivateSetting

\* A fixed value that is not the original one is not restored.
LEMMA FixedRestored ==
  ASSUME NEW t \in Tuners, NEW k \in Indices(t), Fixed(W(t, k)), ~Code[t].already,
         W(t, k).set \notin NotRestored
  PROVE  W(t, k).back = original[W(t, k).set] /\ W(t, k).back # "never"
  <1>1. W(t, k).set \in Settings
    BY SettingsOfSettings
  <1>2. W(t, k).back \in {"saved", "changed", original[W(t, k).set]} \ {"never"}
    BY <1>1, NotRestoredDef
  <1> QED  BY <1>2 DEF Fixed

\* Nor is a setting restored that Disable leaves alone.
LEMMA NeverBack ==
  ASSUME NEW t \in Tuners, NEW k \in Indices(t), W(t, k).back = "never"
  PROVE  W(t, k).set \in NotRestored
  <1>1. ~Code[t].already
    BY WriteFacts DEF Fixed
  <1> QED  BY <1>1, NotRestoredDef, SettingsOfSettings

\* The values a tuner writes are values of the setting.
LEMMA ValuesFacts ==
  ASSUME NEW t \in Tuners, NEW k \in Indices(t)
  PROVE  W(t, k).to \in Values[W(t, k).set] /\ W(t, k).back \in Values[W(t, k).set]
  <1>1. W(t, k).set \in Settings
    BY SettingsOfSettings
  <1>2. W(t, k) \in AllWrites
    BY DEF AllWrites, Indices, W
  <1> QED  BY <1>1, <1>2 DEF Values

-----------------------------------------------------------------------------
(* Sequences of writes                                                     *)

\* Writes in increasing order are done once each.
LEMMA IncreasingDistinct ==
  ASSUME NEW q \in Seq(Nat), Increasing(q)
  PROVE  Distinct(q)
  <1> SUFFICES ASSUME NEW i \in DOMAIN q, NEW j \in DOMAIN q, i < j, q[i] = q[j]
               PROVE  FALSE
    BY DEF Distinct
  <1>1. q[i] < q[j] /\ q[i] \in Nat
    BY DEF Increasing
  <1> QED  BY <1>1

\* What is left when the first write is done.
LEMMA TailFacts ==
  ASSUME NEW q \in Seq(Nat), q # <<>>, Distinct(q)
  PROVE  /\ Head(q) \in Entries(q) /\ Head(q) \in Nat
         /\ Tail(q) \in Seq(Nat) /\ Distinct(Tail(q))
         /\ Entries(Tail(q)) = Entries(q) \ {Head(q)}
         /\ Increasing(q) => Increasing(Tail(q))
         /\ (Increasing(q) /\ Tail(q) # <<>>) => Head(q) < Head(Tail(q))
  <1>1. /\ Len(q) \in Nat /\ Len(q) > 0 /\ DOMAIN q = 1..Len(q) /\ Head(q) = q[1]
        /\ Tail(q) \in Seq(Nat) /\ Len(Tail(q)) = Len(q) - 1
        /\ DOMAIN Tail(q) = 1..(Len(q) - 1)
        /\ \A i \in 1..(Len(q) - 1) : Tail(q)[i] = q[i + 1]
    OBVIOUS
  <1>2. 1 \in DOMAIN q /\ \A i \in DOMAIN q : q[i] \in Nat
    BY <1>1
  <1>3. \A i \in DOMAIN Tail(q) : i + 1 \in DOMAIN q /\ i + 1 # 1 /\ Tail(q)[i] = q[i + 1]
    BY <1>1
  <1>4. \A i \in DOMAIN q : i # 1 => i - 1 \in DOMAIN Tail(q) /\ Tail(q)[i - 1] = q[i]
    BY <1>1
  <1>5. Distinct(Tail(q))
    BY <1>1, <1>3 DEF Distinct
  <1>6. Entries(Tail(q)) = Entries(q) \ {Head(q)}
    <2>1. Entries(Tail(q)) \subseteq Entries(q) \ {Head(q)}
      BY <1>1, <1>2, <1>3 DEF Entries, Distinct
    <2>2. Entries(q) \ {Head(q)} \subseteq Entries(Tail(q))
      BY <1>1, <1>4 DEF Entries
    <2> QED  BY <2>1, <2>2
  <1>7. Increasing(q) => Increasing(Tail(q))
    BY <1>1, <1>3 DEF Increasing
  <1>8. (Increasing(q) /\ Tail(q) # <<>>) => Head(q) < Head(Tail(q))
    <2> SUFFICES ASSUME Increasing(q), Tail(q) # <<>>
                 PROVE  Head(q) < Head(Tail(q))
      OBVIOUS
    <2>1. 1 \in DOMAIN Tail(q) /\ Head(Tail(q)) = q[2] /\ 2 \in DOMAIN q
      BY <1>1
    <2> QED  BY <1>1, <1>2, <2>1 DEF Increasing
  <1>9. Head(q) \in Entries(q)
    BY <1>1, <1>2 DEF Entries
  <1> QED  BY <1>1, <1>2, <1>5, <1>6, <1>7, <1>8, <1>9

\* No write is left.
LEMMA EmptyFacts ==
  /\ <<>> \in Seq(Nat) /\ Distinct(<<>>) /\ Increasing(<<>>) /\ Entries(<<>>) = {}
  BY DEF Distinct, Increasing, Entries

\* The writes up to the n-th.
LEMMA UptoFacts ==
  ASSUME NEW n \in Nat
  PROVE  Upto(n) \in Seq(Nat) /\ Distinct(Upto(n)) /\ Entries(Upto(n)) = 1..n
  <1>1. Upto(n) \in [1..n -> Nat] /\ DOMAIN Upto(n) = 1..n
    BY DEF Upto
  <1>2. Upto(n) \in Seq(Nat)
    BY <1>1
  <1> QED  BY <1>1, <1>2 DEF Upto, Distinct, Entries

-----------------------------------------------------------------------------
(* The order of enabling                                                   *)

\* The enabled tuners that use s, and how they lie on it.
Users(s) == {t \in Enabled : s \in SettingsOf(t)}
Before(t, u) == \E i, j \in DOMAIN order : i < j /\ order[i] = t /\ order[j] = u
Top(t, s) == t \in Users(s) /\ \A u \in Users(s) : ~Before(t, u)
Bottom(t, s) == t \in Users(s) /\ \A u \in Users(s) : ~Before(u, t)
Under(u, t, s) ==
  /\ u \in Users(s) /\ t \in Users(s) /\ Before(u, t)
  /\ \A v \in Users(s) : ~(Before(u, v) /\ Before(v, t))

OrderOK == order \in Seq(Tuners) /\ Distinct(order)

\* Before is a total order of the enabled tuners.
LEMMA BeforeFacts ==
  ASSUME OrderOK
  PROVE  /\ Enabled \subseteq Tuners
         /\ \A t, u : Before(t, u) => t \in Enabled /\ u \in Enabled /\ t # u
         /\ \A t, u \in Enabled : t # u => Before(t, u) \/ Before(u, t)
  <1>1. DOMAIN order = 1..Len(order) /\ Len(order) \in Nat
    BY DEF OrderOK
  <1>2. Enabled \subseteq Tuners
    BY DEF Enabled, OrderOK
  <1>3. ASSUME NEW t, NEW u, Before(t, u)
        PROVE  t \in Enabled /\ u \in Enabled /\ t # u
    BY <1>1, <1>3 DEF Before, Enabled, OrderOK, Distinct
  <1>4. ASSUME NEW t \in Enabled, NEW u \in Enabled, t # u
        PROVE  Before(t, u) \/ Before(u, t)
    <2>1. PICK i \in DOMAIN order : order[i] = t
      BY DEF Enabled
    <2>2. PICK j \in DOMAIN order : order[j] = u
      BY DEF Enabled
    <2>3. i < j \/ j < i
      BY <1>1, <1>4, <2>1, <2>2
    <2> QED  BY <2>1, <2>2, <2>3 DEF Before
  <1> QED  BY <1>2, <1>3, <1>4

\* Enabling a tuner puts it after all that are enabled.
LEMMA AppendOrder ==
  ASSUME OrderOK, NEW t \in Tuners, t \notin Enabled, order' = Append(order, t)
  PROVE  /\ OrderOK' /\ Enabled' = Enabled \cup {t}
         /\ \A u, v : Before(u, v)' <=> (Before(u, v) \/ (u \in Enabled /\ v = t))
  <1> DEFINE n == Len(order)
  <1>1. /\ n \in Nat /\ DOMAIN order = 1..n
        /\ order' \in Seq(Tuners) /\ Len(order') = n + 1 /\ DOMAIN order' = 1..(n + 1)
        /\ \A i \in 1..n : order'[i] = order[i]
        /\ order'[n + 1] = t
    BY DEF OrderOK
  <1> HIDE DEF n
  <1>2. 1..(n + 1) = (1..n) \cup {n + 1} /\ \A i \in 1..n : i < n + 1 /\ i # n + 1
    BY <1>1
  <1>3. \A i \in 1..n : order[i] # t
    BY <1>1 DEF Enabled
  <1>4. Distinct(order')
    BY <1>1, <1>2, <1>3 DEF OrderOK, Distinct
  <1>5. Enabled' = Enabled \cup {t}
    BY <1>1, <1>2 DEF Enabled
  <1>6. ASSUME NEW u, NEW v, Before(u, v)'
        PROVE  Before(u, v) \/ (u \in Enabled /\ v = t)
    <2>1. PICK i, j \in 1..(n + 1) : i < j /\ order'[i] = u /\ order'[j] = v
      BY <1>1, <1>6 DEF Before
    <2>2. i \in 1..n
      BY <1>1, <2>1
    <2>3. CASE j \in 1..n
      BY <1>1, <2>1, <2>2, <2>3 DEF Before
    <2>4. CASE j = n + 1
      BY <1>1, <2>1, <2>2, <2>4 DEF Enabled
    <2> QED  BY <1>2, <2>3, <2>4
  <1>7. ASSUME NEW u, NEW v, Before(u, v)
        PROVE  Before(u, v)'
    <2>1. PICK i, j \in 1..n : i < j /\ order[i] = u /\ order[j] = v
      BY <1>1, <1>7 DEF Before
    <2> QED  BY <1>1, <1>2, <2>1 DEF Before
  <1>8. ASSUME NEW u \in Enabled
        PROVE  Before(u, t)'
    <2>1. PICK i \in 1..n : order[i] = u
      BY <1>1 DEF Enabled
    <2>2. i \in DOMAIN order' /\ n + 1 \in DOMAIN order' /\ i < n + 1
      BY <1>1, <1>2
    <2> QED  BY <1>1, <2>1, <2>2 DEF Before
  <1> QED  BY <1>1, <1>4, <1>5, <1>6, <1>7, <1>8 DEF OrderOK

\* Disabling a tuner leaves the others as they lay.
LEMMA WithoutOrder ==
  ASSUME OrderOK, NEW i \in DOMAIN order, NEW t, order[i] = t, order' = Without(order, i)
  PROVE  /\ OrderOK' /\ t \in Enabled /\ Enabled' = Enabled \ {t}
         /\ \A u, v : Before(u, v)' <=> (Before(u, v) /\ u # t /\ v # t)
  <1> DEFINE n == Len(order)
             Old(k) == IF k < i THEN k ELSE k + 1
             New(k) == IF k < i THEN k ELSE k - 1
  <1>1. n \in Nat /\ DOMAIN order = 1..n /\ \A k \in 1..n : order[k] \in Tuners
    BY DEF OrderOK
  <1>2. i \in 1..n
    BY <1>1
  <1>3. order' = [k \in 1..(n - 1) |-> IF k < i THEN order[k] ELSE order[k + 1]]
    BY DEF Without
  <1> HIDE DEF n
  <1>4. /\ \A k \in 1..(n - 1) : Old(k) \in 1..n /\ Old(k) # i /\ order'[k] = order[Old(k)]
        /\ \A k \in 1..n : k # i => New(k) \in 1..(n - 1) /\ order'[New(k)] = order[k]
        /\ \A k, m \in 1..(n - 1) : (k < m <=> Old(k) < Old(m)) /\ (Old(k) = Old(m) => k = m)
        /\ \A k, m \in 1..n : (k < m /\ k # i /\ m # i) => New(k) < New(m)
    BY <1>1, <1>2, <1>3
  <1> HIDE DEF Old, New
  <1>5. DOMAIN order' = 1..(n - 1)
    BY <1>3
  <1>6. order' \in Seq(Tuners)
    <2>1. n - 1 \in Nat /\ order' \in [1..(n - 1) -> Tuners]
      BY <1>1, <1>2, <1>3, <1>4
    <2> QED  BY <2>1
  <1>7. \A k \in 1..n : order[k] = t <=> k = i
    BY <1>1, <1>2 DEF OrderOK, Distinct
  <1>8. Distinct(order')
    BY <1>1, <1>4, <1>5 DEF OrderOK, Distinct
  <1>9. t \in Enabled /\ Enabled' = Enabled \ {t}
    <2>1. \A u \in Enabled' : u \in Enabled \ {t}
      BY <1>1, <1>4, <1>5, <1>7 DEF Enabled
    <2>2. \A u \in Enabled \ {t} : u \in Enabled'
      BY <1>1, <1>4, <1>5, <1>7 DEF Enabled
    <2> QED  BY <2>1, <2>2 DEF Enabled
  <1>10. ASSUME NEW u, NEW v, Before(u, v)'
         PROVE  Before(u, v) /\ u # t /\ v # t
    <2>1. PICK k, m \in 1..(n - 1) : k < m /\ order'[k] = u /\ order'[m] = v
      BY <1>5, <1>10 DEF Before
    <2>2. Old(k) < Old(m) /\ order[Old(k)] = u /\ order[Old(m)] = v
      BY <1>4, <2>1
    <2> QED  BY <1>1, <1>4, <1>7, <2>1, <2>2 DEF Before
  <1>11. ASSUME NEW u, NEW v, Before(u, v), u # t, v # t
         PROVE  Before(u, v)'
    <2>1. PICK k, m \in 1..n : k < m /\ order[k] = u /\ order[m] = v
      BY <1>1, <1>11 DEF Before
    <2>2. k # i /\ m # i
      BY <1>11, <2>1
    <2>3. New(k) < New(m) /\ order'[New(k)] = u /\ order'[New(m)] = v
      BY <1>4, <2>1, <2>2
    <2> QED  BY <1>4, <1>5, <2>1, <2>2, <2>3 DEF Before
  <1> QED  BY <1>6, <1>8, <1>9, <1>10, <1>11 DEF OrderOK

\* A step that leaves the order leaves the tuners where they lie.
LEMMA SameOrder ==
  ASSUME order' = order
  PROVE  /\ Enabled' = Enabled /\ (OrderOK => OrderOK')
         /\ \A s : Users(s)' = Users(s)
         /\ \A t, s : Top(t, s)' <=> Top(t, s)
         /\ \A t, s : Bottom(t, s)' <=> Bottom(t, s)
         /\ \A u, t, s : Under(u, t, s)' <=> Under(u, t, s)
  BY DEF OrderOK, Enabled, Users, Before, Top, Bottom, Under

\* Where the tuners lie after one was enabled.
LEMMA AppendStacks ==
  ASSUME OrderOK, NEW t \in Tuners, t \notin Enabled, order' = Append(order, t), NEW s
  PROVE  /\ s \notin SettingsOf(t) =>
              /\ Users(s)' = Users(s)
              /\ \A u : Top(u, s)' => Top(u, s)
              /\ \A u : Bottom(u, s)' => Bottom(u, s)
              /\ \A u, v : Under(u, v, s)' => Under(u, v, s)
         /\ s \in SettingsOf(t) =>
              /\ t \in Users(s)'
              /\ \A u : Top(u, s)' => u = t
              /\ \A u : Bottom(u, s)' => (u = t /\ Users(s) = {}) \/ (u # t /\ Bottom(u, s))
              /\ \A u, v : Under(u, v, s)' => (v = t /\ Top(u, s)) \/ (v # t /\ Under(u, v, s))
  <1>1. /\ Enabled' = Enabled \cup {t}
        /\ \A u, v : Before(u, v)' <=> (Before(u, v) \/ (u \in Enabled /\ v = t))
    BY AppendOrder
  <1>2. \A u, v : Before(u, v) => u \in Enabled /\ v \in Enabled
    BY BeforeFacts
  <1>3. ASSUME s \notin SettingsOf(t)
        PROVE  /\ Users(s)' = Users(s)
               /\ \A u : Top(u, s)' => Top(u, s)
               /\ \A u : Bottom(u, s)' => Bottom(u, s)
               /\ \A u, v : Under(u, v, s)' => Under(u, v, s)
    <2>1. Users(s)' = Users(s) /\ t \notin Users(s)
      BY <1>1, <1>3 DEF Users
    <2> QED  BY <1>1, <2>1 DEF Top, Bottom, Under
  <1>4. ASSUME s \in SettingsOf(t)
        PROVE  /\ t \in Users(s)'
               /\ \A u : Top(u, s)' => u = t
               /\ \A u : Bottom(u, s)' => (u = t /\ Users(s) = {}) \/ (u # t /\ Bottom(u, s))
               /\ \A u, v : Under(u, v, s)' => (v = t /\ Top(u, s)) \/ (v # t /\ Under(u, v, s))
    <2>1. Users(s)' = Users(s) \cup {t} /\ t \notin Users(s) /\ Users(s) \subseteq Enabled
      BY <1>1, <1>4 DEF Users
    <2>2. \A u \in Users(s) : Before(u, t)'
      BY <1>1, <2>1
    <2>3. ASSUME NEW u, Top(u, s)' PROVE u = t
      BY <2>1, <2>2, <2>3 DEF Top
    <2>4. ASSUME NEW u, Bottom(u, s)'
          PROVE  (u = t /\ Users(s) = {}) \/ (u # t /\ Bottom(u, s))
      <3>1. u \in Users(s)' /\ \A v \in Users(s) : ~Before(v, u)'
        BY <2>1, <2>4 DEF Bottom
      <3>2. CASE u = t
        BY <2>2, <3>1, <3>2
      <3>3. CASE u # t
        BY <1>1, <2>1, <3>1, <3>3 DEF Bottom
      <3> QED  BY <3>2, <3>3
    <2>5. ASSUME NEW u, NEW v, Under(u, v, s)'
          PROVE  (v = t /\ Top(u, s)) \/ (v # t /\ Under(u, v, s))
      <3>1. /\ u \in Users(s)' /\ v \in Users(s)' /\ Before(u, v)'
            /\ \A w \in Users(s) : ~(Before(u, w)' /\ Before(w, v)')
        BY <2>1, <2>5 DEF Under
      <3>2. u # t
        BY <1>1, <1>2, <3>1
      <3>3. CASE v = t
        BY <1>1, <2>1, <2>2, <3>1, <3>2, <3>3 DEF Top
      <3>4. CASE v # t
        BY <1>1, <2>1, <3>1, <3>2, <3>4 DEF Under
      <3> QED  BY <3>3, <3>4
    <2> QED  BY <2>1, <2>3, <2>4, <2>5
  <1> QED  BY <1>3, <1>4

\* Where they lie after one was disabled.
LEMMA WithoutStacks ==
  ASSUME OrderOK, NEW i \in DOMAIN order, NEW t \in Tuners, order[i] = t,
         order' = Without(order, i), NEW s
  PROVE  /\ s \notin SettingsOf(t) =>
              /\ Users(s)' = Users(s)
              /\ \A u : Top(u, s)' => Top(u, s)
              /\ \A u : Bottom(u, s)' => Bottom(u, s)
              /\ \A u, v : Under(u, v, s)' => Under(u, v, s)
         /\ (s \in SettingsOf(t) /\ s \notin Overlaid(t)) =>
              /\ Top(t, s)
              /\ Users(s)' = {} => Bottom(t, s)
              /\ \A u : Top(u, s)' => Under(u, t, s)
              /\ \A u : Bottom(u, s)' => Bottom(u, s)
              /\ \A u, v : Under(u, v, s)' => Under(u, v, s)
  <1>1. /\ t \in Enabled /\ Enabled' = Enabled \ {t}
        /\ \A u, v : Before(u, v)' <=> (Before(u, v) /\ u # t /\ v # t)
    BY WithoutOrder
  <1>2. /\ \A u, v : Before(u, v) => u \in Enabled /\ v \in Enabled /\ u # v
        /\ \A u, v \in Enabled : u # v => Before(u, v) \/ Before(v, u)
    BY BeforeFacts
  <1>3. ASSUME s \notin SettingsOf(t)
        PROVE  /\ Users(s)' = Users(s)
               /\ \A u : Top(u, s)' => Top(u, s)
               /\ \A u : Bottom(u, s)' => Bottom(u, s)
               /\ \A u, v : Under(u, v, s)' => Under(u, v, s)
    <2>1. Users(s)' = Users(s) /\ t \notin Users(s)
      BY <1>1, <1>3 DEF Users
    <2> QED  BY <1>1, <2>1 DEF Top, Bottom, Under
  <1>4. ASSUME s \in SettingsOf(t), s \notin Overlaid(t)
        PROVE  /\ Top(t, s)
               /\ Users(s)' = {} => Bottom(t, s)
               /\ \A u : Top(u, s)' => Under(u, t, s)
               /\ \A u : Bottom(u, s)' => Bottom(u, s)
               /\ \A u, v : Under(u, v, s)' => Under(u, v, s)
    <2>1. Users(s)' = Users(s) \ {t} /\ t \in Users(s) /\ Users(s) \subseteq Enabled
      BY <1>1, <1>4 DEF Users
    <2>2. \A u \in Users(s) : ~Before(t, u)
      BY <1>4 DEF Users, Before, Overlaid
    <2>3. \A u \in Users(s) : u # t => Before(u, t)
      BY <1>2, <2>1, <2>2
    <2>4. Users(s)' = {} => Bottom(t, s)
      BY <1>2, <2>1 DEF Bottom
    <2>5. ASSUME NEW u, Top(u, s)' PROVE Under(u, t, s)
      <3>1. u \in Users(s) /\ u # t /\ \A v \in Users(s) : v # t => ~Before(u, v)
        BY <1>1, <2>1, <2>5 DEF Top
      <3> QED  BY <1>2, <2>1, <2>3, <3>1 DEF Under
    <2>6. ASSUME NEW u, Bottom(u, s)' PROVE Bottom(u, s)
      <3>1. u \in Users(s) /\ u # t /\ \A v \in Users(s) : v # t => ~Before(v, u)
        BY <1>1, <2>1, <2>6 DEF Bottom
      <3> QED  BY <2>2, <3>1 DEF Bottom
    <2>7. ASSUME NEW u, NEW v, Under(u, v, s)' PROVE Under(u, v, s)
      <3>1. /\ u \in Users(s) /\ v \in Users(s) /\ Before(u, v) /\ u # t /\ v # t
            /\ \A w \in Users(s) : w # t => ~(Before(u, w) /\ Before(w, v))
        BY <1>1, <2>1, <2>7 DEF Under
      <3> QED  BY <2>2, <3>1 DEF Under
    <2> QED  BY <2>1, <2>2, <2>4, <2>5, <2>6, <2>7 DEF Top
  <1> QED  BY <1>3, <1>4

-----------------------------------------------------------------------------
(* The inductive invariant                                                 *)

\* v is a value of s under which t, if it is the last to use s, is in effect.
Holds(t, s, v) ==
  \A k \in Indices(t) : W(t, k).set = s =>
    /\ v = W(t, k).to \/ <<t, s>> \in missed \/ (t \in idle /\ k > 1)
    /\ v \in {W(t, k).to, saved[t][s]}
    /\ t \in idle => v = saved[t][s]

\* The value of s that the call in progress starts from, or is to return to.
Base(s) ==
  IF job.doing \in {"enable", "undo"} THEN entry[s]
  ELSE IF job.doing = "disable" /\ s \in SettingsOf(job.tuner) THEN saved[job.tuner][s]
  ELSE sys[s]

\* A setting is a stack: each tuner saved what holds for the one below it, the
\* lowest saved the original value.
EmptyInv == \A s \in Settings \ (spoilt \cup NotRestored) : Users(s) = {} => Base(s) = original[s]
TopInv == \A s \in Settings \ spoilt : \A t \in Tuners : Top(t, s) => Holds(t, s, Base(s))
BottomInv ==
  \A s \in Settings \ (spoilt \cup NotRestored) : \A t \in Tuners :
    Bottom(t, s) => saved[t][s] = original[s]
UnderInv ==
  \A s \in Settings \ spoilt : \A u, t \in Tuners :
    Under(u, t, s) => Holds(u, s, saved[t][s])
StackInv == EmptyInv /\ TopInv /\ BottomInv /\ UnderInv

\* What t read is still needed.
Holding(t) ==
  \/ t \in Enabled
  \/ /\ job.tuner = t
     /\ \/ job.doing = "enable"
        \/ (job.doing \in {"undo", "disable"} /\ job.ahead # <<>>)

\* Where Disable writes a fixed value, that is what the tuner read.
SavedInv ==
  \A t \in Tuners : Holding(t) => \A k \in Indices(t) :
    /\ saved[t][W(t, k).set] \in Values[W(t, k).set]
    /\ (t \notin idle /\ W(t, k).set \notin spoilt \cup NotRestored /\ Fixed(W(t, k))) =>
         saved[t][W(t, k).set] = W(t, k).back

IdleInv ==
  \A t \in idle :
    /\ Code[t].already
    /\ t \in Enabled \/ (job.tuner = t /\ job.doing = "enable" /\ job.ahead = <<>>)

JobInv ==
  /\ job.doing \in {"enable", "undo", "disable"} => job.tuner \notin Enabled
  /\ Distinct(job.ahead)
  /\ job.doing \in {"enable", "undo"} =>
       \A s \in Settings \ SettingsOf(job.tuner) : sys[s] = entry[s]
  /\ job.doing = "run" =>
       job.tuner \in Enabled /\ Entries(job.ahead) \subseteq Entries(Code[job.tuner].runs)

\* The writes that Enable has done or skipped.
Done(t, k) == k \in Entries(Code[t].enables) /\ k \notin Entries(job.ahead)
Written(t, k) ==
  /\ saved[t][W(t, k).set] = entry[W(t, k).set]
  /\ sys[W(t, k).set] \in {W(t, k).to, entry[W(t, k).set]}
  /\ t \in idle => /\ sys[W(t, k).set] = entry[W(t, k).set]
                   /\ k = 1 => sys[W(t, k).set] = W(t, k).to
  /\ (t \notin idle /\ Done(t, k)) =>
       sys[W(t, k).set] = W(t, k).to \/ <<t, W(t, k).set>> \in missed
  /\ (\A j \in Indices(t) : W(t, j).set = W(t, k).set => ~Done(t, j)) =>
       sys[W(t, k).set] = entry[W(t, k).set]
EnableInv ==
  job.doing = "enable" =>
    /\ Increasing(job.ahead) /\ Entries(job.ahead) \subseteq Entries(Code[job.tuner].enables)
    /\ job.ahead # <<>> =>
         \A k \in Entries(Code[job.tuner].enables) :
           k >= Head(job.ahead) => k \in Entries(job.ahead)
    /\ \A k \in Indices(job.tuner) : Written(job.tuner, k)

\* Disable, or an Enable that failed, has taken back what is no longer ahead.
Target(s) == IF job.doing = "undo" THEN entry[s] ELSE saved[job.tuner][s]
TakenBackInv(t, k) ==
  /\ job.ahead # <<>> => saved[t][W(t, k).set] = Target(W(t, k).set)
  /\ W(t, k).set \notin spoilt \cup NotRestored =>
       /\ sys[W(t, k).set] \in {W(t, k).to, Target(W(t, k).set)}
       /\ (\A j \in Entries(job.ahead) : W(t, j).set # W(t, k).set) =>
            sys[W(t, k).set] = Target(W(t, k).set)
BackInv ==
  job.doing \in {"undo", "disable"} => \A k \in Indices(job.tuner) : TakenBackInv(job.tuner, k)

OriginalInv == \E o \in Originals : original = [s \in Settings |-> o[s]]

TuneInv ==
  /\ TypeOK /\ OriginalInv /\ StackInv /\ SavedInv /\ IdleInv
  /\ JobInv /\ EnableInv /\ BackInv

\* What TypeOK says of a call in progress.
LEMMA JobType ==
  ASSUME TypeOK
  PROVE  /\ job.doing \in {"nothing", "enable", "run", "undo", "disable"}
         /\ job.ahead \in Seq(Nat)
         /\ job.doing = "nothing" <=> job = NoJob
         /\ job.doing # "nothing" =>
              /\ job \in [tuner : Tuners, doing : {"enable", "run", "undo", "disable"}, ahead : Seq(Nat)]
              /\ job.tuner \in Tuners
              /\ Entries(job.ahead) \subseteq Indices(job.tuner)
  <1>1. CASE job = NoJob
    BY <1>1 DEF NoJob
  <1>2. CASE job # NoJob
    <2>1. /\ job \in [tuner : Tuners, doing : {"enable", "run", "undo", "disable"}, ahead : Seq(Nat)]
          /\ \A i \in DOMAIN job.ahead : job.ahead[i] \in DOMAIN Code[job.tuner].writes
      BY <1>2 DEF TypeOK
    <2> QED  BY <1>2, <2>1 DEF Entries, Indices, NoJob
  <1> QED  BY <1>1, <1>2

\* What TypeOK says of the order.
LEMMA TypeOrder ==
  ASSUME TypeOK
  PROVE  OrderOK
  BY DEF TypeOK, OrderOK, Distinct

\* A step that leaves each setting its base, or its one user a base under which
\* it holds, keeps the stacks.
LEMMA StacksKept ==
  ASSUME StackInv, TypeOK, order' = order, original' = original, spoilt \subseteq spoilt',
         \A u \in Enabled : saved'[u] = saved[u] /\ (u \in idle' <=> u \in idle),
         \A s \in Settings \ spoilt' :
           \/ /\ Base(s)' = Base(s)
              /\ \A u \in Enabled : <<u, s>> \in missed => <<u, s>> \in missed'
           \/ s \in NotRestored /\ Users(s) = {}
           \/ \E x \in Tuners : Users(s) = {x} /\ Holds(x, s, Base(s))'
  PROVE  StackInv'
  <1>1. /\ Enabled' = Enabled /\ \A s : Users(s)' = Users(s)
        /\ \A t, s : Top(t, s)' <=> Top(t, s)
        /\ \A t, s : Bottom(t, s)' <=> Bottom(t, s)
        /\ \A u, t, s : Under(u, t, s)' <=> Under(u, t, s)
    BY SameOrder
  <1>2. NotRestored' = NotRestored /\ Settings' = Settings
    BY DEF NotRestored
  <1>3. ASSUME NEW u \in Enabled, NEW s \in Settings, NEW v, Holds(u, s, v),
               <<u, s>> \in missed => <<u, s>> \in missed'
        PROVE  \A k \in Indices(u) : W(u, k).set = s =>
                 /\ v = W(u, k).to \/ <<u, s>> \in missed' \/ (u \in idle' /\ k > 1)
                 /\ v \in {W(u, k).to, saved'[u][s]}
                 /\ u \in idle' => v = saved'[u][s]
    BY <1>3 DEF Holds
  <1>4. EmptyInv'
    BY <1>1, <1>2 DEF StackInv, EmptyInv
  <1>5. TopInv'
    <2> SUFFICES ASSUME NEW s \in Settings, s \notin spoilt', NEW t \in Tuners, Top(t, s)
                 PROVE  Holds(t, s, Base(s))'
      BY <1>1 DEF TopInv
    <2>1. t \in Users(s) /\ t \in Enabled
      BY DEF Top, Users
    <2>2. CASE Base(s)' = Base(s) /\ (<<t, s>> \in missed => <<t, s>> \in missed')
      <3>1. Holds(t, s, Base(s))
        BY DEF StackInv, TopInv
      <3> QED  BY <1>3, <2>1, <2>2, <3>1 DEF Holds
    <2>3. ASSUME NEW x \in Tuners, Users(s) = {x}, Holds(x, s, Base(s))'
          PROVE  Holds(t, s, Base(s))'
      BY <2>1, <2>3
    <2> QED  BY <2>1, <2>2, <2>3
  <1>6. BottomInv'
    BY <1>1, <1>2 DEF StackInv, BottomInv, Bottom, Users
  <1>7. UnderInv'
    <2> SUFFICES ASSUME NEW s \in Settings, s \notin spoilt', NEW u \in Tuners, NEW t \in Tuners,
                        Under(u, t, s)
                 PROVE  Holds(u, s, saved[t][s])'
      BY <1>1 DEF UnderInv
    <2>1. u \in Enabled /\ t \in Enabled
      BY DEF Under, Users
    <2>2. Holds(u, s, saved[t][s]) /\ saved'[t] = saved[t]
      BY <2>1 DEF StackInv, UnderInv
    <2>3. u \in Users(s) /\ t \in Users(s) /\ u # t
      BY TypeOrder, BeforeFacts DEF Under
    <2>4. <<u, s>> \in missed => <<u, s>> \in missed'
      BY <2>1, <2>3
    <2> QED  BY <1>3, <2>1, <2>2, <2>4 DEF Holds
  <1> QED  BY <1>4, <1>5, <1>6, <1>7 DEF StackInv

\* The call that begins next finds no call in progress.
LEMMA BeginFacts ==
  ASSUME TuneInv, NEW t \in Tuners, NEW doing \in {"enable", "run", "undo", "disable"},
         NEW ahead \in Seq(Nat), Entries(ahead) \subseteq Indices(t), Begin(t, doing, ahead)
  PROVE  /\ job.doing = "nothing" /\ job.tuner = "none" /\ job.ahead = <<>>
         /\ job'.tuner = t /\ job'.doing = doing /\ job'.ahead = ahead
         /\ job' \in [tuner : Tuners, doing : {"enable", "run", "undo", "disable"}, ahead : Seq(Nat)]
         /\ \A i \in DOMAIN job'.ahead : job'.ahead[i] \in DOMAIN Code[job'.tuner].writes
         /\ sys' = sys /\ original' = original /\ missed' = missed /\ faults' = faults /\ entry' = sys
         /\ jobs' \in 0..MaxJobs /\ OriginalInv' /\ NotRestored' = NotRestored
         /\ \A s \in Settings : Base(s) = sys[s]
  <1>1. job = NoJob /\ job' = [tuner |-> t, doing |-> doing, ahead |-> ahead]
    BY DEF Begin
  <1>2. job.doing = "nothing" /\ job.tuner = "none" /\ job.ahead = <<>>
    BY <1>1 DEF NoJob
  <1>3. job' \in [tuner : Tuners, doing : {"enable", "run", "undo", "disable"}, ahead : Seq(Nat)]
    BY <1>1
  <1>4. \A i \in DOMAIN job'.ahead : job'.ahead[i] \in DOMAIN Code[job'.tuner].writes
    BY <1>1 DEF Entries, Indices
  <1>5. sys' = sys /\ original' = original /\ missed' = missed /\ faults' = faults /\ entry' = sys
    BY DEF Begin
  <1>6. jobs' \in 0..MaxJobs
    BY TuneBoundsAssumption DEF Begin, TuneInv, TypeOK
  <1>7. OriginalInv' /\ NotRestored' = NotRestored
    BY <1>5 DEF TuneInv, OriginalInv, NotRestored
  <1>8. \A s \in Settings : Base(s) = sys[s]
    BY <1>2 DEF Base
  <1> QED  BY <1>1, <1>2, <1>3, <1>4, <1>5, <1>6, <1>7, <1>8

\* Enable reads what it will restore. A setting that is restored to a fixed value
\* has no other user, and is found at its original value.
LEMMA EnableBeginsKeeps ==
  ASSUME TuneInv, NEW t \in Tuners, EnableBegins(t)
  PROVE  TuneInv'
  <1> DEFINE a == IF Already(t) THEN <<>> ELSE Code[t].enables
  <1>1. /\ a \in Seq(Nat) /\ Increasing(a) /\ Distinct(a)
        /\ Entries(a) \subseteq Indices(t) /\ Entries(a) \subseteq Entries(Code[t].enables)
    BY IndexFacts, EmptyFacts, IncreasingDistinct
  <1>2. t \notin Enabled /\ Begin(t, "enable", a) /\ order' = order /\ spoilt' = spoilt
    BY DEF EnableBegins
  <1>3. saved' = [saved EXCEPT ![t] = [s \in SettingsOf(t) |-> sys[s]]]
    BY DEF EnableBegins
  <1>4. idle' = IF Already(t) THEN idle \cup {t} ELSE idle
    BY DEF EnableBegins
  <1>5. (Already(t) => a = <<>>) /\ (~Already(t) => a = Code[t].enables)
    OBVIOUS
  <1> HIDE DEF a
  <1>6. /\ job.doing = "nothing" /\ job.tuner = "none" /\ job.ahead = <<>>
        /\ job'.tuner = t /\ job'.doing = "enable" /\ job'.ahead = a
        /\ job' \in [tuner : Tuners, doing : {"enable", "run", "undo", "disable"}, ahead : Seq(Nat)]
        /\ \A i \in DOMAIN job'.ahead : job'.ahead[i] \in DOMAIN Code[job'.tuner].writes
        /\ sys' = sys /\ original' = original /\ missed' = missed /\ faults' = faults /\ entry' = sys
        /\ jobs' \in 0..MaxJobs /\ OriginalInv' /\ NotRestored' = NotRestored
        /\ \A s \in Settings : Base(s) = sys[s]
    BY <1>1, <1>2, BeginFacts
  <1>7. TypeOK /\ StackInv /\ SavedInv /\ IdleInv /\ DOMAIN saved = Tuners /\ idle \subseteq Tuners
    BY DEF TuneInv, TypeOK
  <1>8. /\ DOMAIN saved' = Tuners
        /\ \A s \in SettingsOf(t) : saved'[t][s] = sys[s]
        /\ \A u \in Tuners : u # t => saved'[u] = saved[u]
    BY <1>3, <1>7
  <1>9. /\ t \notin idle /\ \A u \in Tuners : u # t => (u \in idle' <=> u \in idle)
        /\ t \in idle' <=> Already(t)
        /\ idle' \subseteq Tuners
    BY <1>2, <1>4, <1>6, <1>7 DEF IdleInv
  <1>10. /\ SettingsOf(t) \subseteq Settings
         /\ \A k \in Indices(t) : W(t, k).set \in SettingsOf(t)
         /\ \A s \in Settings : sys[s] \in Values[s]
    BY <1>7, SettingsOfSettings DEF TypeOK
  <1>11. TypeOK'
    <2>1. \A u \in Tuners : \A s \in SettingsOf(u) : saved'[u][s] \in Values[s] \cup {NoValue}
      BY <1>7, <1>8, <1>10 DEF TypeOK
    <2>2. /\ {sys', original', entry'} \subseteq [Settings -> UNION {Values[s] : s \in Settings}]
          /\ \A s \in Settings : {sys'[s], original'[s], entry'[s]} \subseteq Values[s]
          /\ missed' \subseteq Tuners \X Settings /\ spoilt' \subseteq Settings
          /\ jobs' \in 0..MaxJobs /\ faults' \in 0..MaxFaults
      BY <1>2, <1>6, <1>7 DEF TypeOK
    <2>3. order' \in Seq(Tuners) /\ \A i, j \in DOMAIN order' : order'[i] = order'[j] => i = j
      BY <1>2, <1>7 DEF TypeOK
    <2> QED  BY <1>6, <1>8, <1>9, <2>1, <2>2, <2>3 DEF TypeOK
  <1>12. Enabled' = Enabled /\ Enabled \subseteq Tuners
    BY <1>2, <1>7, SameOrder, TypeOrder, BeforeFacts
  <1>13. StackInv'
    <2>1. \A s \in Settings : Base(s)' = Base(s)
      BY <1>6 DEF Base
    <2>2. \A u \in Enabled : saved'[u] = saved[u] /\ (u \in idle' <=> u \in idle)
      BY <1>2, <1>8, <1>9, <1>12
    <2> QED  BY <1>2, <1>6, <1>7, <2>1, <2>2, StacksKept
  <1>14. SavedInv'
    <2> SUFFICES ASSUME NEW u \in Tuners, Holding(u)', NEW k \in Indices(u)
                 PROVE  /\ saved'[u][W(u, k).set] \in Values[W(u, k).set]
                        /\ (/\ u \notin idle' /\ W(u, k).set \notin spoilt' \cup NotRestored'
                            /\ Fixed(W(u, k))) =>
                             saved'[u][W(u, k).set] = W(u, k).back
      BY DEF SavedInv
    <2>1. CASE u # t
      <3>1. u \in Enabled /\ Holding(u)
        BY <1>6, <1>12, <2>1 DEF Holding
      <3> QED  BY <1>2, <1>6, <1>7, <1>8, <1>9, <2>1, <3>1 DEF SavedInv
    <2>2. CASE u = t
      <3> DEFINE s == W(t, k).set
      <3>1. s \in SettingsOf(t) /\ s \in Settings /\ saved'[t][s] = sys[s] /\ sys[s] \in Values[s]
        BY <1>8, <1>10, <2>2
      <3>2. ASSUME t \notin idle', s \notin spoilt \cup NotRestored, Fixed(W(t, k))
            PROVE  sys[s] = W(t, k).back
        <4>1. Users(s) = {}
          BY <1>2, <1>12, <2>2, <3>2, PrivateSetting DEF Users
        <4>2. sys[s] = original[s]
          BY <1>6, <1>7, <3>1, <3>2, <4>1 DEF StackInv, EmptyInv
        <4>3. CASE ~Code[t].already
          BY <2>2, <3>2, <4>2, <4>3, FixedRestored
        <4>4. CASE Code[t].already
          <5>1. k = 1
            BY <2>2, <3>2, <4>4, WriteFacts
          <5>2. sys[s] # W(t, 1).to
            BY <1>9, <3>2, <4>4, <5>1 DEF Already, W
          <5>3. original[s] \in {W(t, 1).to, W(t, 1).back}
            <6>1. PICK o \in Originals : original = [x \in Settings |-> o[x]]
              BY DEF TuneInv, OriginalInv
            <6>2. o[W(t, 1).set] \in {W(t, 1).to, W(t, 1).back}
              BY <4>4, OriginalsAssumption DEF W
            <6> QED  BY <3>1, <5>1, <6>1, <6>2
          <5> QED  BY <4>2, <5>1, <5>2, <5>3
        <4> QED  BY <4>3, <4>4
      <3> QED  BY <1>2, <1>6, <2>2, <3>1, <3>2
    <2> QED  BY <2>1, <2>2
  <1>15. IdleInv'
    <2> SUFFICES ASSUME NEW u \in idle'
                 PROVE  /\ Code[u].already
                        /\ u \in Enabled' \/ (job'.tuner = u /\ job'.doing = "enable" /\ job'.ahead = <<>>)
      BY DEF IdleInv
    <2>1. CASE u = t
      BY <1>5, <1>6, <1>9, <2>1 DEF Already
    <2>2. CASE u # t
      BY <1>6, <1>7, <1>9, <1>12, <2>2 DEF IdleInv
    <2> QED  BY <2>1, <2>2
  <1>16. JobInv'
    BY <1>1, <1>2, <1>6, <1>12 DEF JobInv
  <1>17. EnableInv'
    <2>1. ASSUME NEW k \in Indices(t) PROVE Written(t, k)'
      <3>1. saved'[t][W(t, k).set] = sys[W(t, k).set]
        BY <1>8, <1>10
      <3>2. t \in idle' => (k = 1 => sys[W(t, k).set] = W(t, k).to)
        BY <1>9 DEF Already, W
      <3>3. ASSUME t \notin idle' PROVE ~Done(t, k)'
        BY <1>5, <1>6, <1>9, <3>3 DEF Done
      <3> QED  BY <1>6, <3>1, <3>2, <3>3 DEF Written
    <2>2. a # <<>> => a = Code[t].enables
      BY <1>5
    <2> QED  BY <1>1, <1>6, <2>1, <2>2 DEF EnableInv
  <1>18. BackInv'
    BY <1>6 DEF BackInv
  <1> QED  BY <1>6, <1>11, <1>13, <1>14, <1>15, <1>16, <1>17, <1>18 DEF TuneInv

\* Enable refuses before it reads or writes anything.
LEMMA EnableRefusedKeeps ==
  ASSUME TuneInv, NEW t \in Tuners, EnableRefused(t)
  PROVE  TuneInv'
  <1>1. /\ t \notin Enabled /\ Begin(t, "undo", <<>>)
        /\ order' = order /\ spoilt' = spoilt /\ saved' = saved /\ idle' = idle
    BY DEF EnableRefused
  <1>2. /\ job.doing = "nothing" /\ job.tuner = "none" /\ job.ahead = <<>>
        /\ job'.tuner = t /\ job'.doing = "undo" /\ job'.ahead = <<>>
        /\ job' \in [tuner : Tuners, doing : {"enable", "run", "undo", "disable"}, ahead : Seq(Nat)]
        /\ \A i \in DOMAIN job'.ahead : job'.ahead[i] \in DOMAIN Code[job'.tuner].writes
        /\ sys' = sys /\ original' = original /\ missed' = missed /\ faults' = faults /\ entry' = sys
        /\ jobs' \in 0..MaxJobs /\ OriginalInv' /\ NotRestored' = NotRestored
        /\ \A s \in Settings : Base(s) = sys[s]
    BY <1>1, BeginFacts, EmptyFacts
  <1>3. TypeOK /\ StackInv /\ SavedInv /\ IdleInv
    BY DEF TuneInv
  <1>4. TypeOK'
    BY <1>1, <1>2, <1>3 DEF TypeOK
  <1>5. Enabled' = Enabled
    BY <1>1, SameOrder
  <1>6. StackInv'
    <2>1. \A s \in Settings : Base(s)' = Base(s)
      BY <1>2 DEF Base
    <2> QED  BY <1>1, <1>2, <1>3, <2>1, StacksKept
  <1>7. SavedInv'
    <2>1. \A u : Holding(u)' => Holding(u)
      BY <1>2, <1>5 DEF Holding
    <2> QED  BY <1>1, <1>2, <1>3, <2>1 DEF SavedInv
  <1>8. IdleInv'
    BY <1>1, <1>2, <1>3, <1>5 DEF IdleInv
  <1>9. JobInv'
    BY <1>1, <1>2, <1>5, EmptyFacts DEF JobInv
  <1>10. EnableInv'
    BY <1>2 DEF EnableInv
  <1>11. BackInv'
    BY <1>2 DEF BackInv, TakenBackInv, Target
  <1> QED  BY <1>2, <1>4, <1>6, <1>7, <1>8, <1>9, <1>10, <1>11 DEF TuneInv

\* Run begins.
LEMMA RunBeginsKeeps ==
  ASSUME TuneInv, NEW t \in Tuners, RunBegins(t)
  PROVE  TuneInv'
  <1>1. /\ t \in Enabled /\ Begin(t, "run", Code[t].runs)
        /\ order' = order /\ spoilt' = spoilt /\ saved' = saved /\ idle' = idle
    BY DEF RunBegins
  <1>2. /\ Code[t].runs \in Seq(Nat) /\ Distinct(Code[t].runs)
        /\ Entries(Code[t].runs) \subseteq Indices(t)
    BY IndexFacts
  <1>3. /\ job.doing = "nothing" /\ job.tuner = "none" /\ job.ahead = <<>>
        /\ job'.tuner = t /\ job'.doing = "run" /\ job'.ahead = Code[t].runs
        /\ job' \in [tuner : Tuners, doing : {"enable", "run", "undo", "disable"}, ahead : Seq(Nat)]
        /\ \A i \in DOMAIN job'.ahead : job'.ahead[i] \in DOMAIN Code[job'.tuner].writes
        /\ sys' = sys /\ original' = original /\ missed' = missed /\ faults' = faults /\ entry' = sys
        /\ jobs' \in 0..MaxJobs /\ OriginalInv' /\ NotRestored' = NotRestored
        /\ \A s \in Settings : Base(s) = sys[s]
    BY <1>1, <1>2, BeginFacts
  <1>4. TypeOK /\ StackInv /\ SavedInv /\ IdleInv
    BY DEF TuneInv
  <1>5. TypeOK'
    BY <1>1, <1>3, <1>4 DEF TypeOK
  <1>6. Enabled' = Enabled
    BY <1>1, SameOrder
  <1>7. StackInv'
    <2>1. \A s \in Settings : Base(s)' = Base(s)
      BY <1>3 DEF Base
    <2> QED  BY <1>1, <1>3, <1>4, <2>1, StacksKept
  <1>8. SavedInv'
    <2>1. \A u : Holding(u)' => Holding(u)
      BY <1>3, <1>6 DEF Holding
    <2> QED  BY <1>1, <1>3, <1>4, <2>1 DEF SavedInv
  <1>9. IdleInv'
    BY <1>1, <1>3, <1>4, <1>6 DEF IdleInv
  <1>10. JobInv'
    BY <1>1, <1>2, <1>3, <1>6 DEF JobInv
  <1>11. EnableInv' /\ BackInv'
    BY <1>3 DEF EnableInv, BackInv
  <1> QED  BY <1>3, <1>5, <1>7, <1>8, <1>9, <1>10, <1>11 DEF TuneInv

\* What a step that leaves the order and what was saved has to keep.
LEMMA TypeKept ==
  ASSUME TypeOK, original' = original, entry' = entry, order' = order, saved' = saved,
         sys' \in [Settings -> UNION {Values[s] : s \in Settings}],
         \A s \in Settings : sys'[s] \in Values[s],
         idle' \subseteq Tuners, missed' \subseteq Tuners \X Settings, spoilt' \subseteq Settings,
         \/ job' = NoJob
         \/ /\ job' \in [tuner : Tuners, doing : {"enable", "run", "undo", "disable"}, ahead : Seq(Nat)]
            /\ \A i \in DOMAIN job'.ahead : job'.ahead[i] \in DOMAIN Code[job'.tuner].writes,
         jobs' \in 0..MaxJobs, faults' \in 0..MaxFaults
  PROVE  TypeOK'
  <1>1. /\ {sys', original', entry'} \subseteq [Settings -> UNION {Values[s] : s \in Settings}]
        /\ \A s \in Settings : {sys'[s], original'[s], entry'[s]} \subseteq Values[s]
    <2> DEFINE F == [Settings -> UNION {Values[s] : s \in Settings}]
    <2>1. sys' \in F /\ original \in F /\ entry \in F
      BY DEF TypeOK
    <2>2. \A s \in Settings : original[s] \in Values[s] /\ entry[s] \in Values[s]
      BY DEF TypeOK
    <2> HIDE DEF F
    <2>3. {sys', original', entry'} \subseteq F
      BY <2>1
    <2>4. \A s \in Settings : {sys'[s], original'[s], entry'[s]} \subseteq Values[s]
      BY <2>2
    <2> QED  BY <2>3, <2>4 DEF F
  <1>2. order' \in Seq(Tuners) /\ \A i, j \in DOMAIN order' : order'[i] = order'[j] => i = j
    BY DEF TypeOK
  <1>3. /\ DOMAIN saved' = Tuners
        /\ \A t \in Tuners : \A s \in SettingsOf(t) : saved'[t][s] \in Values[s] \cup {NoValue}
    BY DEF TypeOK
  <1> QED  BY <1>1, <1>2, <1>3 DEF TypeOK

\* The write at hand.
LEMMA NowFacts ==
  ASSUME TuneInv, job.doing # "nothing", job.ahead # <<>>
  PROVE  /\ job.tuner \in Tuners /\ Head(job.ahead) \in Indices(job.tuner)
         /\ Head(job.ahead) \in Entries(job.ahead)
         /\ Now = W(job.tuner, Head(job.ahead))
         /\ Now.set \in SettingsOf(job.tuner) /\ Now.set \in Settings
         /\ job.tuner \notin idle \/ job.tuner \in Enabled
  <1>1. job.tuner \in Tuners /\ Entries(job.ahead) \subseteq Indices(job.tuner) /\ job.ahead \in Seq(Nat)
    BY JobType DEF TuneInv
  <1>2. Head(job.ahead) \in Entries(job.ahead)
    BY <1>1, TailFacts DEF TuneInv, JobInv
  <1>3. Now = W(job.tuner, Head(job.ahead))
    BY DEF Now, W
  <1>4. job.tuner \notin idle \/ job.tuner \in Enabled
    BY DEF TuneInv, IdleInv
  <1> QED  BY <1>1, <1>2, <1>3, <1>4, SettingsOfSettings

\* The call goes on with other writes ahead.
LEMMA ContinueFacts ==
  ASSUME TuneInv, job.doing # "nothing", NEW a \in Seq(Nat),
         Entries(a) \subseteq Entries(job.ahead), Continue(a)
  PROVE  /\ job'.tuner = job.tuner /\ job'.doing = job.doing /\ job'.ahead = a
         /\ job' \in [tuner : Tuners, doing : {"enable", "run", "undo", "disable"}, ahead : Seq(Nat)]
         /\ \A i \in DOMAIN job'.ahead : job'.ahead[i] \in DOMAIN Code[job'.tuner].writes
  <1>1. /\ job \in [tuner : Tuners, doing : {"enable", "run", "undo", "disable"}, ahead : Seq(Nat)]
        /\ Entries(job.ahead) \subseteq Indices(job.tuner)
    BY JobType DEF TuneInv
  <1>2. /\ job'.tuner = job.tuner /\ job'.doing = job.doing /\ job'.ahead = a
        /\ job' \in [tuner : Tuners, doing : {"enable", "run", "undo", "disable"}, ahead : Seq(Nat)]
    BY <1>1 DEF Continue
  <1> QED  BY <1>1, <1>2 DEF Entries, Indices

\* The writes that are left when the one at hand is done or skipped.
LEMMA ContinueTail ==
  ASSUME TuneInv, job.doing # "nothing", job.ahead # <<>>, Continue(Tail(job.ahead))
  PROVE  /\ job'.tuner = job.tuner /\ job'.doing = job.doing /\ job'.ahead = Tail(job.ahead)
         /\ job' \in [tuner : Tuners, doing : {"enable", "run", "undo", "disable"}, ahead : Seq(Nat)]
         /\ \A i \in DOMAIN job'.ahead : job'.ahead[i] \in DOMAIN Code[job'.tuner].writes
         /\ Distinct(job'.ahead) /\ Entries(job'.ahead) = Entries(job.ahead) \ {Head(job.ahead)}
  <1>1. job.ahead \in Seq(Nat) /\ Distinct(job.ahead)
    BY JobType DEF TuneInv, JobInv
  <1>2. /\ Tail(job.ahead) \in Seq(Nat) /\ Distinct(Tail(job.ahead))
        /\ Entries(Tail(job.ahead)) = Entries(job.ahead) \ {Head(job.ahead)}
    BY <1>1, TailFacts
  <1>3. Entries(Tail(job.ahead)) \subseteq Entries(job.ahead)
    BY <1>2
  <1>4. /\ job'.tuner = job.tuner /\ job'.doing = job.doing /\ job'.ahead = Tail(job.ahead)
        /\ job' \in [tuner : Tuners, doing : {"enable", "run", "undo", "disable"}, ahead : Seq(Nat)]
        /\ \A i \in DOMAIN job'.ahead : job'.ahead[i] \in DOMAIN Code[job'.tuner].writes
    BY <1>2, <1>3, ContinueFacts
  <1> QED  BY <1>2, <1>4

\* Enable goes through its writes in order.
LEMMA EnableTail ==
  ASSUME TuneInv, job.doing = "enable", job.ahead # <<>>, Continue(Tail(job.ahead)),
         NEW t \in Tuners, t = job.tuner
  PROVE  /\ Increasing(job'.ahead) /\ Entries(job'.ahead) \subseteq Entries(Code[t].enables)
         /\ job'.ahead # <<>> => \A k \in Entries(Code[t].enables) :
              k >= Head(job'.ahead) => k \in Entries(job'.ahead)
         /\ Head(job.ahead) \in Entries(Code[t].enables)
         /\ \A k \in Indices(t) : Done(t, k)' <=> (Done(t, k) \/ k = Head(job.ahead))
  <1> DEFINE h == Head(job.ahead)
  <1>1. /\ job'.tuner = t /\ job'.ahead = Tail(job.ahead)
        /\ Entries(job'.ahead) = Entries(job.ahead) \ {h}
    BY ContinueTail
  <1>2. /\ job.ahead \in Seq(Nat) /\ Distinct(job.ahead) /\ Increasing(job.ahead)
        /\ Entries(job.ahead) \subseteq Entries(Code[t].enables)
        /\ \A k \in Entries(Code[t].enables) : k >= h => k \in Entries(job.ahead)
    BY JobType DEF TuneInv, JobInv, EnableInv
  <1>3. /\ h \in Entries(job.ahead) /\ h \in Nat /\ Tail(job.ahead) \in Seq(Nat)
        /\ Increasing(Tail(job.ahead)) /\ (Tail(job.ahead) # <<>> => h < Head(Tail(job.ahead)))
        /\ (Tail(job.ahead) # <<>> => Head(Tail(job.ahead)) \in Nat)
    BY <1>2, TailFacts
  <1>4. Entries(Code[t].enables) \subseteq Nat
    BY NowFacts, IndexFacts
  <1>5. ASSUME Tail(job.ahead) # <<>>, NEW k \in Entries(Code[t].enables), k >= Head(Tail(job.ahead))
        PROVE  k \in Entries(job.ahead) \ {h}
    <2> DEFINE g == Head(Tail(job.ahead))
    <2>1. h \in Nat /\ g \in Nat /\ k \in Nat /\ h < g /\ k >= g
      BY <1>3, <1>4, <1>5
    <2> HIDE DEF g, h
    <2>2. k >= h /\ k # h
      BY <2>1
    <2> QED  BY <1>2, <2>2
  <1>6. \A k \in Indices(t) : Done(t, k)' <=> (Done(t, k) \/ k = h)
    BY <1>1, <1>2, <1>3 DEF Done
  <1> QED  BY <1>1, <1>2, <1>3, <1>5, <1>6

\* Enable or Run writes a setting. What Run writes is its own tuner's, which is
\* therefore on top of it.
LEMMA EnableWritesKeeps ==
  ASSUME TuneInv, EnableWrites
  PROVE  TuneInv'
  <1>0. PICK t, k, x : t = job.tuner /\ k = Head(job.ahead) /\ x = Now.set
    OBVIOUS
  <1>1. /\ job.doing \in {"enable", "run"} /\ job.ahead # <<>> /\ Continue(Tail(job.ahead))
        /\ sys' = [sys EXCEPT ![x] = W(t, k).to] /\ missed' = missed \ {<<t, x>>}
        /\ original' = original /\ order' = order /\ saved' = saved /\ idle' = idle
        /\ entry' = entry /\ spoilt' = spoilt /\ jobs' = jobs /\ faults' = faults
    BY <1>0 DEF EnableWrites, Now, W
  <1>2. /\ t \in Tuners /\ k \in Indices(t) /\ k \in Entries(job.ahead) /\ x = W(t, k).set
        /\ x \in SettingsOf(t) /\ x \in Settings /\ (t \notin idle \/ t \in Enabled)
    BY <1>0, <1>1, NowFacts
  <1>3. /\ job'.tuner = t /\ job'.doing = job.doing /\ job'.ahead = Tail(job.ahead)
        /\ job' \in [tuner : Tuners, doing : {"enable", "run", "undo", "disable"}, ahead : Seq(Nat)]
        /\ \A i \in DOMAIN job'.ahead : job'.ahead[i] \in DOMAIN Code[job'.tuner].writes
        /\ Distinct(job'.ahead) /\ Entries(job'.ahead) = Entries(job.ahead) \ {k}
    BY <1>0, <1>1, ContinueTail
  <1>4. TypeOK /\ OriginalInv /\ StackInv /\ SavedInv /\ IdleInv /\ JobInv /\ EnableInv
    BY DEF TuneInv
  <1>5. job.doing = "enable" =>
          /\ Increasing(job'.ahead) /\ Entries(job'.ahead) \subseteq Entries(Code[t].enables)
          /\ job'.ahead # <<>> => \A j \in Entries(Code[t].enables) :
               j >= Head(job'.ahead) => j \in Entries(job'.ahead)
          /\ k \in Entries(Code[t].enables)
          /\ \A j \in Indices(t) : Done(t, j)' <=> (Done(t, j) \/ j = k)
    BY <1>0, <1>1, <1>2, EnableTail
  <1>6. /\ sys' \in [Settings -> UNION {Values[s] : s \in Settings}]
        /\ sys'[x] = W(t, k).to /\ W(t, k).to \in Values[x]
        /\ \A s \in Settings : s # x => sys'[s] = sys[s]
    <2>1. W(t, k).to \in Values[x] /\ W(t, k).to \in UNION {Values[s] : s \in Settings}
      BY <1>2, ValuesFacts
    <2>2. sys \in [Settings -> UNION {Values[s] : s \in Settings}]
      BY <1>4 DEF TypeOK
    <2> QED  BY <1>1, <1>2, <2>1, <2>2
  <1>7. TypeOK'
    <2>1. \A s \in Settings : sys'[s] \in Values[s]
      BY <1>4, <1>6 DEF TypeOK
    <2>2. missed' \subseteq Tuners \X Settings
      BY <1>1, <1>4 DEF TypeOK
    <2>3. /\ idle' \subseteq Tuners /\ spoilt' \subseteq Settings
          /\ jobs' \in 0..MaxJobs /\ faults' \in 0..MaxFaults
      BY <1>1, <1>4 DEF TypeOK
    <2> QED  BY <1>1, <1>3, <1>4, <1>6, <2>1, <2>2, <2>3, TypeKept
  <1>8. Enabled' = Enabled /\ NotRestored' = NotRestored /\ OriginalInv'
    BY <1>1, <1>4, SameOrder DEF NotRestored, OriginalInv
  <1>9. IdleInv' /\ \A u \in idle : u \in Enabled
    BY <1>1, <1>4, <1>8 DEF IdleInv
  <1>10. SavedInv'
    <2>1. \A u : Holding(u)' => Holding(u)
      BY <1>0, <1>1, <1>3, <1>8 DEF Holding
    <2> QED  BY <1>1, <1>4, <1>8, <2>1 DEF SavedInv
  <1>11. JobInv'
    <2>1. job.doing = "enable" => \A s \in Settings \ SettingsOf(t) : sys'[s] = entry'[s]
      BY <1>0, <1>1, <1>2, <1>4, <1>6 DEF JobInv
    <2> QED  BY <1>0, <1>1, <1>3, <1>4, <1>8, <2>1 DEF JobInv
  <1>12. BackInv'
    BY <1>1, <1>3 DEF BackInv
  <1>13. CASE job.doing = "enable"
    <2>1. t \notin Enabled /\ t \notin idle
      BY <1>0, <1>4, <1>9, <1>13 DEF JobInv
    <2>2. StackInv'
      <3>1. \A s \in Settings : Base(s)' = Base(s)
        BY <1>1, <1>3, <1>13 DEF Base
      <3>2. \A s \in Settings : \A u \in Enabled : <<u, s>> \in missed => <<u, s>> \in missed'
        BY <1>1, <2>1
      <3> QED  BY <1>1, <1>4, <3>1, <3>2, StacksKept
    <2>3. ASSUME NEW j \in Indices(t) PROVE Written(t, j)'
      <3>1. Written(t, j)
        BY <1>0, <1>4, <1>13 DEF EnableInv
      <3>2. CASE W(t, j).set = x
        <4>1. W(t, j).to = W(t, k).to
          BY <1>2, <3>2, SameSetting
        <4>2. Done(t, k)'
          BY <1>2, <1>5, <1>13
        <4> QED  BY <1>1, <1>2, <1>6, <2>1, <3>1, <3>2, <4>1, <4>2 DEF Written
      <3>3. CASE W(t, j).set # x
        <4>1. W(t, j).set \in Settings /\ sys'[W(t, j).set] = sys[W(t, j).set]
          BY <1>2, <1>6, <3>3, SettingsOfSettings
        <4>2. \A i \in Indices(t) : W(t, i).set = W(t, j).set => (Done(t, i)' <=> Done(t, i))
          BY <1>2, <1>5, <1>13, <3>3
        <4>3. <<t, W(t, j).set>> \in missed' <=> <<t, W(t, j).set>> \in missed
          BY <1>1, <3>3
        <4> QED  BY <1>1, <2>1, <3>1, <4>1, <4>2, <4>3 DEF Written
      <3> QED  BY <3>2, <3>3
    <2>4. EnableInv'
      BY <1>3, <1>5, <1>13, <2>3 DEF EnableInv
    <2> QED  BY <1>7, <1>8, <1>9, <1>10, <1>11, <1>12, <2>2, <2>4 DEF TuneInv
  <1>14. CASE job.doing = "run"
    <2>1. t \in Enabled /\ k \in Entries(Code[t].runs)
      BY <1>0, <1>2, <1>4, <1>14 DEF JobInv
    <2>2. t \notin idle
      BY <1>2, <1>4, <2>1, WriteFacts DEF IdleInv
    <2>3. Users(x) = {t}
      <3>1. Enabled \subseteq Tuners
        BY <1>4, TypeOrder, BeforeFacts
      <3> QED  BY <1>2, <2>1, <3>1, PrivateSetting DEF Users
    <2>4. \A s \in Settings : Base(s)' = sys'[s] /\ Base(s) = sys[s]
      BY <1>3, <1>14 DEF Base
    <2>5. Holds(t, x, Base(x))'
      <3>1. \A j \in Indices(t) : W(t, j).set = x => W(t, j).to = sys'[x]
        BY <1>2, <1>6, SameSetting
      <3> QED  BY <1>1, <1>2, <2>2, <2>4, <3>1 DEF Holds
    <2>6. ASSUME NEW s \in Settings, s # x
          PROVE  /\ Base(s)' = Base(s)
                 /\ \A u \in Enabled : <<u, s>> \in missed => <<u, s>> \in missed'
      BY <1>1, <1>6, <2>4, <2>6
    <2>7. \A s \in Settings \ spoilt' :
            \/ /\ Base(s)' = Base(s)
               /\ \A u \in Enabled : <<u, s>> \in missed => <<u, s>> \in missed'
            \/ \E v \in Tuners : Users(s) = {v} /\ Holds(v, s, Base(s))'
      BY <1>2, <2>3, <2>5, <2>6
    <2>8. StackInv'
      BY <1>1, <1>4, <2>7, StacksKept
    <2>9. EnableInv'
      BY <1>3, <1>14 DEF EnableInv
    <2> QED  BY <1>7, <1>8, <1>9, <1>10, <1>11, <1>12, <2>8, <2>9 DEF TuneInv
  <1> QED  BY <1>1, <1>13, <1>14

\* A write that fails and that Enable or Run passes over.
LEMMA SkipKeeps ==
  ASSUME TuneInv, NEW t, NEW x, t = job.tuner, x = Now.set,
         job.doing \in {"enable", "run"}, job.ahead # <<>>, Continue(Tail(job.ahead)),
         missed' = missed \cup {<<t, x>>}, faults' \in 0..MaxFaults,
         UNCHANGED <<sys, original, order, saved, idle, entry, spoilt, jobs>>
  PROVE  TuneInv'
  <1>0. PICK k : k = Head(job.ahead)
    OBVIOUS
  <1>1. /\ t \in Tuners /\ k \in Indices(t) /\ x = W(t, k).set /\ x \in Settings
        /\ (t \notin idle \/ t \in Enabled)
    BY <1>0, NowFacts
  <1>2. /\ job'.tuner = t /\ job'.doing = job.doing /\ job'.ahead = Tail(job.ahead)
        /\ job' \in [tuner : Tuners, doing : {"enable", "run", "undo", "disable"}, ahead : Seq(Nat)]
        /\ \A i \in DOMAIN job'.ahead : job'.ahead[i] \in DOMAIN Code[job'.tuner].writes
        /\ Distinct(job'.ahead) /\ Entries(job'.ahead) = Entries(job.ahead) \ {k}
    BY <1>0, ContinueTail
  <1>3. TypeOK /\ OriginalInv /\ StackInv /\ SavedInv /\ IdleInv /\ JobInv /\ EnableInv
    BY DEF TuneInv
  <1>4. job.doing = "enable" =>
          /\ Increasing(job'.ahead) /\ Entries(job'.ahead) \subseteq Entries(Code[t].enables)
          /\ job'.ahead # <<>> => \A j \in Entries(Code[t].enables) :
               j >= Head(job'.ahead) => j \in Entries(job'.ahead)
          /\ \A j \in Indices(t) : Done(t, j)' <=> (Done(t, j) \/ j = k)
    BY <1>0, <1>1, EnableTail
  <1>5. TypeOK'
    <2>1. /\ sys' \in [Settings -> UNION {Values[s] : s \in Settings}]
          /\ \A s \in Settings : sys'[s] \in Values[s]
      BY <1>3 DEF TypeOK
    <2>2. idle' \subseteq Tuners /\ spoilt' \subseteq Settings /\ jobs' \in 0..MaxJobs
      BY <1>3 DEF TypeOK
    <2>3. missed \subseteq Tuners \X Settings
      BY <1>3 DEF TypeOK
    <2>4. missed' \subseteq Tuners \X Settings
      BY <1>1, <2>3
    <2> QED  BY <1>2, <1>3, <2>1, <2>2, <2>4, TypeKept
  <1>6. Enabled' = Enabled /\ NotRestored' = NotRestored /\ OriginalInv'
    BY <1>3, SameOrder DEF NotRestored, OriginalInv
  <1>7. StackInv'
    <2>1. \A s \in Settings : Base(s)' = Base(s)
      BY <1>2 DEF Base
    <2> QED  BY <1>3, <2>1, StacksKept
  <1>8. SavedInv'
    <2>1. \A u : Holding(u)' => Holding(u)
      BY <1>2, <1>6 DEF Holding
    <2> QED  BY <1>3, <1>6, <2>1 DEF SavedInv
  <1>9. IdleInv' /\ \A u \in idle : u \in Enabled
    BY <1>3, <1>6 DEF IdleInv
  <1>10. JobInv'
    BY <1>2, <1>3, <1>6 DEF JobInv
  <1>11. BackInv'
    BY <1>2 DEF BackInv
  <1>12. EnableInv'
    <2>1. ASSUME job.doing = "enable", NEW j \in Indices(t) PROVE Written(t, j)'
      <3>1. Written(t, j) /\ t \notin idle
        BY <1>3, <1>9, <2>1 DEF EnableInv, JobInv
      <3>2. \A i \in Indices(t) : Done(t, i)' <=> (Done(t, i) \/ i = k)
        BY <1>4, <2>1
      <3> QED  BY <1>1, <3>1, <3>2 DEF Written
    <2> QED  BY <1>2, <1>4, <2>1 DEF EnableInv
  <1> QED  BY <1>5, <1>6, <1>7, <1>8, <1>9, <1>10, <1>11, <1>12 DEF TuneInv

\* Enable returns FAILED.
GivesUp(t, k) ==
  /\ Now.must
  /\ job' = [job EXCEPT !.doing = "undo",
                        !.ahead = IF Code[t].undo THEN TakenBack(t, k) ELSE <<>>]
  /\ spoilt' = IF Code[t].undo THEN spoilt
               ELSE spoilt \cup {Code[t].writes[j].set : j \in 1..(k - 1)}
  /\ UNCHANGED missed

\* A write that fails, and Enable with it: what comes before it is taken back or
\* given up, what comes after it was not touched.
LEMMA FailKeeps ==
  ASSUME TuneInv, NEW t, NEW k, t = job.tuner, k = Head(job.ahead), GivesUp(t, k),
         job.doing \in {"enable", "run"}, job.ahead # <<>>, faults' \in 0..MaxFaults,
         UNCHANGED <<sys, original, order, saved, idle, entry, jobs>>
  PROVE  TuneInv'
  <1>0. PICK a : a = IF Code[t].undo THEN TakenBack(t, k) ELSE <<>>
    OBVIOUS
  <1>1. /\ t \in Tuners /\ k \in Indices(t) /\ k \in Entries(job.ahead) /\ Now = W(t, k)
        /\ (t \notin idle \/ t \in Enabled)
    BY NowFacts
  <1>2. TypeOK /\ OriginalInv /\ StackInv /\ SavedInv /\ IdleInv /\ JobInv /\ EnableInv
    BY DEF TuneInv
  <1>3. job.doing = "enable"
    BY <1>1, <1>2, WriteFacts DEF JobInv, GivesUp
  <1>4. /\ t \notin Enabled /\ t \notin idle
        /\ \A j \in Entries(Code[t].enables) : j >= k => j \in Entries(job.ahead)
        /\ \A j \in Indices(t) : Written(t, j)
    BY <1>1, <1>2, <1>3 DEF JobInv, EnableInv
  <1>5. k \in Nat \ {0} /\ 1..(k - 1) \subseteq Indices(t) /\ Indices(t) \subseteq Nat \ {0}
    <2>1. k \in Nat \ {0} /\ 1..k \subseteq Indices(t) /\ Indices(t) \subseteq Nat \ {0}
      BY <1>1, IndexFacts
    <2> QED  BY <2>1
  <1>6. /\ a \in Seq(Nat) /\ Distinct(a) /\ Entries(a) \subseteq Indices(t)
        /\ Code[t].undo => Entries(a) = 1..(k - 1)
        /\ ~Code[t].undo => a = <<>>
    <2>1. Upto(k - 1) \in Seq(Nat) /\ Distinct(Upto(k - 1)) /\ Entries(Upto(k - 1)) = 1..(k - 1)
      <3>1. k - 1 \in Nat
        BY <1>5
      <3> QED  BY <3>1, UptoFacts
    <2> QED  BY <1>0, <1>5, <2>1, EmptyFacts DEF TakenBack
  <1>7. /\ job \in [tuner : Tuners, doing : {"enable", "run", "undo", "disable"}, ahead : Seq(Nat)]
        /\ job' = [job EXCEPT !.doing = "undo", !.ahead = a]
    BY <1>0, <1>2, <1>3, JobType DEF GivesUp
  <1>8. /\ job'.tuner = t /\ job'.doing = "undo" /\ job'.ahead = a
        /\ job' \in [tuner : Tuners, doing : {"enable", "run", "undo", "disable"}, ahead : Seq(Nat)]
        /\ \A i \in DOMAIN job'.ahead : job'.ahead[i] \in DOMAIN Code[job'.tuner].writes
    <2>1. /\ job'.tuner = t /\ job'.doing = "undo" /\ job'.ahead = a
          /\ job' \in [tuner : Tuners, doing : {"enable", "run", "undo", "disable"}, ahead : Seq(Nat)]
      BY <1>6, <1>7
    <2> QED  BY <1>6, <2>1 DEF Entries, Indices
  <1>9. /\ spoilt \subseteq spoilt' /\ spoilt' \subseteq Settings
        /\ ~Code[t].undo => \A j \in 1..(k - 1) : W(t, j).set \in spoilt'
    <2>1. \A j \in 1..(k - 1) : W(t, j).set \in Settings
      BY <1>1, <1>5, SettingsOfSettings
    <2>2. spoilt \subseteq Settings
      BY <1>2 DEF TypeOK
    <2>3. spoilt' = IF Code[t].undo THEN spoilt
                    ELSE spoilt \cup {Code[t].writes[j].set : j \in 1..(k - 1)}
      BY Zenon DEF GivesUp
    <2>4. CASE Code[t].undo
      BY <2>2, <2>3, <2>4
    <2>5. CASE ~Code[t].undo
      BY <2>1, <2>2, <2>3, <2>5 DEF W
    <2> QED  BY <2>4, <2>5
  <1>10. TypeOK'
    <2>1. /\ sys' \in [Settings -> UNION {Values[s] : s \in Settings}]
          /\ \A s \in Settings : sys'[s] \in Values[s]
      BY <1>2 DEF TypeOK
    <2>2. missed' \subseteq Tuners \X Settings /\ idle' \subseteq Tuners /\ jobs' \in 0..MaxJobs
      BY <1>2 DEF TypeOK, GivesUp
    <2> QED  BY <1>2, <1>8, <1>9, <2>1, <2>2, TypeKept
  <1>11. Enabled' = Enabled /\ NotRestored' = NotRestored /\ OriginalInv'
    BY <1>2, SameOrder DEF NotRestored, OriginalInv
  <1>12. StackInv'
    <2>1. \A s \in Settings : Base(s)' = Base(s)
      BY <1>3, <1>8 DEF Base
    <2> QED  BY <1>2, <1>9, <2>1, StacksKept DEF GivesUp
  <1>13. SavedInv'
    <2>1. \A u : Holding(u)' => Holding(u)
      BY <1>3, <1>8, <1>11 DEF Holding
    <2> QED  BY <1>2, <1>9, <1>11, <2>1 DEF SavedInv
  <1>14. IdleInv'
    BY <1>2, <1>4, <1>11 DEF IdleInv
  <1>15. JobInv'
    BY <1>2, <1>3, <1>4, <1>6, <1>8, <1>11 DEF JobInv
  <1>16. EnableInv'
    BY <1>8 DEF EnableInv
  <1>17. BackInv'
    <2>1. ASSUME NEW j \in Indices(t) PROVE TakenBackInv(t, j)'
      <3>1. Written(t, j)
        BY <1>4
      <3>2. ASSUME W(t, j).set \notin spoilt', \A i \in Entries(a) : W(t, i).set # W(t, j).set
            PROVE  sys[W(t, j).set] = entry[W(t, j).set]
        <4>1. \A i \in 1..(k - 1) : W(t, i).set # W(t, j).set
          BY <1>6, <1>9, <3>2
        <4>2. ASSUME NEW i \in Indices(t), W(t, i).set = W(t, j).set
              PROVE  ~Done(t, i)
          <5>1. i >= k
            BY <1>5, <4>1, <4>2
          <5> QED  BY <1>4, <5>1 DEF Done
        <4> QED  BY <3>1, <4>2 DEF Written
      <3>3. saved[t][W(t, j).set] = entry[W(t, j).set]
            /\ sys[W(t, j).set] \in {W(t, j).to, entry[W(t, j).set]}
        BY <3>1 DEF Written
      <3>4. Target(W(t, j).set)' = entry[W(t, j).set]
        BY <1>8 DEF Target
      <3> QED  BY <1>8, <3>2, <3>3, <3>4 DEF TakenBackInv
    <2> QED  BY <1>8, <2>1 DEF BackInv
  <1> QED  BY <1>10, <1>11, <1>12, <1>13, <1>14, <1>15, <1>16, <1>17 DEF TuneInv

\* Enable or Run fails to write a setting, and passes over it or gives up.
LEMMA EnableFailsKeeps ==
  ASSUME TuneInv, EnableFails
  PROVE  TuneInv'
  <1>1. faults' \in 0..MaxFaults
    <2>1. faults \in 0..MaxFaults
      BY DEF TuneInv, TypeOK
    <2>2. faults' = faults \/ (faults < MaxFaults /\ faults' = faults + 1)
      BY DEF EnableFails
    <2> QED  BY <2>1, <2>2, TuneBoundsAssumption
  <1>2. PICK t, k, x : t = job.tuner /\ k = Head(job.ahead) /\ x = Now.set
    OBVIOUS
  <1>3. /\ job.doing \in {"enable", "run"} /\ job.ahead # <<>>
        /\ UNCHANGED <<sys, original, order, saved, idle, entry, jobs>>
    BY DEF EnableFails
  <1>4. \/ missed' = missed \cup {<<t, x>>} /\ Continue(Tail(job.ahead)) /\ UNCHANGED spoilt
        \/ GivesUp(t, k)
    BY <1>2, Zenon DEF EnableFails, GivesUp
  <1>5. CASE missed' = missed \cup {<<t, x>>} /\ Continue(Tail(job.ahead)) /\ UNCHANGED spoilt
    BY <1>1, <1>2, <1>3, <1>5, SkipKeeps
  <1>6. CASE GivesUp(t, k)
    BY <1>1, <1>2, <1>3, <1>6, FailKeeps
  <1> QED  BY <1>4, <1>5, <1>6

\* Enable succeeds: the tuner comes to lie on top, and what it saved is what holds
\* for the tuner that was on top before.
LEMMA EnablesKeeps ==
  ASSUME TuneInv, Enables
  PROVE  TuneInv'
  <1>0. PICK t : t = job.tuner
    OBVIOUS
  <1>1. /\ job.doing = "enable" /\ job.ahead = <<>> /\ order' = Append(order, t) /\ job' = NoJob
        /\ missed' = missed \cup {<<t, Code[t].writes[Code[t].runs[i]].set>> : i \in DOMAIN Code[t].runs}
        /\ UNCHANGED <<sys, original, saved, idle, entry, spoilt, jobs, faults>>
    BY <1>0 DEF Enables
  <1>2. TypeOK /\ OriginalInv /\ StackInv /\ SavedInv /\ IdleInv /\ JobInv /\ EnableInv
    BY DEF TuneInv
  <1>3. t \in Tuners /\ t \notin Enabled
    BY <1>0, <1>1, <1>2, JobType DEF JobInv
  <1>4. OrderOK /\ OrderOK' /\ Enabled' = Enabled \cup {t} /\ Enabled \subseteq Tuners
    BY <1>1, <1>2, <1>3, TypeOrder, AppendOrder, BeforeFacts
  <1>5. /\ missed \subseteq missed' /\ missed' \subseteq Tuners \X Settings
        /\ \A k \in Entries(Code[t].runs) : <<t, W(t, k).set>> \in missed'
    <2>1. \A i \in DOMAIN Code[t].runs : Code[t].runs[i] \in Indices(t)
      BY <1>3, IndexFacts DEF Entries
    <2>2. \A i \in DOMAIN Code[t].runs : Code[t].writes[Code[t].runs[i]].set \in Settings
      BY <1>3, <2>1, SettingsOfSettings DEF W
    <2>3. missed \subseteq Tuners \X Settings
      BY <1>2 DEF TypeOK
    <2>4. missed \subseteq missed' /\ missed' \subseteq Tuners \X Settings
      BY <1>1, <1>3, <2>2, <2>3
    <2> QED  BY <1>1, <2>4 DEF Entries, W
  <1>6. TypeOK'
    <2>1. order' \in Seq(Tuners) /\ \A i, j \in DOMAIN order' : order'[i] = order'[j] => i = j
      BY <1>4 DEF OrderOK, Distinct
    <2> QED  BY <1>1, <1>2, <1>5, <2>1 DEF TypeOK
  <1>7. NotRestored' = NotRestored /\ OriginalInv' /\ job'.doing = "nothing" /\ job'.ahead = <<>>
    BY <1>1, <1>2 DEF NotRestored, OriginalInv, NoJob
  <1>8. \A s \in Settings : Base(s)' = sys[s] /\ Base(s) = entry[s]
    BY <1>1, <1>7 DEF Base
  <1>9. \A s \in Settings \ SettingsOf(t) : sys[s] = entry[s]
    BY <1>0, <1>1, <1>2 DEF JobInv
  <1>10. \A k \in Indices(t) : Written(t, k)
    BY <1>0, <1>1, <1>2 DEF EnableInv
  <1>11. \A s \in SettingsOf(t) : saved[t][s] = entry[s]
    <2> TAKE s \in SettingsOf(t)
    <2>1. PICK k \in Indices(t) : W(t, k).set = s
      BY <1>3, SettingsOfDef
    <2>2. Written(t, k)
      BY <1>10
    <2> QED  BY <2>1, <2>2 DEF Written
  <1>12. ASSUME NEW u, NEW s, NEW v, Holds(u, s, v)
         PROVE  \A k \in Indices(u) : W(u, k).set = s =>
                  /\ v = W(u, k).to \/ <<u, s>> \in missed' \/ (u \in idle' /\ k > 1)
                  /\ v \in {W(u, k).to, saved'[u][s]}
                  /\ u \in idle' => v = saved'[u][s]
    BY <1>1, <1>5, <1>12 DEF Holds
  <1>13. EmptyInv'
    <2> SUFFICES ASSUME NEW s \in Settings, s \notin spoilt \cup NotRestored, Users(s)' = {}
                 PROVE  sys[s] = original[s]
      BY <1>1, <1>7, <1>8 DEF EmptyInv
    <2>1. s \notin SettingsOf(t)
      BY <1>1, <1>3, <1>4, AppendStacks
    <2>2. Users(s) = {}
      BY <1>1, <1>3, <1>4, <2>1, AppendStacks
    <2> QED  BY <1>2, <1>8, <1>9, <2>1, <2>2 DEF StackInv, EmptyInv
  <1>14. TopInv'
    <2> SUFFICES ASSUME NEW s \in Settings, s \notin spoilt, NEW u \in Tuners, Top(u, s)'
                 PROVE  Holds(u, s, Base(s))'
      BY <1>1 DEF TopInv
    <2>1. CASE s \notin SettingsOf(t)
      <3>1. Top(u, s)
        BY <1>1, <1>3, <1>4, <2>1, AppendStacks
      <3>2. Holds(u, s, Base(s)) /\ Base(s)' = Base(s)
        BY <1>2, <1>8, <1>9, <2>1, <3>1 DEF StackInv, TopInv
      <3> QED  BY <1>12, <3>2 DEF Holds
    <2>2. CASE s \in SettingsOf(t)
      <3>1. u = t
        BY <1>1, <1>3, <1>4, <2>2, AppendStacks
      <3>2. ASSUME NEW k \in Indices(t), W(t, k).set = s
            PROVE  /\ sys[s] = W(t, k).to \/ <<t, s>> \in missed' \/ (t \in idle /\ k > 1)
                   /\ sys[s] \in {W(t, k).to, saved[t][s]}
                   /\ t \in idle => sys[s] = saved[t][s]
        <4>1. Written(t, k)
          BY <1>10
        <4>2. k \in Nat \ {0} /\ (k \in Entries(Code[t].enables) \/ k \in Entries(Code[t].runs))
          BY <1>3, IndexFacts
        <4>3. k \in Entries(Code[t].enables) => Done(t, k)
          BY <1>1, EmptyFacts DEF Done
        <4>4. k = 1 \/ k > 1
          BY <4>2
        <4> QED  BY <1>5, <3>2, <4>1, <4>2, <4>3, <4>4 DEF Written
      <3> QED  BY <1>1, <1>8, <3>1, <3>2 DEF Holds
    <2> QED  BY <2>1, <2>2
  <1>15. BottomInv'
    <2> SUFFICES ASSUME NEW s \in Settings, s \notin spoilt \cup NotRestored, NEW u \in Tuners,
                        Bottom(u, s)'
                 PROVE  saved[u][s] = original[s]
      BY <1>1, <1>7 DEF BottomInv
    <2>1. CASE Bottom(u, s)
      BY <1>2, <2>1 DEF StackInv, BottomInv
    <2>2. CASE ~Bottom(u, s)
      <3>1. s \in SettingsOf(t) /\ u = t /\ Users(s) = {}
        BY <1>1, <1>3, <1>4, <2>2, AppendStacks
      <3> QED  BY <1>2, <1>8, <1>11, <3>1 DEF StackInv, EmptyInv
    <2> QED  BY <2>1, <2>2
  <1>16. UnderInv'
    <2> SUFFICES ASSUME NEW s \in Settings, s \notin spoilt, NEW u \in Tuners, NEW v \in Tuners,
                        Under(u, v, s)'
                 PROVE  Holds(u, s, saved[v][s])'
      BY <1>1 DEF UnderInv
    <2>1. Holds(u, s, saved[v][s])
      <3>1. CASE Under(u, v, s)
        BY <1>2, <3>1 DEF StackInv, UnderInv
      <3>2. CASE ~Under(u, v, s)
        <4>1. s \in SettingsOf(t) /\ v = t /\ Top(u, s)
          BY <1>1, <1>3, <1>4, <3>2, AppendStacks
        <4>2. Holds(u, s, Base(s)) /\ Base(s) = saved[v][s]
          BY <1>2, <1>8, <1>11, <4>1 DEF StackInv, TopInv
        <4> QED  BY <4>2
      <3> QED  BY <3>1, <3>2
    <2> QED  BY <1>1, <1>12, <2>1 DEF Holds
  <1>17. SavedInv'
    <2>1. \A u : Holding(u)' => Holding(u)
      BY <1>0, <1>1, <1>4, <1>7 DEF Holding
    <2> QED  BY <1>1, <1>2, <1>7, <2>1 DEF SavedInv
  <1>18. IdleInv'
    BY <1>0, <1>1, <1>2, <1>4 DEF IdleInv
  <1>19. JobInv' /\ EnableInv' /\ BackInv'
    BY <1>7, EmptyFacts DEF JobInv, EnableInv, BackInv
  <1> QED  BY <1>6, <1>7, <1>13, <1>14, <1>15, <1>16, <1>17, <1>18, <1>19 DEF TuneInv, StackInv

\* Disable begins: what the tuner saved becomes what the settings are to return to,
\* which holds for the tuner below it; where it was not on top they are spoilt.
LEMMA DisableBeginsKeeps ==
  ASSUME TuneInv, NEW t \in Tuners, DisableBegins(t)
  PROVE  TuneInv'
  <1>1. PICK i \in DOMAIN order : order[i] = t /\ order' = Without(order, i)
    BY DEF DisableBegins
  <1>2. idle' = idle \ {t} /\ saved' = saved
    BY DEF DisableBegins
  <1>3. TypeOK /\ OriginalInv /\ StackInv /\ SavedInv /\ IdleInv
    BY DEF TuneInv
  <1>4. OrderOK /\ OrderOK' /\ t \in Enabled /\ Enabled' = Enabled \ {t} /\ Enabled \subseteq Tuners
    BY <1>1, <1>3, TypeOrder, WithoutOrder, BeforeFacts
  <1>5. PICK a : /\ Begin(t, "disable", a)
                 /\ a \in {<<>>, Code[t].backs} /\ (a # <<>> => t \notin idle)
                 /\ \/ a = (IF t \in idle THEN <<>> ELSE Code[t].backs) /\ spoilt' = spoilt \cup Overlaid(t)
                    \/ spoilt' = spoilt \cup SettingsOf(t)
    BY DEF DisableBegins
  <1>6. a \in Seq(Nat) /\ Distinct(a) /\ Entries(a) \subseteq Indices(t)
    BY <1>5, IndexFacts, EmptyFacts
  <1>7. /\ job.doing = "nothing" /\ job.tuner = "none" /\ job.ahead = <<>>
        /\ job'.tuner = t /\ job'.doing = "disable" /\ job'.ahead = a
        /\ job' \in [tuner : Tuners, doing : {"enable", "run", "undo", "disable"}, ahead : Seq(Nat)]
        /\ \A j \in DOMAIN job'.ahead : job'.ahead[j] \in DOMAIN Code[job'.tuner].writes
        /\ sys' = sys /\ original' = original /\ missed' = missed /\ faults' = faults /\ entry' = sys
        /\ jobs' \in 0..MaxJobs /\ OriginalInv' /\ NotRestored' = NotRestored
        /\ \A s \in Settings : Base(s) = sys[s]
    BY <1>5, <1>6, BeginFacts
  <1>8. /\ Overlaid(t) \subseteq SettingsOf(t) /\ SettingsOf(t) \subseteq Settings
        /\ spoilt \subseteq spoilt' /\ Overlaid(t) \subseteq spoilt' /\ spoilt' \subseteq Settings
    <2>1. Overlaid(t) \subseteq SettingsOf(t) /\ SettingsOf(t) \subseteq Settings
      BY SettingsOfSettings DEF Overlaid
    <2>2. spoilt \subseteq Settings
      BY <1>3 DEF TypeOK
    <2> QED  BY <1>5, <2>1, <2>2
  <1>9. TypeOK'
    <2>1. /\ {sys', original', entry'} \subseteq [Settings -> UNION {Values[s] : s \in Settings}]
          /\ \A s \in Settings : {sys'[s], original'[s], entry'[s]} \subseteq Values[s]
          /\ missed' \subseteq Tuners \X Settings /\ faults' \in 0..MaxFaults /\ idle' \subseteq Tuners
      BY <1>2, <1>3, <1>7 DEF TypeOK
    <2>2. /\ DOMAIN saved' = Tuners
          /\ \A u \in Tuners : \A s \in SettingsOf(u) : saved'[u][s] \in Values[s] \cup {NoValue}
      BY <1>2, <1>3 DEF TypeOK
    <2>3. order' \in Seq(Tuners) /\ \A k, j \in DOMAIN order' : order'[k] = order'[j] => k = j
      BY <1>4 DEF OrderOK, Distinct
    <2> QED  BY <1>7, <1>8, <2>1, <2>2, <2>3 DEF TypeOK
  <1>10. \A s \in Settings : Base(s)' = IF s \in SettingsOf(t) THEN saved[t][s] ELSE sys[s]
    BY <1>2, <1>7 DEF Base
  <1>11. ASSUME NEW u, u # t, NEW s, NEW v, Holds(u, s, v)
         PROVE  \A k \in Indices(u) : W(u, k).set = s =>
                  /\ v = W(u, k).to \/ <<u, s>> \in missed' \/ (u \in idle' /\ k > 1)
                  /\ v \in {W(u, k).to, saved'[u][s]}
                  /\ u \in idle' => v = saved'[u][s]
    BY <1>2, <1>7, <1>11 DEF Holds
  <1>12. ASSUME NEW s
         PROVE  /\ s \notin SettingsOf(t) =>
                     /\ Users(s)' = Users(s)
                     /\ \A u : Top(u, s)' => Top(u, s)
                     /\ \A u : Bottom(u, s)' => Bottom(u, s)
                     /\ \A u, v : Under(u, v, s)' => Under(u, v, s)
                /\ (s \in SettingsOf(t) /\ s \notin spoilt') =>
                     /\ Top(t, s)
                     /\ Users(s)' = {} => Bottom(t, s)
                     /\ \A u : Top(u, s)' => Under(u, t, s)
                     /\ \A u : Bottom(u, s)' => Bottom(u, s)
                     /\ \A u, v : Under(u, v, s)' => Under(u, v, s)
    <2>1. s \notin spoilt' => s \notin Overlaid(t)
      BY <1>8
    <2> QED  BY <1>1, <1>4, <2>1, WithoutStacks
  <1>13. EmptyInv'
    <2> SUFFICES ASSUME NEW s \in Settings, s \notin spoilt' \cup NotRestored, Users(s)' = {}
                 PROVE  Base(s)' = original[s]
      BY <1>7 DEF EmptyInv
    <2>1. CASE s \notin SettingsOf(t)
      BY <1>3, <1>7, <1>8, <1>10, <1>12, <2>1 DEF StackInv, EmptyInv
    <2>2. CASE s \in SettingsOf(t)
      <3>1. Bottom(t, s)
        BY <1>12, <2>2
      <3> QED  BY <1>3, <1>8, <1>10, <2>2, <3>1 DEF StackInv, BottomInv
    <2> QED  BY <2>1, <2>2
  <1>14. TopInv'
    <2> SUFFICES ASSUME NEW s \in Settings, s \notin spoilt', NEW u \in Tuners, Top(u, s)'
                 PROVE  Holds(u, s, Base(s))'
      BY DEF TopInv
    <2>1. u # t
      BY <1>4 DEF Top, Users
    <2>2. CASE s \notin SettingsOf(t)
      <3>1. Holds(u, s, Base(s)) /\ Base(s)' = Base(s)
        BY <1>3, <1>7, <1>8, <1>10, <1>12, <2>2 DEF StackInv, TopInv
      <3> QED  BY <1>11, <2>1, <3>1 DEF Holds
    <2>3. CASE s \in SettingsOf(t)
      <3>1. Holds(u, s, saved[t][s]) /\ Base(s)' = saved[t][s]
        BY <1>3, <1>8, <1>10, <1>12, <2>3 DEF StackInv, UnderInv
      <3> QED  BY <1>11, <2>1, <3>1 DEF Holds
    <2> QED  BY <2>2, <2>3
  <1>15. BottomInv'
    <2> SUFFICES ASSUME NEW s \in Settings, s \notin spoilt' \cup NotRestored, NEW u \in Tuners,
                        Bottom(u, s)'
                 PROVE  saved[u][s] = original[s]
      BY <1>2, <1>7 DEF BottomInv
    <2>1. Bottom(u, s)
      BY <1>12
    <2> QED  BY <1>3, <1>8, <2>1 DEF StackInv, BottomInv
  <1>16. UnderInv'
    <2> SUFFICES ASSUME NEW s \in Settings, s \notin spoilt', NEW u \in Tuners, NEW v \in Tuners,
                        Under(u, v, s)'
                 PROVE  Holds(u, s, saved[v][s])'
      BY DEF UnderInv
    <2>1. u # t
      BY <1>4 DEF Under, Users
    <2>2. Under(u, v, s)
      BY <1>12
    <2>3. Holds(u, s, saved[v][s])
      BY <1>3, <1>8, <2>2 DEF StackInv, UnderInv
    <2> QED  BY <1>2, <1>11, <2>1, <2>3 DEF Holds
  <1>17. SavedInv'
    <2> SUFFICES ASSUME NEW u \in Tuners, Holding(u)', NEW k \in Indices(u)
                 PROVE  /\ saved[u][W(u, k).set] \in Values[W(u, k).set]
                        /\ (/\ u \notin idle' /\ W(u, k).set \notin spoilt' \cup NotRestored
                            /\ Fixed(W(u, k))) =>
                             saved[u][W(u, k).set] = W(u, k).back
      BY <1>2, <1>7 DEF SavedInv
    <2>1. u \in Enabled /\ (u = t => t \notin idle)
      BY <1>4, <1>5, <1>7 DEF Holding
    <2>2. Holding(u)
      BY <2>1 DEF Holding
    <2>3. u \notin idle' => u \notin idle
      BY <1>2, <2>1
    <2> QED  BY <1>3, <1>8, <2>2, <2>3 DEF SavedInv
  <1>18. IdleInv'
    BY <1>2, <1>3, <1>4, <1>7 DEF IdleInv
  <1>19. JobInv'
    BY <1>4, <1>6, <1>7 DEF JobInv
  <1>20. EnableInv'
    BY <1>7 DEF EnableInv
  <1>21. BackInv'
    <2>1. ASSUME NEW k \in Indices(t) PROVE TakenBackInv(t, k)'
      <3>1. W(t, k).set \in SettingsOf(t) /\ W(t, k).set \in Settings
        BY SettingsOfSettings
      <3>2. Target(W(t, k).set)' = saved[t][W(t, k).set]
        BY <1>2, <1>7 DEF Target
      <3>3. ASSUME W(t, k).set \notin spoilt' \cup NotRestored
            PROVE  /\ sys[W(t, k).set] \in {W(t, k).to, saved[t][W(t, k).set]}
                   /\ (\A j \in Entries(a) : W(t, j).set # W(t, k).set) =>
                        sys[W(t, k).set] = saved[t][W(t, k).set]
        <4>1. Holds(t, W(t, k).set, sys[W(t, k).set])
          BY <1>3, <1>7, <1>8, <1>12, <3>1, <3>3 DEF StackInv, TopInv
        <4>2. CASE t \in idle
          BY <4>1, <4>2 DEF Holds
        <4>3. CASE t \notin idle
          <5>1. a = Code[t].backs
            BY <1>5, <3>1, <3>3, <4>3
          <5>2. W(t, k).back # "never"
            BY <3>3, NeverBack
          <5>3. \E j \in Entries(a) : W(t, j).set = W(t, k).set
            BY <5>1, <5>2, WriteFacts
          <5> QED  BY <4>1, <5>3 DEF Holds
        <4> QED  BY <4>2, <4>3
      <3> QED  BY <1>2, <1>7, <3>2, <3>3 DEF TakenBackInv
    <2> QED  BY <1>7, <2>1 DEF BackInv
  <1> QED  BY <1>7, <1>9, <1>13, <1>14, <1>15, <1>16, <1>17, <1>18, <1>19, <1>20, <1>21
           DEF TuneInv, StackInv

\* What GoesBack does to the setting x of the write k.
SetsBack(t, k, x) ==
  sys' = IF WritesBack(W(t, k), saved[t][x])
         THEN [sys EXCEPT ![x] = ValueBack(W(t, k), saved[t][x])] ELSE sys

\* A write back that worked: the setting is what the tuner read.
LEMMA BackValue ==
  ASSUME TuneInv, NEW t, NEW k, t = job.tuner, k = Head(job.ahead), NEW x, x = W(t, k).set,
         job.doing \in {"undo", "disable"}, job.ahead # <<>>, SetsBack(t, k, x)
  PROVE  /\ sys' \in [Settings -> UNION {Values[s] : s \in Settings}]
         /\ \A s \in Settings : sys'[s] \in Values[s]
         /\ \A s \in Settings : s # x => sys'[s] = sys[s]
         /\ x \notin spoilt \cup NotRestored => sys'[x] = Target(x)
  <1>1. /\ t \in Tuners /\ k \in Indices(t) /\ x \in Settings
        /\ (t \notin idle \/ t \in Enabled)
    BY NowFacts
  <1>2. t \notin Enabled /\ t \notin idle
    BY <1>1 DEF TuneInv, JobInv
  <1>3. /\ saved[t][x] \in Values[x]
        /\ (x \notin spoilt \cup NotRestored /\ Fixed(W(t, k))) => saved[t][x] = W(t, k).back
    <2>1. Holding(t)
      BY DEF Holding
    <2> QED  BY <1>1, <1>2, <2>1 DEF TuneInv, SavedInv
  <1>4. /\ saved[t][x] = Target(x)
        /\ x \notin spoilt \cup NotRestored => sys[x] \in {W(t, k).to, Target(x)}
    BY <1>1 DEF TuneInv, BackInv, TakenBackInv
  <1>5. /\ sys \in [Settings -> UNION {Values[s] : s \in Settings}]
        /\ \A s \in Settings : sys[s] \in Values[s]
    BY DEF TuneInv, TypeOK
  <1>6. PICK v : v = ValueBack(W(t, k), saved[t][x])
    OBVIOUS
  <1>7. v \in Values[x] /\ v \in UNION {Values[s] : s \in Settings}
    <2>1. W(t, k).back \in Values[x]
      BY <1>1, ValuesFacts
    <2>2. v \in Values[x]
      BY <1>3, <1>6, <2>1 DEF ValueBack
    <2> QED  BY <1>1, <2>2
  <1>8. sys' = IF WritesBack(W(t, k), saved[t][x]) THEN [sys EXCEPT ![x] = v] ELSE sys
    BY <1>6 DEF SetsBack
  <1>9. /\ sys' \in [Settings -> UNION {Values[s] : s \in Settings}]
        /\ \A s \in Settings : sys'[s] \in Values[s]
        /\ \A s \in Settings : s # x => sys'[s] = sys[s]
        /\ sys'[x] = IF WritesBack(W(t, k), saved[t][x]) THEN v ELSE sys[x]
    BY <1>1, <1>5, <1>7, <1>8
  <1>10. ASSUME x \notin spoilt \cup NotRestored PROVE sys'[x] = Target(x)
    <2>1. W(t, k).back # "never"
      BY <1>1, <1>10, NeverBack
    <2>2. CASE Fixed(W(t, k))
      BY <1>3, <1>4, <1>6, <1>9, <1>10, <2>1, <2>2 DEF Fixed, WritesBack, ValueBack
    <2>3. CASE ~Fixed(W(t, k))
      BY <1>4, <1>6, <1>9, <1>10, <2>1, <2>3 DEF Fixed, WritesBack, ValueBack
    <2> QED  BY <2>2, <2>3
  <1> QED  BY <1>9, <1>10

\* Disable, or an Enable that failed, writes a setting back.
LEMMA GoesBackKeeps ==
  ASSUME TuneInv, GoesBack
  PROVE  TuneInv'
  <1>0. PICK t, k, x : t = job.tuner /\ k = Head(job.ahead) /\ x = W(t, k).set
    OBVIOUS
  <1>1. /\ job.doing \in {"undo", "disable"} /\ job.ahead # <<>> /\ Continue(Tail(job.ahead))
        /\ original' = original /\ order' = order /\ saved' = saved /\ idle' = idle
        /\ entry' = entry /\ missed' = missed /\ spoilt' = spoilt /\ jobs' = jobs /\ faults' = faults
    BY DEF GoesBack
  <1>2. /\ t \in Tuners /\ k \in Indices(t) /\ k \in Entries(job.ahead) /\ Now = W(t, k)
        /\ x \in SettingsOf(t) /\ x \in Settings /\ (t \notin idle \/ t \in Enabled)
    BY <1>0, <1>1, NowFacts
  <1>3. SetsBack(t, k, x)
    BY <1>0, <1>2 DEF GoesBack, SetsBack
  <1>4. /\ sys' \in [Settings -> UNION {Values[s] : s \in Settings}]
        /\ \A s \in Settings : sys'[s] \in Values[s]
        /\ \A s \in Settings : s # x => sys'[s] = sys[s]
        /\ x \notin spoilt \cup NotRestored => sys'[x] = Target(x)
    BY <1>0, <1>1, <1>3, BackValue
  <1>5. /\ job'.tuner = t /\ job'.doing = job.doing /\ job'.ahead = Tail(job.ahead)
        /\ job' \in [tuner : Tuners, doing : {"enable", "run", "undo", "disable"}, ahead : Seq(Nat)]
        /\ \A i \in DOMAIN job'.ahead : job'.ahead[i] \in DOMAIN Code[job'.tuner].writes
        /\ Distinct(job'.ahead) /\ Entries(job'.ahead) = Entries(job.ahead) \ {k}
    BY <1>0, <1>1, ContinueTail
  <1>6. TypeOK /\ OriginalInv /\ StackInv /\ SavedInv /\ IdleInv /\ JobInv /\ BackInv
    BY DEF TuneInv
  <1>7. TypeOK'
    <2>1. /\ idle' \subseteq Tuners /\ missed' \subseteq Tuners \X Settings
          /\ spoilt' \subseteq Settings /\ jobs' \in 0..MaxJobs /\ faults' \in 0..MaxFaults
      BY <1>1, <1>6 DEF TypeOK
    <2> QED  BY <1>1, <1>4, <1>5, <1>6, <2>1, TypeKept
  <1>8. Enabled' = Enabled /\ NotRestored' = NotRestored /\ OriginalInv'
    BY <1>1, <1>6, SameOrder DEF NotRestored, OriginalInv
  <1>9. StackInv'
    <2>1. \A s \in Settings : Base(s)' = Base(s)
      BY <1>0, <1>1, <1>2, <1>4, <1>5 DEF Base
    <2> QED  BY <1>1, <1>6, <2>1, StacksKept
  <1>10. SavedInv'
    <2>1. \A u : Holding(u)' => Holding(u)
      BY <1>0, <1>1, <1>5, <1>8 DEF Holding
    <2> QED  BY <1>1, <1>6, <1>8, <2>1 DEF SavedInv
  <1>11. IdleInv'
    BY <1>1, <1>6, <1>8 DEF IdleInv
  <1>12. JobInv'
    <2>1. job.doing = "undo" => \A s \in Settings \ SettingsOf(t) : sys'[s] = entry'[s]
      BY <1>0, <1>1, <1>2, <1>4, <1>6 DEF JobInv
    <2> QED  BY <1>0, <1>1, <1>5, <1>6, <1>8, <2>1 DEF JobInv
  <1>13. EnableInv'
    BY <1>1, <1>5 DEF EnableInv
  <1>14. BackInv'
    <2>1. ASSUME NEW j \in Indices(t) PROVE TakenBackInv(t, j)'
      <3>1. TakenBackInv(t, j) /\ W(t, j).set \in Settings
        BY <1>0, <1>1, <1>2, <1>6, SettingsOfSettings DEF BackInv
      <3>2. Target(W(t, j).set)' = Target(W(t, j).set)
        BY <1>0, <1>1, <1>5 DEF Target
      <3>3. saved'[t][W(t, j).set] = Target(W(t, j).set)
        BY <1>1, <3>1 DEF TakenBackInv
      <3>4. CASE W(t, j).set = x
        BY <1>1, <1>4, <1>8, <3>2, <3>3, <3>4 DEF TakenBackInv
      <3>5. CASE W(t, j).set # x
        <4>1. (\A i \in Entries(job'.ahead) : W(t, i).set # W(t, j).set) =>
                \A i \in Entries(job.ahead) : W(t, i).set # W(t, j).set
          BY <1>0, <1>5, <3>5
        <4>2. sys'[W(t, j).set] = sys[W(t, j).set]
          BY <1>4, <3>1, <3>5
        <4> QED  BY <1>1, <1>8, <3>1, <3>2, <3>3, <4>1, <4>2 DEF TakenBackInv
      <3> QED  BY <3>4, <3>5
    <2> QED  BY <1>5, <2>1 DEF BackInv
  <1> QED  BY <1>7, <1>8, <1>9, <1>10, <1>11, <1>12, <1>13, <1>14 DEF TuneInv

\* It fails to, and goes on or returns.
LEMMA GoesBackFailsKeeps ==
  ASSUME TuneInv, GoesBackFails
  PROVE  TuneInv'
  <1>0. PICK t, k : t = job.tuner /\ k = Head(job.ahead)
    OBVIOUS
  <1>1. /\ job.doing \in {"undo", "disable"} /\ job.ahead # <<>>
        /\ faults < MaxFaults /\ faults' = faults + 1
        /\ UNCHANGED <<sys, original, order, saved, idle, entry, missed, jobs>>
    BY DEF GoesBackFails
  <1>2. /\ t \in Tuners /\ k \in Indices(t) /\ k \in Entries(job.ahead)
        /\ (t \notin idle \/ t \in Enabled)
    BY <1>0, <1>1, NowFacts
  <1>3. TypeOK /\ OriginalInv /\ StackInv /\ SavedInv /\ IdleInv /\ JobInv /\ BackInv
    BY DEF TuneInv
  <1>4. job.ahead \in Seq(Nat) /\ Distinct(job.ahead) /\ Entries(job.ahead) \subseteq Indices(t)
    BY <1>0, <1>1, <1>3, JobType DEF JobInv
  <1>5. PICK a, left : /\ Continue(a)
                       /\ spoilt' = spoilt \cup {Code[t].writes[j].set : j \in left}
                       /\ \/ a = <<>> /\ left = Entries(job.ahead)
                          \/ a = Tail(job.ahead) /\ left = {k}
    BY <1>0 DEF GoesBackFails, Entries
  <1>6. /\ a \in Seq(Nat) /\ Distinct(a) /\ Entries(a) \subseteq Entries(job.ahead)
        /\ left \subseteq Entries(job.ahead) /\ Entries(job.ahead) \subseteq Entries(a) \cup left
    BY <1>0, <1>1, <1>2, <1>4, <1>5, TailFacts, EmptyFacts
  <1>7. /\ job'.tuner = t /\ job'.doing = job.doing /\ job'.ahead = a
        /\ job' \in [tuner : Tuners, doing : {"enable", "run", "undo", "disable"}, ahead : Seq(Nat)]
        /\ \A i \in DOMAIN job'.ahead : job'.ahead[i] \in DOMAIN Code[job'.tuner].writes
    BY <1>0, <1>1, <1>5, <1>6, ContinueFacts
  <1>8. /\ spoilt \subseteq spoilt' /\ spoilt' \subseteq Settings
        /\ \A j \in left : W(t, j).set \in spoilt'
    <2>1. spoilt \subseteq Settings
      BY <1>3 DEF TypeOK
    <2>2. \A j \in left : W(t, j).set \in Settings
      BY <1>2, <1>4, <1>6, SettingsOfSettings
    <2> QED  BY <1>5, <2>1, <2>2 DEF W
  <1>9. TypeOK'
    <2>1. /\ sys' \in [Settings -> UNION {Values[s] : s \in Settings}]
          /\ \A s \in Settings : sys'[s] \in Values[s]
      BY <1>1, <1>3 DEF TypeOK
    <2>2. missed' \subseteq Tuners \X Settings /\ idle' \subseteq Tuners /\ jobs' \in 0..MaxJobs
      BY <1>1, <1>3 DEF TypeOK
    <2>3. faults' \in 0..MaxFaults
      BY <1>1, <1>3, TuneBoundsAssumption DEF TypeOK
    <2> QED  BY <1>1, <1>3, <1>7, <1>8, <2>1, <2>2, <2>3, TypeKept
  <1>10. Enabled' = Enabled /\ NotRestored' = NotRestored /\ OriginalInv'
    BY <1>1, <1>3, SameOrder DEF NotRestored, OriginalInv
  <1>11. StackInv'
    <2>1. \A s \in Settings : Base(s)' = Base(s)
      BY <1>0, <1>1, <1>7 DEF Base
    <2> QED  BY <1>1, <1>3, <1>8, <2>1, StacksKept
  <1>12. SavedInv'
    <2>1. \A u : Holding(u)' => Holding(u)
      BY <1>0, <1>1, <1>7, <1>10 DEF Holding
    <2> QED  BY <1>1, <1>3, <1>8, <1>10, <2>1 DEF SavedInv
  <1>13. IdleInv'
    BY <1>1, <1>3, <1>10 DEF IdleInv
  <1>14. JobInv'
    BY <1>0, <1>1, <1>3, <1>6, <1>7, <1>10 DEF JobInv
  <1>15. EnableInv'
    BY <1>1, <1>7 DEF EnableInv
  <1>16. BackInv'
    <2>1. ASSUME NEW j \in Indices(t) PROVE TakenBackInv(t, j)'
      <3>1. TakenBackInv(t, j)
        BY <1>0, <1>1, <1>3 DEF BackInv
      <3>2. Target(W(t, j).set)' = Target(W(t, j).set)
        BY <1>0, <1>1, <1>7 DEF Target
      <3>3. ASSUME W(t, j).set \notin spoilt', \A i \in Entries(a) : W(t, i).set # W(t, j).set
            PROVE  \A i \in Entries(job.ahead) : W(t, i).set # W(t, j).set
        BY <1>6, <1>8, <3>3
      <3> QED  BY <1>1, <1>7, <1>8, <1>10, <3>1, <3>2, <3>3 DEF TakenBackInv
    <2> QED  BY <1>7, <2>1 DEF BackInv
  <1> QED  BY <1>9, <1>10, <1>11, <1>12, <1>13, <1>14, <1>15, <1>16 DEF TuneInv

\* The call ends: each setting is at what it was to return to.
LEMMA EndsKeeps ==
  ASSUME TuneInv, Ends
  PROVE  TuneInv'
  <1>0. PICK t : t = job.tuner
    OBVIOUS
  <1>1. /\ job.doing \in {"run", "undo", "disable"} /\ job.ahead = <<>> /\ job' = NoJob
        /\ missed' = (IF job.doing = "run" THEN missed ELSE {m \in missed : m[1] # t})
        /\ UNCHANGED <<sys, original, order, saved, idle, entry, spoilt, jobs, faults>>
    BY <1>0 DEF Ends
  <1>2. TypeOK /\ OriginalInv /\ StackInv /\ SavedInv /\ IdleInv /\ JobInv /\ BackInv
    BY DEF TuneInv
  <1>3. t \in Tuners
    BY <1>0, <1>1, <1>2, JobType
  <1>4. TypeOK'
    <2>1. /\ sys' \in [Settings -> UNION {Values[s] : s \in Settings}]
          /\ \A s \in Settings : sys'[s] \in Values[s]
      BY <1>1, <1>2 DEF TypeOK
    <2>2. /\ missed \subseteq Tuners \X Settings /\ idle' \subseteq Tuners /\ spoilt' \subseteq Settings
          /\ jobs' \in 0..MaxJobs /\ faults' \in 0..MaxFaults
      BY <1>1, <1>2 DEF TypeOK
    <2>3. missed' \subseteq Tuners \X Settings
      BY <1>1, <2>2
    <2> QED  BY <1>1, <1>2, <2>1, <2>2, <2>3, TypeKept
  <1>5. Enabled' = Enabled /\ NotRestored' = NotRestored /\ OriginalInv' /\ Enabled \subseteq Tuners
    BY <1>1, <1>2, SameOrder, TypeOrder, BeforeFacts DEF NotRestored, OriginalInv
  <1>6. job'.doing = "nothing" /\ job'.ahead = <<>>
    BY <1>1 DEF NoJob
  <1>7. \A s \in Settings : \A u \in Enabled : <<u, s>> \in missed => <<u, s>> \in missed'
    BY <1>0, <1>1, <1>2 DEF JobInv
  <1>8. \A s \in Settings \ spoilt : Base(s)' = Base(s) \/ (s \in NotRestored /\ Users(s) = {})
    <2> TAKE s \in Settings \ spoilt
    <2>1. Base(s)' = sys[s]
      BY <1>1, <1>6 DEF Base
    <2>2. CASE job.doing = "run" \/ (job.doing = "disable" /\ s \notin SettingsOf(t))
      BY <1>0, <2>1, <2>2 DEF Base
    <2>3. CASE job.doing = "undo" /\ s \notin SettingsOf(t)
      BY <1>0, <1>2, <2>1, <2>3 DEF Base, JobInv
    <2>4. CASE job.doing \in {"undo", "disable"} /\ s \in SettingsOf(t)
      <3>1. Base(s) = Target(s)
        BY <1>0, <2>4 DEF Base, Target
      <3>2. PICK k \in Indices(t) : W(t, k).set = s
        BY <1>3, <2>4, SettingsOfDef
      <3>3. s \notin NotRestored => sys[s] = Target(s)
        BY <1>0, <1>1, <1>2, <2>4, <3>2, EmptyFacts DEF BackInv, TakenBackInv
      <3>4. ASSUME s \in NotRestored PROVE Users(s) = {}
        <4>1. t \notin Enabled
          BY <1>0, <1>2, <2>4 DEF JobInv
        <4> QED  BY <1>3, <1>5, <2>4, <3>4, <4>1, NotRestoredPrivate DEF Users
      <3> QED  BY <2>1, <3>1, <3>3, <3>4
    <2> QED  BY <1>1, <2>2, <2>3, <2>4
  <1>9. StackInv'
    BY <1>1, <1>2, <1>7, <1>8, StacksKept
  <1>10. SavedInv'
    <2>1. \A u : Holding(u)' => Holding(u)
      BY <1>5, <1>6 DEF Holding
    <2> QED  BY <1>1, <1>2, <1>5, <2>1 DEF SavedInv
  <1>11. IdleInv'
    BY <1>1, <1>2, <1>5 DEF IdleInv
  <1>12. JobInv' /\ EnableInv' /\ BackInv'
    BY <1>6, EmptyFacts DEF JobInv, EnableInv, BackInv
  <1> QED  BY <1>4, <1>5, <1>9, <1>10, <1>11, <1>12 DEF TuneInv

\* No tuner is enabled in the beginning, and the system is as it was found.
LEMMA TuneInit ==
  ASSUME Init
  PROVE  TuneInv
  <1>1. PICK o \in Originals : original = [s \in Settings |-> o[s]]
    BY DEF Init
  <1>2. /\ sys = original /\ entry = original /\ order = <<>> /\ idle = {} /\ job = NoJob
        /\ missed = {} /\ spoilt = {} /\ jobs = 0 /\ faults = 0
        /\ saved = [t \in Tuners |-> [s \in SettingsOf(t) |-> NoValue]]
    BY DEF Init
  <1>3. job.doing = "nothing" /\ job.ahead = <<>> /\ job.tuner = "none"
    BY <1>2 DEF NoJob
  <1>4. Enabled = {} /\ \A s : Users(s) = {}
    BY <1>2 DEF Enabled, Users
  <1>5. TypeOK
    <2>1. \A s \in Settings : o[s] \in Values[s]
      BY DEF Values
    <2>2. /\ original \in [Settings -> UNION {Values[s] : s \in Settings}]
          /\ \A s \in Settings : original[s] \in Values[s]
      BY <1>1, <2>1
    <2>3. /\ {sys, original, entry} \subseteq [Settings -> UNION {Values[s] : s \in Settings}]
          /\ \A s \in Settings : {sys[s], original[s], entry[s]} \subseteq Values[s]
      BY <1>2, <2>2
    <2>4. order \in Seq(Tuners) /\ \A i, j \in DOMAIN order : order[i] = order[j] => i = j
      BY <1>2
    <2>5. /\ DOMAIN saved = Tuners
          /\ \A t \in Tuners : \A s \in SettingsOf(t) : saved[t][s] \in Values[s] \cup {NoValue}
      BY <1>2
    <2>6. jobs \in 0..MaxJobs /\ faults \in 0..MaxFaults
      BY <1>2, TuneBoundsAssumption
    <2> QED  BY <1>2, <2>3, <2>4, <2>5, <2>6 DEF TypeOK
  <1>6. OriginalInv
    BY <1>1 DEF OriginalInv
  <1>7. StackInv
    BY <1>2, <1>3, <1>4 DEF StackInv, EmptyInv, TopInv, BottomInv, UnderInv, Top, Bottom, Under, Base
  <1>8. SavedInv /\ IdleInv
    BY <1>2, <1>3, <1>4 DEF SavedInv, Holding, IdleInv
  <1>9. JobInv /\ EnableInv /\ BackInv
    BY <1>3, EmptyFacts DEF JobInv, EnableInv, BackInv
  <1> QED  BY <1>5, <1>6, <1>7, <1>8, <1>9 DEF TuneInv

\* Nothing that the invariant speaks of changes.
LEMMA TuneStutter ==
  ASSUME TuneInv, UNCHANGED vars
  PROVE  TuneInv'
  <1>1. UNCHANGED <<sys, original, order, saved, idle, job, entry, missed, spoilt, jobs, faults>>
    BY DEF vars
  <1>2. TypeOK' /\ OriginalInv'
    BY <1>1 DEF TuneInv, TypeOK, OriginalInv
  <1>3. Enabled' = Enabled /\ NotRestored' = NotRestored
    BY <1>1 DEF Enabled, NotRestored
  <1>4. StackInv'
    <2>1. \A s \in Settings : Base(s)' = Base(s)
      BY <1>1 DEF Base
    <2> QED  BY <1>1, <2>1, StacksKept DEF TuneInv
  <1>5. SavedInv' /\ IdleInv'
    BY <1>1, <1>3 DEF TuneInv, SavedInv, Holding, IdleInv
  <1>6. JobInv' /\ EnableInv'
    BY <1>1, <1>3 DEF TuneInv, JobInv, EnableInv, Written, Done
  <1>7. BackInv'
    BY <1>1, <1>3 DEF TuneInv, BackInv, TakenBackInv, Target
  <1> QED  BY <1>2, <1>4, <1>5, <1>6, <1>7 DEF TuneInv

-----------------------------------------------------------------------------
(* Theorems                                                                *)

\* Every call of Enable, Disable and Run keeps the stacks of saved values, at
\* every write it does or fails to do.
THEOREM TuneInvariance == Spec => []TuneInv
  <1>1. Init => TuneInv
    BY TuneInit
  <1>2. TuneInv /\ [Next]_vars => TuneInv'
    <2> SUFFICES ASSUME TuneInv, [Next]_vars PROVE TuneInv'
      OBVIOUS
    <2>1. CASE UNCHANGED vars
      BY <2>1, TuneStutter
    <2>2. ASSUME NEW t \in Tuners, EnableBegins(t) PROVE TuneInv'
      BY <2>2, EnableBeginsKeeps
    <2>3. ASSUME NEW t \in Tuners, EnableRefused(t) PROVE TuneInv'
      BY <2>3, EnableRefusedKeeps
    <2>4. ASSUME NEW t \in Tuners, RunBegins(t) PROVE TuneInv'
      BY <2>4, RunBeginsKeeps
    <2>5. ASSUME NEW t \in Tuners, DisableBegins(t) PROVE TuneInv'
      BY <2>5, DisableBeginsKeeps
    <2>6. CASE EnableWrites
      BY <2>6, EnableWritesKeeps
    <2>7. CASE EnableFails
      BY <2>7, EnableFailsKeeps
    <2>8. CASE Enables
      BY <2>8, EnablesKeeps
    <2>9. CASE GoesBack
      BY <2>9, GoesBackKeeps
    <2>10. CASE GoesBackFails
      BY <2>10, GoesBackFailsKeeps
    <2>11. CASE Ends
      BY <2>11, EndsKeeps
    <2> QED  BY <2>1, <2>2, <2>3, <2>4, <2>5, <2>6, <2>7, <2>8, <2>9, <2>10, <2>11 DEF Next
  <1> QED  BY <1>1, <1>2, PTL DEF Spec

\* The settings, what the tuners saved of them and the writes ahead of the call in
\* progress are what the code of the tuners lets them be.
THEOREM TuneTypeCorrect == Spec => []TypeOK
  <1>1. TuneInv => TypeOK
    BY DEF TuneInv
  <1> QED  BY <1>1, TuneInvariance, PTL

\* Disable: with every tuner disabled, each before those it was enabled after,
\* the system is what it was before the first, for the settings whose write back
\* worked and is of what was read.
THEOREM RestoredInOrderHolds == Spec => []RestoredInOrder
  <1>1. TuneInv => RestoredInOrder
    <2> SUFFICES ASSUME TuneInv, job = NoJob, order = <<>>, NEW s \in Settings,
                        s \notin spoilt \cup NotRestored
                 PROVE  sys[s] = original[s]
      BY DEF RestoredInOrder
    <2>1. Users(s) = {}
      BY DEF Users, Enabled
    <2>2. Base(s) = sys[s]
      BY DEF Base, NoJob
    <2> QED  BY <2>1, <2>2 DEF TuneInv, StackInv, EmptyInv
  <1> QED  BY <1>1, TuneInvariance, PTL

\* Enable: one that returns FAILED, at whichever of its writes and however its
\* roll back was interleaved with writes of its own that were skipped, leaves
\* every setting as the call found it.
THEOREM FailedEnableLeavesNoTraceHolds == Spec => []FailedEnableLeavesNoTrace
  <1>1. TuneInv => FailedEnableLeavesNoTrace
    <2> SUFFICES ASSUME TuneInv, job.doing = "undo", job.ahead = <<>>, NEW s \in Settings,
                        s \notin spoilt \cup NotRestored
                 PROVE  sys[s] = entry[s]
      BY DEF FailedEnableLeavesNoTrace
    <2>1. CASE s \notin SettingsOf(job.tuner)
      BY <2>1 DEF TuneInv, JobInv
    <2>2. CASE s \in SettingsOf(job.tuner)
      <3>1. job.tuner \in Tuners
        BY JobType DEF TuneInv
      <3>2. PICK k \in Indices(job.tuner) : W(job.tuner, k).set = s
        BY <2>2, <3>1, SettingsOfDef
      <3>3. TakenBackInv(job.tuner, k)
        BY DEF TuneInv, BackInv
      <3> QED  BY <3>2, <3>3, EmptyFacts DEF TakenBackInv, Target
    <2> QED  BY <2>1, <2>2
  <1> QED  BY <1>1, TuneInvariance, PTL

\* Enable and Run: between calls a setting has the value of the tuner enabled last
\* of those that use it, although a later one may have come and gone.
THEOREM TunedWhileEnabledHolds == Spec => []TunedWhileEnabled
  <1>1. TuneInv => TunedWhileEnabled
    <2> SUFFICES ASSUME TuneInv, job = NoJob, NEW i \in DOMAIN order,
                        NEW k \in DOMAIN Code[order[i]].writes,
                        Code[order[i]].writes[k].set \notin spoilt,
                        ~\E j \in DOMAIN order :
                           j > i /\ Code[order[i]].writes[k].set \in SettingsOf(order[j])
                 PROVE  LET w == Code[order[i]].writes[k]
                        IN \/ <<order[i], w.set>> \in missed \/ sys[w.set] = w.to
                           \/ (order[i] \in idle /\ k > 1)
      BY DEF TunedWhileEnabled
    <2>1. PICK t, s : t = order[i] /\ s = W(t, k).set
      OBVIOUS
    <2>2. OrderOK /\ t \in Tuners /\ t \in Enabled
      BY <2>1, TypeOrder, BeforeFacts DEF TuneInv, Enabled
    <2>3. k \in Indices(t) /\ s \in SettingsOf(t) /\ s \in Settings /\ s \notin spoilt
      BY <2>1, <2>2, SettingsOfSettings DEF Indices, W
    <2>4. ASSUME NEW u \in Users(s) PROVE ~Before(t, u)
      <3> SUFFICES ASSUME Before(t, u) PROVE FALSE
        OBVIOUS
      <3>1. PICK m, j \in DOMAIN order : m < j /\ order[m] = t /\ order[j] = u
        BY DEF Before
      <3>2. m = i
        BY <2>1, <2>2, <3>1 DEF OrderOK, Distinct
      <3>3. j > i
        BY <2>2, <3>1, <3>2 DEF OrderOK
      <3> QED  BY <2>1, <3>1, <3>3 DEF Users, W
    <2>5. Top(t, s)
      BY <2>2, <2>3, <2>4 DEF Top, Users
    <2>6. Base(s) = sys[s]
      BY DEF Base, NoJob
    <2>7. Holds(t, s, sys[s])
      BY <2>2, <2>3, <2>5, <2>6 DEF TuneInv, StackInv, TopInv
    <2> QED  BY <2>1, <2>3, <2>7 DEF Holds, W
  <1> QED  BY <1>1, TuneInvariance, PTL
=============================================================================
