------------------------- MODULE ConfigFile_proofs -------------------------
(***************************************************************************)
(* For every set of profiles, managers, jobs and commands: the state of    *)
(* ConfigFile keeps its types, the event loop runs one job at a time, and  *)
(* a saved change stays unless a save was interrupted, a walk saved after  *)
(* an await or a command overlapped with another writer.                   *)
(***************************************************************************)
EXTENDS ConfigFile, TLAPS

\* One step of one job.
Steps(j, k) == job' = [job EXCEPT ![j] = k]

LEMMA NewJobTypes ==
    /\ NewJob \in Job /\ Done \in Job /\ Defaults \in Config
    /\ NewJob.at = "new" /\ Done.at = "done"
    /\ \A m \in Managers, l \in BOOLEAN :
          Looking(m, l) \in Job /\ Looking(m, l).at = "looking"
<1>1. Defaults \in Config
  BY DefaultIsAValue DEF Defaults, Config
<1>2. /\ (CHOOSE m \in Managers : TRUE) \in Managers
      /\ (CHOOSE p \in Profiles : TRUE) \in Profiles
  BY SomeManager, SomeProfile
<1>3. [value |-> NoValue, profiles |-> {}] \in Wanted
  BY DefaultIsAValue DEF Wanted
<1>4. NewJob \in Job /\ NewJob.at = "new"
  BY <1>1, <1>2, <1>3 DEF NewJob, Job
<1>5. Done \in Job /\ Done.at = "done"
  BY <1>4 DEF Done, Job
<1>6. ASSUME NEW m \in Managers, NEW l \in BOOLEAN
      PROVE  Looking(m, l) \in Job /\ Looking(m, l).at = "looking"
  BY <1>4 DEF Looking, Job
<1> QED BY <1>1, <1>4, <1>5, <1>6

LEMMA ConfigTypes ==
    ASSUME NEW c \in Config
    PROVE  /\ \A v \in Values : SetValue(c, v) \in Config
           /\ \A p \in Profiles, t \in Nat : SetProfile(c, p, t) \in Config
           /\ \A p \in Profiles : DropProfile(c, p) \in Config
           /\ \A p \in Profiles : Effective(c, p) \in Nat
           /\ Redacted(c) \in Config
           /\ Present(c) \subseteq Profiles
           /\ [value |-> c.value, profiles |-> Present(c)] \in Wanted
<1>1. Redacted(c) \in Config
  BY DEF Config, Redacted, Mask
<1> QED BY <1>1 DEF Config, SetValue, SetProfile, DropProfile, Effective, Present, Wanted

LEMMA LoadTypes == TypeOK => Load \in Config
  BY NewJobTypes DEF TypeOK, Load

\* What a step of one job must establish for the types.
LEMMA JobStep ==
    ASSUME TypeOK, NEW j \in Jobs, NEW k \in Job, Steps(j, k), OneOnLoop',
           file' \in Config, torn' \in BOOLEAN, snapshots' \subseteq Config,
           loaded' \in [Managers -> Config], loop' \subseteq Jobs,
           issued' \in [Profiles -> Nat],
           spent' \in [Profiles -> SUBSET (Nat \ {0})], faults' \in Nat,
           intended' \in Wanted, harm' \subseteq Harms
    PROVE  TypeOK'
  BY DEF TypeOK, Steps

LEMMA TruncateTypes ==
    ASSUME TypeOK, NEW j \in Jobs, NEW c \in Config, NEW w \in Wanted,
           NEW h \in SUBSET Harms, Truncate(j, c, w, h)
    PROVE  /\ torn' = TRUE /\ harm' \subseteq Harms
           /\ \E k \in Job : Steps(j, k) /\ k.at = "saving"
<1>1. harm' \subseteq Harms
  BY DEF TypeOK, Truncate, Harms
<1>2. job[j] \in Job
  BY DEF TypeOK
<1>3. /\ [job[j] EXCEPT !.at = "saving", !.config = c, !.wanted = w] \in Job
      /\ [job[j] EXCEPT !.at = "saving", !.config = c, !.wanted = w].at = "saving"
  BY <1>2 DEF Job
<1> QED BY <1>1, <1>3 DEF Truncate, Steps

\* The four changes of an edit or a command.
LEMMA ChangeTypes ==
    ASSUME TypeOK, NEW j \in Jobs, NEW c \in Config,
           \/ ChangeValue(j, c)
           \/ ChangeProfile(j, c)
           \/ DeleteProfile(j, c)
           \/ \E h \in SUBSET Harms : Replace(j, c, h)
    PROVE  /\ torn' = TRUE /\ harm' \subseteq Harms
           /\ issued' \in [Profiles -> Nat]
           /\ \E k \in Job : Steps(j, k) /\ k.at = "saving"
<1>1. intended \in Wanted /\ issued \in [Profiles -> Nat]
  BY DEF TypeOK
<1>2. {} \in SUBSET Harms
  OBVIOUS
<1>3. CASE ChangeValue(j, c)
  <2>1. PICK v \in Values :
          Truncate(j, SetValue(c, v), [intended EXCEPT !.value = v], {})
    BY <1>3 DEF ChangeValue
  <2>2. [intended EXCEPT !.value = v] \in Wanted
    BY <1>1 DEF Wanted
  <2>3. SetValue(c, v) \in Config
    BY ConfigTypes
  <2>4. issued' \in [Profiles -> Nat]
    BY <1>1, <1>3 DEF ChangeValue, NoLogin
  <2> QED BY <1>2, <2>1, <2>2, <2>3, <2>4, TruncateTypes
<1>4. CASE ChangeProfile(j, c)
  <2>1. PICK p \in Profiles :
          /\ NewLogin(p)
          /\ Truncate(j, SetProfile(c, p, issued'[p]),
                      [intended EXCEPT !.profiles = @ \cup {p}], {})
    BY <1>4 DEF ChangeProfile
  <2>2. [intended EXCEPT !.profiles = @ \cup {p}] \in Wanted
    BY <1>1 DEF Wanted
  <2>3. issued' \in [Profiles -> Nat]
    BY <1>1, <2>1 DEF NewLogin
  <2>4. issued'[p] \in Nat
    BY <2>3
  <2>5. SetProfile(c, p, issued'[p]) \in Config
    BY <2>4, ConfigTypes
  <2> QED BY <1>2, <2>1, <2>2, <2>3, <2>5, TruncateTypes
<1>5. CASE DeleteProfile(j, c)
  <2>1. PICK p \in Present(c) :
          Truncate(j, DropProfile(c, p), [intended EXCEPT !.profiles = @ \ {p}], {})
    BY <1>5 DEF DeleteProfile
  <2>2. p \in Profiles
    BY ConfigTypes
  <2>3. [intended EXCEPT !.profiles = @ \ {p}] \in Wanted
    BY <1>1 DEF Wanted
  <2>4. DropProfile(c, p) \in Config
    BY <2>2, ConfigTypes
  <2>5. issued' \in [Profiles -> Nat]
    BY <1>1, <1>5 DEF DeleteProfile, NoLogin
  <2> QED BY <1>2, <2>1, <2>3, <2>4, <2>5, TruncateTypes
<1>6. CASE \E h \in SUBSET Harms : Replace(j, c, h)
  <2>1. PICK h \in SUBSET Harms : Replace(j, c, h)
    BY <1>6
  <2>2. issued' \in [Profiles -> Nat]
    BY <1>1, <2>1 DEF Replace, NoLogin
  <2>3. [value |-> c.value, profiles |-> Present(c)] \in Wanted
    BY ConfigTypes
  <2> QED BY <2>1, <2>2, <2>3, TruncateTypes DEF Replace
<1> QED BY <1>3, <1>4, <1>5, <1>6

-----------------------------------------------------------------------------
(* Types *)

LEMMA TypesInit == Init => TypeOK
<1> SUFFICES ASSUME Init PROVE TypeOK
  OBVIOUS
<1>1. file \in Config /\ torn \in BOOLEAN /\ snapshots \subseteq Config
  <2>1. \A S, T, N : S \subseteq T => [N -> S] \subseteq [N -> T]
    OBVIOUS
  <2>2. [Profiles -> {0, 2}] \subseteq [Profiles -> Nat]
    BY <2>1
  <2> QED BY <2>2, DefaultIsAValue DEF Init, Config
<1>2. job \in [Jobs -> Job] /\ OneOnLoop /\ loop \subseteq Jobs
  BY NewJobTypes DEF Init, OneOnLoop
<1>3. intended \in Wanted
  BY <1>1, ConfigTypes, DefaultIsAValue DEF Init, Wanted
<1>4. /\ loaded \in [Managers -> Config] /\ issued \in [Profiles -> Nat]
      /\ spent \in [Profiles -> SUBSET (Nat \ {0})] /\ faults \in Nat /\ harm \subseteq Harms
  BY <1>1 DEF Init
<1> QED BY <1>1, <1>2, <1>3, <1>4 DEF TypeOK

\* Write and SaveFails give the loop back when an edit has saved.
LEMMA ReturnTypes ==
    ASSUME TypeOK, NEW j \in Jobs, job[j].at = "saving", Return(j)
    PROVE  /\ \E k \in Job : Steps(j, k)
           /\ OneOnLoop' /\ loop' \subseteq Jobs
<1>1. job[j] \in Job /\ job \in [Jobs -> Job] /\ loop \subseteq Jobs
  BY DEF TypeOK
<1>2. job[j].manager \in Managers /\ job[j].late \in BOOLEAN
  BY <1>1 DEF Job
<1> DEFINE k == IF j \in Resolvers THEN Looking(job[j].manager, job[j].late) ELSE Done
<1>3. /\ Steps(j, k) /\ k \in Job
      /\ k.at = IF j \in Resolvers THEN "looking" ELSE "done"
  BY <1>2, NewJobTypes DEF Return, Steps
<1>4. job' = [job EXCEPT ![j] = k]
  BY <1>3 DEF Steps
<1>5. /\ job'[j].at = IF j \in Resolvers THEN "looking" ELSE "done"
      /\ \A i \in Jobs \ {j} : job'[i] = job[i]
  BY <1>1, <1>3, <1>4
<1>6. OneOnLoop'
  BY <1>1, <1>5, JobsAreDistinct DEF OneOnLoop, TypeOK, Return, Jobs, Resolvers
<1>7. loop' \subseteq Jobs
  BY <1>1 DEF Return
<1> QED BY <1>3, <1>6, <1>7

LEMMA WriteTypes ==
    ASSUME TypeOK, NEW j \in Jobs, Write(j)
    PROVE  TypeOK'
<1>1. job[j].at = "saving" /\ Return(j)
  BY DEF Write
<1>2. PICK k \in Job : Steps(j, k)
  BY <1>1, ReturnTypes
<1>3. OneOnLoop' /\ loop' \subseteq Jobs
  BY <1>1, ReturnTypes
<1>4. job[j] \in Job
  BY DEF TypeOK
<1>5. file' \in Config /\ torn' \in BOOLEAN /\ intended' \in Wanted
  BY <1>4 DEF Write, Job
<1> QED BY <1>2, <1>3, <1>5, JobStep DEF Write, TypeOK

LEMMA SaveFailsTypes ==
    ASSUME TypeOK, NEW j \in Jobs, SaveFails(j)
    PROVE  TypeOK'
<1>1. job[j].at = "saving" /\ Return(j)
  BY DEF SaveFails
<1>2. PICK k \in Job : Steps(j, k)
  BY <1>1, ReturnTypes
<1>3. OneOnLoop' /\ loop' \subseteq Jobs
  BY <1>1, ReturnTypes
<1>4. harm' \subseteq Harms /\ torn' \in BOOLEAN /\ faults' \in Nat
  BY DEF SaveFails, TypeOK, Harms
<1> QED BY <1>2, <1>3, <1>4, JobStep DEF SaveFails, TypeOK

\* A job that takes the free loop.
LEMMA LoopTaken ==
    ASSUME TypeOK, NEW j \in Jobs \ Commands, NEW k \in Job, Steps(j, k),
           k.at \in {"looking", "refreshed", "saving"},
           loop = {} \/ loop = {j}, loop' = {j}
    PROVE  OneOnLoop' /\ loop' \subseteq Jobs
<1>1. job' = [job EXCEPT ![j] = k] /\ job \in [Jobs -> Job]
  BY DEF TypeOK, Steps
<1>2. job'[j].at = k.at /\ \A i \in Jobs \ {j} : job'[i] = job[i]
  BY <1>1
<1> QED BY <1>2 DEF OneOnLoop, TypeOK

LEMMA LoopKept ==
    ASSUME TypeOK, NEW j \in Jobs, NEW k \in Job, Steps(j, k), UNCHANGED loop,
           j \notin Commands =>
              (k.at \in {"looking", "refreshed", "saving"} <=> j \in loop)
    PROVE  OneOnLoop' /\ loop' \subseteq Jobs
<1>1. job' = [job EXCEPT ![j] = k] /\ job \in [Jobs -> Job]
  BY DEF TypeOK, Steps
<1>2. job'[j].at = k.at /\ \A i \in Jobs \ {j} : job'[i] = job[i]
  BY <1>1
<1> QED BY <1>2 DEF OneOnLoop, TypeOK

LEMMA EditTypes ==
    ASSUME TypeOK, NEW j \in Edits, Edit(j) \/ ActivateSnapshot(j)
    PROVE  TypeOK'
<1>1. j \in Jobs \ Commands
  BY JobsAreDistinct DEF Jobs, Resolvers
<1>2. /\ torn' = TRUE /\ harm' \subseteq Harms
      /\ issued' \in [Profiles -> Nat]
      /\ \E k \in Job : Steps(j, k) /\ k.at = "saving"
  <2>1. CASE Edit(j)
    <3>1. Load \in Config
      BY LoadTypes
    <3>2. CASE \E v \in Values : Replace(j, SetValue(Defaults, v), {})
      <4>1. PICK v \in Values : Replace(j, SetValue(Defaults, v), {})
        BY <3>2
      <4>2. SetValue(Defaults, v) \in Config
        BY NewJobTypes, ConfigTypes
      <4>3. {} \in SUBSET Harms
        OBVIOUS
      <4> QED BY <1>1, <4>1, <4>2, <4>3, ChangeTypes
    <3> QED BY <1>1, <2>1, <3>1, <3>2, ChangeTypes DEF Edit
  <2>2. CASE ActivateSnapshot(j)
    <3>1. PICK c \in snapshots : Replace(j, c, IF Stale(c) THEN {"token"} ELSE {})
      BY <2>2 DEF ActivateSnapshot
    <3>2. c \in Config /\ (IF Stale(c) THEN {"token"} ELSE {}) \in SUBSET Harms
      BY DEF TypeOK, Harms
    <3> QED BY <1>1, <3>1, <3>2, ChangeTypes
  <2> QED BY <2>1, <2>2
<1>3. PICK k \in Job : Steps(j, k) /\ k.at = "saving"
  BY <1>2
<1>4. loop = {} /\ loop' = {j}
  BY DEF Edit, ActivateSnapshot, Admin
<1>5. OneOnLoop' /\ loop' \subseteq Jobs
  BY <1>1, <1>3, <1>4, LoopTaken
<1>6. UNCHANGED <<file, snapshots, loaded, spent, faults, intended>>
  BY DEF Edit, ActivateSnapshot
<1> QED BY <1>1, <1>2, <1>3, <1>5, <1>6, JobStep DEF TypeOK

\* What the dashboard fetches and posts back.
LEMMA DashboardTypes ==
    ASSUME TypeOK, NEW j \in Edits, Fetch(j) \/ Post(j)
    PROVE  TypeOK'
<1>1. j \in Jobs \ Commands /\ job[j] \in Job
  BY JobsAreDistinct DEF Jobs, Resolvers, TypeOK
<1>2. CASE Fetch(j)
  <2> DEFINE k == [job[j] EXCEPT !.at = "fetched", !.config = Redacted(Load)]
  <2>1. Redacted(Load) \in Config
    BY LoadTypes, ConfigTypes
  <2>2. k \in Job /\ k.at = "fetched" /\ Steps(j, k)
    BY <1>1, <1>2, <2>1 DEF Job, Fetch, Steps
  <2> HIDE DEF k
  <2>3. OneOnLoop' /\ loop' \subseteq Jobs
    BY <1>1, <1>2, <2>2, LoopKept DEF Fetch, Admin
  <2> QED BY <1>1, <1>2, <2>2, <2>3, JobStep DEF Fetch, TypeOK
<1>3. CASE Post(j)
  <2>1. PICK v \in Values :
          Replace(j, SetValue(job[j].config, v),
                  IF Present(job[j].config) # {} THEN {"masked"} ELSE {})
    BY <1>3 DEF Post
  <2>2. /\ SetValue(job[j].config, v) \in Config
        /\ (IF Present(job[j].config) # {} THEN {"masked"} ELSE {}) \in SUBSET Harms
    BY <1>1, ConfigTypes DEF Job, Harms
  <2>3. /\ torn' = TRUE /\ harm' \subseteq Harms
        /\ issued' \in [Profiles -> Nat]
        /\ \E k \in Job : Steps(j, k) /\ k.at = "saving"
    BY <1>1, <2>1, <2>2, ChangeTypes
  <2>4. PICK k \in Job : Steps(j, k) /\ k.at = "saving"
    BY <2>3
  <2>5. OneOnLoop' /\ loop' \subseteq Jobs
    BY <1>1, <1>3, <2>4, LoopTaken DEF Post
  <2> QED BY <1>1, <1>3, <2>3, <2>4, <2>5, JobStep DEF Post, TypeOK
<1> QED BY <1>2, <1>3

LEMMA SaveSnapshotTypes ==
    ASSUME TypeOK, NEW j \in Edits, SaveSnapshot(j)
    PROVE  TypeOK'
<1>1. j \in Jobs
  BY DEF Jobs
<1>2. Steps(j, Done) /\ Done \in Job /\ Done.at = "done" /\ loop = {} /\ UNCHANGED loop
  BY NewJobTypes DEF SaveSnapshot, Steps, Admin
<1>3. OneOnLoop' /\ loop' \subseteq Jobs
  BY <1>1, <1>2, LoopKept
<1>4. snapshots' \subseteq Config
  BY LoadTypes DEF SaveSnapshot
<1> QED BY <1>1, <1>2, <1>3, <1>4, JobStep DEF SaveSnapshot, TypeOK

LEMMA CommandTypes ==
    ASSUME TypeOK, NEW j \in Commands, CommandLoads(j) \/ CommandSaves(j)
    PROVE  TypeOK'
<1>1. j \in Jobs /\ job[j] \in Job
  BY DEF Jobs, TypeOK
<1>2. CASE CommandLoads(j)
  <2> DEFINE k == [job[j] EXCEPT !.at = "read", !.config = Load]
  <2>1. Load \in Config
    BY LoadTypes
  <2>2. k \in Job /\ Steps(j, k)
    BY <1>1, <1>2, <2>1 DEF Job, CommandLoads, Steps
  <2>3. harm' \subseteq Harms
    BY <1>2 DEF CommandLoads, TypeOK, Harms
  <2>4. OneOnLoop' /\ loop' \subseteq Jobs
    BY <1>1, <1>2, <2>2, LoopKept DEF CommandLoads
  <2> HIDE DEF k
  <2> QED BY <1>1, <1>2, <2>2, <2>3, <2>4, JobStep DEF CommandLoads, TypeOK
<1>3. CASE CommandSaves(j)
  <2>1. job[j].config \in Config
    BY <1>1 DEF Job
  <2>2. /\ torn' = TRUE /\ harm' \subseteq Harms
        /\ issued' \in [Profiles -> Nat]
        /\ \E k \in Job : Steps(j, k) /\ k.at = "saving"
    BY <1>1, <1>3, <2>1, ChangeTypes DEF CommandSaves
  <2>3. PICK k \in Job : Steps(j, k) /\ k.at = "saving"
    BY <2>2
  <2>4. OneOnLoop' /\ loop' \subseteq Jobs
    BY <1>1, <1>3, <2>3, LoopKept DEF CommandSaves
  <2> QED BY <1>1, <1>3, <2>2, <2>3, <2>4, JobStep DEF CommandSaves, TypeOK
<1> QED BY <1>2, <1>3

LEMMA ResolverTypes ==
    ASSUME TypeOK, NEW j \in Resolvers,
           \/ \E m \in Managers : Begin(j, m)
           \/ \E p \in Profiles : Refresh(j, p)
           \/ SaveRefreshed(j) \/ Await(j) \/ Resume(j)
    PROVE  TypeOK'
<1>1. j \in Jobs \ Commands /\ job[j] \in Job
  BY JobsAreDistinct DEF Jobs, Resolvers, TypeOK
<1>2. job[j].manager \in Managers /\ job[j].profile \in Profiles /\ job[j].token \in Nat
  BY <1>1 DEF Job
<1>3. ASSUME job[j].at \in {"looking", "refreshed", "saving"}
      PROVE  loop = {j}
  BY <1>1, <1>3 DEF TypeOK, OneOnLoop
<1>4. CASE \E m \in Managers : Begin(j, m)
  <2>1. PICK m \in Managers : Begin(j, m)
    BY <1>4
  <2>2. /\ Steps(j, Looking(m, FALSE)) /\ Looking(m, FALSE) \in Job
        /\ Looking(m, FALSE).at = "looking"
    BY <2>1, NewJobTypes DEF Begin, Steps
  <2>3. OneOnLoop' /\ loop' \subseteq Jobs
    BY <1>1, <2>1, <2>2, LoopTaken DEF Begin
  <2>4. loaded' \in [Managers -> Config]
    BY <2>1, LoadTypes DEF Begin, Reload, TypeOK
  <2> QED BY <1>1, <2>1, <2>2, <2>3, <2>4, JobStep DEF Begin, TypeOK
<1>5. CASE \E p \in Profiles : Refresh(j, p)
  <2>1. PICK p \in Profiles : Refresh(j, p)
    BY <1>5
  <2>2. Has(j, p) \in Nat \ {0}
    BY <1>2, <2>1, ConfigTypes DEF Refresh, Has, TypeOK
  <2>3. /\ issued' \in [Profiles -> Nat] /\ issued[p] + 1 \in Nat
        /\ spent' \in [Profiles -> SUBSET (Nat \ {0})]
    <3>1. issued \in [Profiles -> Nat] /\ spent \in [Profiles -> SUBSET (Nat \ {0})]
      BY DEF TypeOK
    <3>2. issued' = [issued EXCEPT ![p] = @ + 1]
      BY <2>1 DEF Refresh, NewLogin
    <3>3. spent' = [spent EXCEPT ![p] = @ \cup {Has(j, p)}]
      BY <2>1 DEF Refresh
    <3>4. issued[p] + 1 \in Nat /\ spent[p] \cup {Has(j, p)} \in SUBSET (Nat \ {0})
      BY <2>2, <3>1
    <3> QED BY <3>1, <3>2, <3>3, <3>4
  <2>4. harm' \subseteq Harms /\ faults' \in Nat
    <3>1. harm \subseteq Harms /\ faults \in Nat /\ "token" \in Harms
      BY DEF TypeOK, Harms
    <3>2. \/ UNCHANGED <<faults, harm>>
          \/ faults' = faults + 1 /\ harm' = harm \cup {"token"}
      BY <2>1 DEF Refresh
    <3> QED BY <3>1, <3>2
  <2>5. loop = {j} /\ UNCHANGED loop
    BY <1>3, <2>1 DEF Refresh, Looks
  <2>6. \E k \in Job : Steps(j, k) /\ k.at \in {"looking", "refreshed", "saving"}
    <3> DEFINE k == [job[j] EXCEPT !.at = "refreshed", !.profile = p,
                                   !.token = issued[p] + 1]
    <3>1. k \in Job /\ k.at = "refreshed"
      BY <1>1, <2>3 DEF Job
    <3>2. CASE Steps(j, k)
      BY <3>1, <3>2
    <3>3. CASE UNCHANGED job
      <4>1. Steps(j, job[j])
        BY <3>3 DEF TypeOK, Steps
      <4>2. job[j].at = "looking"
        BY <2>1 DEF Refresh, Looks
      <4> QED BY <1>1, <4>1, <4>2
    <3> QED BY <2>1, <3>2, <3>3 DEF Refresh, Steps
  <2>7. PICK k \in Job : Steps(j, k) /\ k.at \in {"looking", "refreshed", "saving"}
    BY <2>6
  <2>8. OneOnLoop' /\ loop' \subseteq Jobs
    BY <1>1, <2>5, <2>7, LoopTaken
  <2> QED BY <1>1, <2>1, <2>3, <2>4, <2>7, <2>8, JobStep DEF Refresh, TypeOK
<1>6. CASE SaveRefreshed(j)
  <2> DEFINE c == Updated(job[j])
  <2>1. c \in Config
    BY <1>2, ConfigTypes DEF Updated, TypeOK
  <2>2. loaded' \in [Managers -> Config]
    BY <1>2, <1>6, <2>1 DEF SaveRefreshed, TypeOK
  <2>3. Truncate(j, c, intended, {}) /\ intended \in Wanted
    BY <1>6 DEF SaveRefreshed, TypeOK
  <2> HIDE DEF c
  <2>4. /\ torn' = TRUE /\ harm' \subseteq Harms
        /\ \E k \in Job : Steps(j, k) /\ k.at = "saving"
    <3>1. {} \in SUBSET Harms
      OBVIOUS
    <3> QED BY <1>1, <2>1, <2>3, <3>1, TruncateTypes
  <2>5. PICK k \in Job : Steps(j, k) /\ k.at = "saving"
    BY <2>4
  <2>6. loop = {j} /\ UNCHANGED loop
    BY <1>3, <1>6 DEF SaveRefreshed
  <2>7. OneOnLoop' /\ loop' \subseteq Jobs
    BY <1>1, <2>5, <2>6, LoopTaken
  <2> QED BY <1>1, <1>6, <2>2, <2>4, <2>5, <2>7, JobStep DEF SaveRefreshed, TypeOK
<1>7. CASE Await(j)
  <2> DEFINE k == IF j \in Walks THEN [job[j] EXCEPT !.at = "away"] ELSE Done
  <2>1. k \in Job /\ k.at \in {"away", "done"}
    BY <1>1, NewJobTypes DEF Job
  <2>2. job' = [job EXCEPT ![j] = k] /\ job \in [Jobs -> Job]
    BY <1>7 DEF Await, TypeOK
  <2> HIDE DEF k
  <2>3. job'[j].at = k.at /\ \A i \in Jobs \ {j} : job'[i] = job[i]
    BY <1>1, <2>2
  <2>4. loop = {j} /\ loop' = {}
    BY <1>3, <1>7 DEF Await, Looks
  <2>5. OneOnLoop' /\ loop' \subseteq Jobs
    BY <1>1, <2>1, <2>3, <2>4 DEF OneOnLoop, TypeOK
  <2>6. Steps(j, k)
    BY <2>2 DEF Steps
  <2> QED BY <1>1, <1>7, <2>1, <2>5, <2>6, JobStep DEF Await, TypeOK
<1>8. CASE Resume(j)
  <2> DEFINE k == Looking(job[j].manager, TRUE)
  <2>1. Steps(j, k) /\ k \in Job /\ k.at = "looking"
    BY <1>2, <1>8, NewJobTypes DEF Resume, Steps
  <2> HIDE DEF k
  <2>2. OneOnLoop' /\ loop' \subseteq Jobs
    BY <1>1, <1>8, <2>1, LoopTaken DEF Resume, Free
  <2> QED BY <1>1, <1>8, <2>1, <2>2, JobStep DEF Resume, TypeOK
<1> QED BY <1>4, <1>5, <1>6, <1>7, <1>8

LEMMA CrashTypes == TypeOK /\ Crash => TypeOK'
<1> SUFFICES ASSUME TypeOK, Crash PROVE TypeOK'
  OBVIOUS
<1>1. job' \in [Jobs -> Job]
  BY NewJobTypes DEF Crash, TypeOK
<1>2. \A j \in Jobs \ Commands : job'[j].at \in {"new", "fetched", "done"}
  BY NewJobTypes DEF Crash
<1>3. OneOnLoop' /\ loop' \subseteq Jobs
  BY <1>2 DEF Crash, OneOnLoop
<1>4. loaded' \in [Managers -> Config]
  BY LoadTypes DEF Crash
<1>5. harm' \subseteq Harms /\ faults' \in Nat
  BY DEF Crash, TypeOK, Harms
<1> QED BY <1>1, <1>3, <1>4, <1>5 DEF Crash, TypeOK

LEMMA TypesStep == TypeOK /\ [Next]_vars => TypeOK'
<1> SUFFICES ASSUME TypeOK, [Next]_vars PROVE TypeOK'
  OBVIOUS
<1>1. CASE Next
  BY <1>1, WriteTypes, SaveFailsTypes, EditTypes, SaveSnapshotTypes,
     DashboardTypes, CommandTypes, ResolverTypes, CrashTypes DEF Next
<1>2. CASE UNCHANGED vars
  BY <1>2 DEF vars, TypeOK, OneOnLoop
<1> QED BY <1>1, <1>2

\* The types of ConfigFile.tla, and that the event loop runs one job at a
\* time, the one that is between two of its awaits.
THEOREM TypeCorrect == Spec => []TypeOK
  BY TypesInit, TypesStep, PTL DEF Spec

-----------------------------------------------------------------------------
(* Saved changes stay *)

LEMMA PresentFacts ==
    ASSUME NEW c \in Config
    PROVE  /\ \A v \in Values : /\ SetValue(c, v).value = v
                                /\ Present(SetValue(c, v)) = Present(c)
           /\ \A p \in Profiles, t \in Nat \ {0} :
                 /\ SetProfile(c, p, t).value = c.value
                 /\ Present(SetProfile(c, p, t)) = Present(c) \cup {p}
           /\ \A p \in Profiles :
                 /\ DropProfile(c, p).value = c.value
                 /\ Present(DropProfile(c, p)) = Present(c) \ {p}
           /\ Present(Defaults) = {}
<1>1. ASSUME NEW v \in Values
      PROVE  SetValue(c, v).value = v /\ Present(SetValue(c, v)) = Present(c)
  BY DEF Config, SetValue, Present, Effective
<1>2. ASSUME NEW p \in Profiles, NEW t \in Nat \ {0}
      PROVE  /\ SetProfile(c, p, t).value = c.value
             /\ Present(SetProfile(c, p, t)) = Present(c) \cup {p}
  <2>1. /\ SetProfile(c, p, t).value = c.value
        /\ SetProfile(c, p, t).nested = c.nested
        /\ SetProfile(c, p, t).top = [c.top EXCEPT ![p] = t]
    BY DEF Config, SetProfile
  <2>2. \A q \in Profiles : Effective(SetProfile(c, p, t), q) # 0
                              <=> Effective(c, q) # 0 \/ q = p
    BY <2>1 DEF Config, Effective
  <2> QED BY <2>1, <2>2 DEF Present
<1>3. ASSUME NEW p \in Profiles
      PROVE  /\ DropProfile(c, p).value = c.value
             /\ Present(DropProfile(c, p)) = Present(c) \ {p}
  <2>1. /\ DropProfile(c, p).value = c.value
        /\ DropProfile(c, p).nested = [c.nested EXCEPT ![p] = 0]
        /\ DropProfile(c, p).top = [c.top EXCEPT ![p] = 0]
    BY DEF Config, DropProfile
  <2>2. \A q \in Profiles : Effective(DropProfile(c, p), q) # 0
                              <=> Effective(c, q) # 0 /\ q # p
    BY <2>1 DEF Config, Effective
  <2> QED BY <2>1, <2>2 DEF Present
<1>4. Present(Defaults) = {}
  BY DEF Present, Effective, Defaults
<1> QED BY <1>1, <1>2, <1>3, <1>4

\* Who is on the loop, by where the jobs are.
LEMMA OnLoop ==
    ASSUME TypeOK, NEW j \in Jobs \ Commands,
           job[j].at \in {"looking", "refreshed", "saving"}
    PROVE  loop = {j}
  BY DEF TypeOK, OneOnLoop

LEMMA JobSets ==
    /\ Resolvers \subseteq Jobs \ Commands
    /\ Edits \subseteq Jobs \ Commands
    /\ Commands \subseteq Jobs
    /\ Edits \cap Resolvers = {}
  BY JobsAreDistinct DEF Jobs, Resolvers

\* A calm save writes alone and has not awaited.
LEMMA TruncateAlone ==
    ASSUME TypeOK, NEW j \in Jobs, NEW c, NEW w, NEW h, Truncate(j, c, w, h), Calm'
    PROVE  /\ Open \ {j} = {}
           /\ j \in Commands => loop = {}
           /\ ~job[j].late
           /\ Calm
           /\ torn' = TRUE
           /\ Saving(j)' /\ job'[j].config = c /\ job'[j].wanted = w
           /\ job'[j].manager = job[j].manager
           /\ \A i \in Jobs \ {j} : job'[i] = job[i]
<1>1. job \in [Jobs -> Job] /\ job[j] \in Job
  BY DEF TypeOK
<1>2. job' = [job EXCEPT ![j] = [@ EXCEPT !.at = "saving", !.config = c, !.wanted = w]]
  BY DEF Truncate
<1>3. /\ job'[j] = [job[j] EXCEPT !.at = "saving", !.config = c, !.wanted = w]
      /\ \A i \in Jobs \ {j} : job'[i] = job[i]
  BY <1>1, <1>2
<1>4. /\ Saving(j)' /\ job'[j].config = c /\ job'[j].wanted = w
      /\ job'[j].manager = job[j].manager
  BY <1>1, <1>3 DEF Saving, Job
<1>5. harm \subseteq harm' /\ "overlap" \notin harm' /\ "late" \notin harm'
  BY DEF Truncate, Calm
<1>6. /\ Open \ {j} = {}
      /\ j \in Commands => loop = {}
      /\ ~job[j].late
  BY <1>5 DEF Truncate
<1>7. Calm
  BY <1>5 DEF Calm
<1> QED BY <1>3, <1>4, <1>6, <1>7 DEF Truncate

LEMMA TruncateStep ==
    ASSUME TypeOK, NEW j \in Jobs, NEW c, NEW w, NEW h, Truncate(j, c, w, h), Calm',
           loop \subseteq {j}, Matches(c, w), Matches(file, intended),
           UNCHANGED <<file, intended>>,
           j \in Resolvers => /\ loaded'[job[j].manager] = c
                              /\ w = intended
    PROVE  SavedInv'
<1>1. /\ Open \ {j} = {}
      /\ torn' = TRUE
      /\ Saving(j)' /\ job'[j].config = c /\ job'[j].wanted = w
      /\ job'[j].manager = job[j].manager
      /\ \A i \in Jobs \ {j} : job'[i] = job[i]
  BY TruncateAlone
<1>2. \A i \in (Jobs \ Commands) \ {j} :
          job'[i].at \notin {"looking", "refreshed", "saving"}
  BY <1>1 DEF TypeOK, OneOnLoop
<1>3. \A i \in Commands \ {j} : job'[i].at \notin {"read", "saving"}
  BY <1>1, JobSets DEF Open
<1>4. Matches(file, intended)'
  BY DEF Matches, Present, Effective
<1>5. TornWhileSaving'
  BY <1>1 DEF TornWhileSaving
<1>6. OneWriter'
  BY <1>1, <1>2, <1>3, JobSets DEF OneWriter, Saving, Open
<1>7. WritersAreUpToDate'
  <2>1. \A i \in Jobs : Saving(i)' => i = j
    BY <1>2, <1>3, JobSets DEF Saving
  <2>2. \A i \in Commands : job'[i].at # "read"
    BY <1>1, <1>3 DEF Saving
  <2>3. \A i \in Jobs : Saving(i)' => Matches(job'[i].config, job'[i].wanted)
    BY <1>1, <2>1
  <2>4. \A i \in Resolvers :
            Saving(i)' => /\ loaded'[job'[i].manager] = job'[i].config
                          /\ job'[i].wanted = intended'
    BY <1>1, <2>1, JobSets
  <2> QED BY <2>2, <2>3, <2>4 DEF WritersAreUpToDate, Matches, Present, Effective
<1>8. ResolversAreUpToDate'
  <2>1. \A i \in Resolvers : job'[i].at \notin {"looking", "refreshed"}
    BY <1>1, <1>2, JobSets DEF Saving
  <2> QED BY <2>1 DEF ResolversAreUpToDate, Looks
<1> QED BY <1>4, <1>5, <1>6, <1>7, <1>8 DEF SavedInv

\* A job that finds the loop free and no command at work finds the file whole.
LEMMA LoadIsUpToDate ==
    ASSUME TypeOK, SavedInv, Calm, loop = {}, Open = {}
    PROVE  ~torn /\ Load = file /\ Matches(Load, intended)
<1>1. \A j \in Jobs : ~Saving(j)
  BY JobSets DEF TypeOK, OneOnLoop, Open, Saving
<1> QED BY <1>1 DEF SavedInv, TornWhileSaving, Load

LEMMA SavedInit == Init => SavedInv
<1> SUFFICES ASSUME Init PROVE SavedInv
  OBVIOUS
<1>1. \A j \in Jobs : job[j].at = "new"
  BY NewJobTypes DEF Init
<1>2. file.value = NoValue
  BY DEF Init
<1>3. Matches(file, intended)
  BY <1>2 DEF Init, Matches
<1> QED BY <1>1, <1>3, JobSets DEF Init, SavedInv, TornWhileSaving, OneWriter,
      WritersAreUpToDate, ResolversAreUpToDate, Saving, Looks

\* A change of what was loaded is the same change of what is intended.
LEMMA ChangeStep ==
    ASSUME TypeOK, SavedInv, Calm', NEW j \in Edits \cup Commands, NEW c \in Config,
           \/ ChangeValue(j, c)
           \/ ChangeProfile(j, c)
           \/ DeleteProfile(j, c)
           \/ \E h : Replace(j, c, h),
           (Calm /\ loop = {} /\ Open \ {j} = {}) =>
               Matches(c, intended) \/ \E h : Replace(j, c, h),
           j \in Edits => loop = {},
           UNCHANGED <<file, intended>>
    PROVE  SavedInv'
<1>1. j \in Jobs /\ j \notin Resolvers
  BY JobsAreDistinct DEF Jobs, Resolvers
<1>2. intended \in Wanted /\ issued \in [Profiles -> Nat]
  BY DEF TypeOK
<1>3. ASSUME NEW d, NEW w, NEW h, Truncate(j, d, w, h)
      PROVE  Calm /\ loop = {} /\ Open \ {j} = {} /\ Matches(file, intended)
  <2>1. Calm /\ loop = {} /\ Open \ {j} = {}
    BY <1>1, <1>3, TruncateAlone
  <2> QED BY <2>1 DEF SavedInv
<1>4. CASE ChangeValue(j, c) /\ ~\E h : Replace(j, c, h)
  <2>1. PICK v \in Values :
          Truncate(j, SetValue(c, v), [intended EXCEPT !.value = v], {})
    BY <1>4 DEF ChangeValue
  <2>2. Matches(c, intended) /\ loop = {} /\ Matches(file, intended)
    BY <1>3, <1>4, <2>1
  <2>3. Matches(SetValue(c, v), [intended EXCEPT !.value = v])
    BY <1>2, <2>2, PresentFacts DEF Matches, Wanted
  <2> QED BY <1>1, <2>1, <2>2, <2>3, TruncateStep
<1>5. CASE ChangeProfile(j, c) /\ ~\E h : Replace(j, c, h)
  <2>1. PICK p \in Profiles :
          /\ NewLogin(p)
          /\ Truncate(j, SetProfile(c, p, issued'[p]),
                      [intended EXCEPT !.profiles = @ \cup {p}], {})
    BY <1>5 DEF ChangeProfile
  <2>2. Matches(c, intended) /\ loop = {} /\ Matches(file, intended)
    BY <1>3, <1>5, <2>1
  <2>3. issued'[p] \in Nat \ {0}
    BY <1>2, <2>1 DEF NewLogin
  <2>4. Matches(SetProfile(c, p, issued'[p]), [intended EXCEPT !.profiles = @ \cup {p}])
    BY <1>2, <2>2, <2>3, PresentFacts DEF Matches, Wanted
  <2> QED BY <1>1, <2>1, <2>2, <2>4, TruncateStep
<1>6. CASE DeleteProfile(j, c) /\ ~\E h : Replace(j, c, h)
  <2>1. PICK p \in Present(c) :
          Truncate(j, DropProfile(c, p), [intended EXCEPT !.profiles = @ \ {p}], {})
    BY <1>6 DEF DeleteProfile
  <2>2. Matches(c, intended) /\ loop = {} /\ Matches(file, intended)
    BY <1>3, <1>6, <2>1
  <2>3. p \in Profiles
    BY DEF Present
  <2>4. Matches(DropProfile(c, p), [intended EXCEPT !.profiles = @ \ {p}])
    BY <1>2, <2>2, <2>3, PresentFacts DEF Matches, Wanted
  <2> QED BY <1>1, <2>1, <2>2, <2>4, TruncateStep
<1>7. CASE \E h : Replace(j, c, h)
  <2>1. PICK h : Truncate(j, c, [value |-> c.value, profiles |-> Present(c)], h)
    BY <1>7 DEF Replace
  <2>2. Matches(c, [value |-> c.value, profiles |-> Present(c)])
    BY DEF Matches
  <2> QED BY <1>1, <1>3, <2>1, <2>2, TruncateStep
<1> QED BY <1>4, <1>5, <1>6, <1>7

LEMMA EditStep ==
    ASSUME TypeOK, SavedInv, Calm', NEW j \in Edits, Edit(j) \/ ActivateSnapshot(j)
    PROVE  SavedInv'
<1>1. loop = {} /\ UNCHANGED <<file, intended>> /\ j \notin Commands
  BY JobSets DEF Edit, ActivateSnapshot, Admin
<1>2. Open \ {j} = Open
  BY <1>1 DEF Open
<1>3. CASE Edit(j)
  <2>1. CASE \E v \in Values : Replace(j, SetValue(Defaults, v), {})
    <3>1. PICK v \in Values : Replace(j, SetValue(Defaults, v), {})
      BY <2>1
    <3>2. SetValue(Defaults, v) \in Config
      BY NewJobTypes, ConfigTypes
    <3> QED BY <1>1, <3>1, <3>2, ChangeStep
  <2>2. CASE ~\E v \in Values : Replace(j, SetValue(Defaults, v), {})
    <3>1. Load \in Config
      BY LoadTypes
    <3>2. Calm /\ loop = {} /\ Open \ {j} = {} => Matches(Load, intended)
      BY <1>2, LoadIsUpToDate
    <3> QED BY <1>1, <1>3, <2>2, <3>1, <3>2, ChangeStep DEF Edit
  <2> QED BY <2>1, <2>2
<1>4. CASE ActivateSnapshot(j)
  <2>1. PICK c \in snapshots : Replace(j, c, IF Stale(c) THEN {"token"} ELSE {})
    BY <1>4 DEF ActivateSnapshot
  <2>2. c \in Config
    BY DEF TypeOK
  <2> QED BY <1>1, <2>1, <2>2, ChangeStep
<1> QED BY <1>3, <1>4

\* Command c, its load and its save.
LEMMA CommandStep ==
    ASSUME TypeOK, SavedInv, Calm', NEW j \in Commands, CommandLoads(j) \/ CommandSaves(j)
    PROVE  SavedInv'
<1>1. j \in Jobs /\ job[j] \in Job /\ job \in [Jobs -> Job] /\ j \notin Edits \cup Resolvers
  BY JobSets DEF TypeOK
<1>2. CASE CommandLoads(j)
  <2> DEFINE k == [job[j] EXCEPT !.at = "read", !.config = Load]
  <2>1. job' = [job EXCEPT ![j] = k]
    BY <1>2 DEF CommandLoads
  <2>2. /\ job'[j].at = "read" /\ job'[j].config = Load
        /\ \A i \in Jobs \ {j} : job'[i] = job[i]
    BY <1>1, <2>1 DEF Job
  <2>3. Calm /\ loop = {} /\ Open = {}
    BY <1>2 DEF CommandLoads, Calm
  <2>4. ~torn /\ Load = file /\ Matches(Load, intended)
    BY <2>3, LoadIsUpToDate
  <2>5. UNCHANGED <<file, torn, loaded, intended>>
    BY <1>2 DEF CommandLoads
  <2>6. \A i \in Jobs : ~Saving(i)'
    BY <2>2, <2>3, JobSets DEF TypeOK, OneOnLoop, Open, Saving
  <2>7. \A i \in Resolvers : job'[i].at \notin {"looking", "refreshed"}
    BY <1>1, <2>2, <2>3, JobSets DEF TypeOK, OneOnLoop
  <2>8. \A i \in Commands : job'[i].at = "read" => i = j
    BY <2>2, <2>3, JobSets DEF Open
  <2>9. Matches(file, intended)' /\ Matches(job'[j].config, intended')
    BY <2>2, <2>4, <2>5 DEF Matches, Present, Effective
  <2>10. TornWhileSaving' /\ OneWriter'
    BY <2>4, <2>5, <2>6, JobSets DEF TornWhileSaving, OneWriter
  <2>11. WritersAreUpToDate'
    BY <2>6, <2>8, <2>9, JobSets DEF WritersAreUpToDate, Matches, Present, Effective
  <2>12. ResolversAreUpToDate'
    BY <2>7 DEF ResolversAreUpToDate, Looks
  <2> QED BY <2>9, <2>10, <2>11, <2>12 DEF SavedInv
<1>3. CASE CommandSaves(j)
  <2>1. job[j].config \in Config
    BY <1>1 DEF Job
  <2>2. Calm => Matches(job[j].config, intended)
    BY <1>3 DEF CommandSaves, SavedInv, WritersAreUpToDate
  <2> QED BY <1>1, <1>3, <2>1, <2>2, ChangeStep DEF CommandSaves
<1> QED BY <1>2, <1>3

\* Whoever saves is the only writer: no command is at work beside a job of
\* the server, and no job of the server but j is where it could save.
LEMMA WriterAlone ==
    ASSUME TypeOK, SavedInv, Calm, NEW j \in Jobs, Saving(j)
    PROVE  /\ Open \subseteq {j}
           /\ \A i \in Jobs \ {j} : ~Saving(i)
           /\ \A i \in Commands : job[i].at # "read"
           /\ j \notin Commands => loop = {j}
<1>1. CASE j \in Commands
  <2>1. Open = {j}
    BY <1>1 DEF SavedInv, OneWriter
  <2>2. \A i \in Jobs \ Commands : ~Saving(i)
    BY <2>1 DEF SavedInv, OneWriter
  <2>3. \A i \in Commands : job[i].at # "read"
    BY <1>1, <2>1 DEF Open, Saving
  <2> QED BY <1>1, <2>1, <2>2, <2>3 DEF Open, Saving
<1>2. CASE j \notin Commands
  <2>1. Open = {} /\ loop = {j}
    BY <1>2, OnLoop DEF SavedInv, OneWriter, Saving
  <2>2. \A i \in Jobs \ {j} : ~Saving(i)
    BY <2>1, OnLoop DEF Open, Saving
  <2> QED BY <1>2, <2>1, <2>2, JobSets DEF Open
<1> QED BY <1>1, <1>2

LEMMA LookingKeeps ==
    ASSUME NEW m \in Managers, NEW l \in BOOLEAN
    PROVE  Looking(m, l).manager = m /\ Looking(m, l).late = l
  BY DEF Looking, NewJob

\* The end of a save, whether it wrote the file or gave up without harm: the
\* file is whole and matches, and so does what a refresh leaves in _config.
LEMMA ReturnStep ==
    ASSUME TypeOK, SavedInv, Calm, NEW j \in Jobs, Saving(j), Return(j),
           torn' = FALSE, UNCHANGED loaded,
           Matches(file', intended'),
           j \in Resolvers => intended' = intended
    PROVE  SavedInv'
<1>1. job \in [Jobs -> Job] /\ job[j] \in Job
  BY DEF TypeOK
<1>2. /\ Open \subseteq {j}
      /\ \A i \in Jobs \ {j} : ~Saving(i)
      /\ \A i \in Commands : job[i].at # "read"
      /\ j \notin Commands => loop = {j}
  BY WriterAlone
<1>3. /\ \A i \in Jobs \ {j} : job'[i] = job[i]
      /\ job'[j] = IF j \in Resolvers THEN Looking(job[j].manager, job[j].late)
                   ELSE Done
  BY <1>1 DEF Return
<1>4. /\ job[j].manager \in Managers /\ job[j].late \in BOOLEAN
      /\ job'[j].at \in {"looking", "done"}
  BY <1>1, <1>3, NewJobTypes DEF Job
<1>5. \A i \in Jobs : job'[i].at # "saving"
  BY <1>2, <1>3, <1>4 DEF Saving
<1>6. \A i \in Commands : job'[i].at # "read"
  BY <1>2, <1>3, <1>4, JobSets
<1>7. TornWhileSaving' /\ OneWriter'
  BY <1>5, JobSets DEF TornWhileSaving, OneWriter, Saving
<1>8. WritersAreUpToDate'
  BY <1>5, <1>6, JobSets DEF WritersAreUpToDate, Saving
<1>9. ResolversAreUpToDate'
  <2>1. \A i \in Commands : ~Saving(i)'
    BY <1>5, JobSets DEF Saving
  <2>2. ASSUME NEW i \in Resolvers, i # j, job[i].at \in {"looking", "refreshed"},
               ~job[i].late
        PROVE  job[i].at = "looking" /\ Present(loaded[job[i].manager]) = {}
    <3>1. j \in Commands
      BY <1>2, <2>2, JobSets, OnLoop
    <3> QED BY <2>2, <3>1 DEF SavedInv, ResolversAreUpToDate, Looks
  <2>3. ASSUME NEW i \in Resolvers, i # j, job'[i].at \in {"looking", "refreshed"},
               ~job'[i].late
        PROVE  job'[i].at = "looking" /\ Present(loaded'[job'[i].manager]) = {}
    <3>1. job'[i] = job[i]
      BY <1>3, <2>3, JobSets
    <3> QED BY <2>2, <2>3, <3>1
  <2>4. j \in Resolvers => Matches(loaded'[job'[j].manager], intended')
    <3> SUFFICES ASSUME j \in Resolvers
                 PROVE  Matches(loaded'[job'[j].manager], intended')
      OBVIOUS
    <3>1. /\ loaded[job[j].manager] = job[j].config
          /\ job[j].wanted = intended
          /\ Matches(job[j].config, job[j].wanted)
      BY DEF SavedInv, WritersAreUpToDate
    <3>2. job'[j].manager = job[j].manager
      BY <1>3, <1>4, LookingKeeps
    <3> QED BY <3>1, <3>2
  <2>5. j \in Resolvers => job'[j].at # "refreshed"
    BY <1>4
  <2> QED BY <2>1, <2>3, <2>4, <2>5 DEF ResolversAreUpToDate, Looks, Matches, Present, Effective
<1> QED BY <1>7, <1>8, <1>9 DEF SavedInv

LEMMA WriteStep ==
    ASSUME TypeOK, SavedInv, Calm', NEW j \in Jobs, Write(j)
    PROVE  SavedInv'
<1>1. Calm /\ Saving(j) /\ Return(j) /\ UNCHANGED loaded
  BY DEF Write, Calm, Saving
<1>2. torn' = FALSE
  BY <1>1 DEF Write, Calm
<1>3. Matches(job[j].config, job[j].wanted)
  BY <1>1 DEF SavedInv, WritersAreUpToDate
<1>4. file' = job[j].config /\ intended' = job[j].wanted
  BY DEF Write
<1>5. j \in Resolvers => intended' = intended
  BY <1>1, <1>4 DEF SavedInv, WritersAreUpToDate
<1>6. Matches(file', intended')
  BY <1>3, <1>4
<1> QED BY <1>1, <1>2, <1>5, <1>6, ReturnStep

\* A failed save is calm only when the file is left whole.
LEMMA SaveFailsStep ==
    ASSUME TypeOK, SavedInv, Calm', NEW j \in Jobs, SaveFails(j)
    PROVE  SavedInv'
<1>1. Calm /\ Saving(j) /\ Return(j) /\ UNCHANGED loaded
  BY DEF SaveFails, Calm, Saving
<1>2. torn' = FALSE
  BY DEF SaveFails, Calm
<1>3. Matches(file, intended)
  BY <1>1 DEF SavedInv
<1>4. file' = file /\ intended' = intended
  BY DEF SaveFails
<1>5. Matches(file', intended')
  BY <1>3, <1>4
<1> QED BY <1>1, <1>2, <1>4, <1>5, ReturnStep

\* A step of a job that neither saves nor uses what it has loaded.
LEMMA AsideStep ==
    ASSUME TypeOK, SavedInv, Calm, NEW j \in Jobs \ Commands,
           \A i \in Jobs \ {j} : job'[i] = job[i],
           ~Saving(j), job'[j].at # "saving",
           job'[j].at \in {"looking", "refreshed"} => job'[j].late,
           UNCHANGED <<file, torn, loaded, intended>>
    PROVE  SavedInv'
<1>1. Matches(file, intended)'
  BY DEF SavedInv, Matches, Present, Effective
<1>2. \A i \in Jobs : Saving(i)' <=> Saving(i)
  BY DEF Saving
<1>3. Open' = Open
  BY JobSets DEF Open
<1>4. TornWhileSaving' /\ OneWriter'
  BY <1>2, <1>3, JobSets DEF SavedInv, TornWhileSaving, OneWriter
<1>5. \A i \in Jobs : Saving(i)' => job'[i] = job[i]
  BY <1>2
<1>6. \A i \in Commands : job'[i] = job[i]
  BY JobSets
<1>7. WritersAreUpToDate'
  BY <1>2, <1>5, <1>6, JobSets DEF SavedInv, WritersAreUpToDate, Matches, Present, Effective
<1>8. \A i \in Resolvers :
          job'[i].at \in {"looking", "refreshed"} /\ ~job'[i].late => job'[i] = job[i]
  BY JobSets
<1>9. (\A i \in Commands : ~Saving(i)) => (\A i \in Commands : ~Saving(i)')
  BY <1>2, JobSets
<1>10. ResolversAreUpToDate'
  BY <1>8, <1>9 DEF SavedInv, ResolversAreUpToDate, Looks, Matches, Present, Effective
<1> QED BY <1>1, <1>4, <1>7, <1>10 DEF SavedInv

LEMMA SnapshotStep ==
    ASSUME TypeOK, SavedInv, Calm', NEW j \in Edits, SaveSnapshot(j)
    PROVE  SavedInv'
<1>1. j \in Jobs \ Commands /\ job \in [Jobs -> Job] /\ Done.at = "done"
  BY JobSets, NewJobTypes DEF TypeOK
<1>2. job[j].at = "new" /\ job' = [job EXCEPT ![j] = Done]
  BY DEF SaveSnapshot, Admin, Starts
<1>3. \A i \in Jobs \ {j} : job'[i] = job[i]
  BY <1>1, <1>2
<1>4. job'[j].at = "done"
  BY <1>1, <1>2
<1> QED BY <1>1, <1>2, <1>3, <1>4, AsideStep DEF SaveSnapshot, Saving, Calm

LEMMA DashboardStep ==
    ASSUME TypeOK, SavedInv, Calm', NEW j \in Edits, Fetch(j) \/ Post(j)
    PROVE  SavedInv'
<1>1. j \in Jobs \ Commands /\ job \in [Jobs -> Job] /\ job[j] \in Job
  BY JobSets DEF TypeOK
<1>2. CASE Fetch(j)
  <2>1. job[j].at = "new" /\ Calm /\ UNCHANGED <<file, torn, loaded, intended>>
    BY <1>2 DEF Fetch, Admin, Starts, Calm
  <2>2. /\ \A i \in Jobs \ {j} : job'[i] = job[i]
        /\ job'[j] = [job[j] EXCEPT !.at = "fetched", !.config = Redacted(Load)]
    BY <1>1, <1>2 DEF Fetch
  <2>3. job'[j].at = "fetched"
    BY <1>1, <2>2 DEF Job
  <2> QED BY <1>1, <2>1, <2>2, <2>3, AsideStep DEF Saving
<1>3. CASE Post(j)
  <2>1. PICK v \in Values :
          Replace(j, SetValue(job[j].config, v),
                  IF Present(job[j].config) # {} THEN {"masked"} ELSE {})
    BY <1>3 DEF Post
  <2>2. SetValue(job[j].config, v) \in Config
    BY <1>1, ConfigTypes DEF Job
  <2>3. loop = {} /\ UNCHANGED <<file, intended>>
    BY <1>3 DEF Post
  <2> QED BY <2>1, <2>2, <2>3, ChangeStep
<1> QED BY <1>2, <1>3

\* A fresh load is whole and matches, or finds a command in its save and is
\* the default configuration.
LEMMA BeginStep ==
    ASSUME TypeOK, SavedInv, Calm', NEW j \in Resolvers, NEW m \in Managers, Begin(j, m)
    PROVE  SavedInv'
<1>1. j \in Jobs \ Commands /\ job \in [Jobs -> Job] /\ loaded \in [Managers -> Config]
  BY JobSets DEF TypeOK
<1>2. Calm /\ loop = {} /\ job[j].at = "new"
  BY DEF Begin, Calm, Starts
<1>3. /\ job'[j].at = "looking" /\ job'[j].manager = m
      /\ \A i \in Jobs \ {j} : job'[i] = job[i]
  BY <1>1, NewJobTypes, LookingKeeps DEF Begin
<1>4. loaded'[m] = Load /\ UNCHANGED <<file, torn, intended>>
  BY <1>1 DEF Begin, Reload
<1>5. Matches(file, intended)'
  BY <1>2, <1>4 DEF SavedInv, Matches, Present, Effective
<1>6. \A i \in Jobs : Saving(i)' <=> Saving(i)
  BY <1>2, <1>3 DEF Saving
<1>7. Open' = Open
  BY <1>1, <1>3, JobSets DEF Open
<1>8. TornWhileSaving' /\ OneWriter'
  BY <1>2, <1>4, <1>6, <1>7, JobSets DEF SavedInv, TornWhileSaving, OneWriter
<1>9. \A i \in Jobs \ Commands : job[i].at \notin {"looking", "refreshed", "saving"}
  BY <1>2 DEF TypeOK, OneOnLoop
<1>10. \A i \in Commands : job'[i] = job[i]
  BY <1>1, <1>3, JobSets
<1>11. WritersAreUpToDate'
  <2>1. \A i \in Jobs : Saving(i)' => job'[i] = job[i] /\ i \in Commands
    BY <1>6, <1>9, <1>10 DEF Saving
  <2> QED BY <1>2, <1>4, <1>6, <1>10, <2>1, JobSets
          DEF SavedInv, WritersAreUpToDate, Matches, Present, Effective
<1>12. Present(Load) = {} \/ (Matches(Load, intended) /\ \A i \in Commands : ~Saving(i))
  <2>1. CASE torn
    BY <2>1 DEF Load, Present, Effective, Defaults
  <2>2. CASE ~torn
    BY <1>2, <2>2, JobSets DEF Load, SavedInv, TornWhileSaving
  <2> QED BY <2>1, <2>2
<1>13. ResolversAreUpToDate'
  <2>1. \A i \in Resolvers : job'[i].at \in {"looking", "refreshed"} => i = j
    BY <1>3, <1>9, JobSets
  <2>2. (\A i \in Commands : ~Saving(i)) => (\A i \in Commands : ~Saving(i)')
    BY <1>6, JobSets
  <2> QED BY <1>3, <1>4, <1>12, <2>1, <2>2
          DEF ResolversAreUpToDate, Looks, Matches, Present, Effective
<1> QED BY <1>5, <1>8, <1>11, <1>13 DEF SavedInv

\* Only a profile that is there is refreshed, so the load it came from matches.
LEMMA RefreshStep ==
    ASSUME TypeOK, SavedInv, Calm', NEW j \in Resolvers, NEW p \in Profiles, Refresh(j, p)
    PROVE  SavedInv'
<1>1. /\ j \in Jobs \ Commands /\ job \in [Jobs -> Job] /\ job[j] \in Job
      /\ issued[p] + 1 \in Nat \ {0}
  BY JobSets DEF TypeOK
<1>2. Calm /\ loop = {j} /\ job[j].at = "looking"
  BY <1>1, OnLoop DEF Refresh, Calm, Looks
<1>3. UNCHANGED <<file, torn, loaded, intended>>
  BY DEF Refresh
<1>4. CASE UNCHANGED job
  BY <1>2, <1>3, <1>4 DEF SavedInv, TornWhileSaving, OneWriter, WritersAreUpToDate,
     ResolversAreUpToDate, Matches, Present, Effective, Saving, Open, Looks
<1>5. CASE job' = [job EXCEPT ![j] = [@ EXCEPT !.at = "refreshed", !.profile = p,
                                               !.token = issued[p] + 1]]
  <2>1. /\ job'[j].at = "refreshed" /\ job'[j].profile = p
        /\ job'[j].token = issued[p] + 1
        /\ job'[j].manager = job[j].manager /\ job'[j].late = job[j].late
        /\ \A i \in Jobs \ {j} : job'[i] = job[i]
    BY <1>1, <1>5 DEF Job
  <2>2. Matches(file, intended)'
    BY <1>2, <1>3 DEF SavedInv, Matches, Present, Effective
  <2>3. \A i \in Jobs : Saving(i)' <=> Saving(i)
    BY <1>2, <2>1 DEF Saving
  <2>4. Open' = Open
    BY <1>1, <2>1, JobSets DEF Open
  <2>5. TornWhileSaving' /\ OneWriter'
    BY <1>2, <1>3, <2>3, <2>4, JobSets DEF SavedInv, TornWhileSaving, OneWriter
  <2>6. \A i \in Commands : job'[i] = job[i]
    BY <1>1, <2>1, JobSets
  <2>7. \A i \in Jobs : Saving(i)' => job'[i] = job[i]
    BY <1>2, <2>1, <2>3 DEF Saving
  <2>8. WritersAreUpToDate'
    BY <1>2, <1>3, <2>3, <2>6, <2>7, JobSets
       DEF SavedInv, WritersAreUpToDate, Matches, Present, Effective
  <2>9. ASSUME ~job[j].late
        PROVE  /\ Matches(loaded[job[j].manager], intended)
               /\ p \in Present(loaded[job[j].manager])
               /\ \A i \in Commands : ~Saving(i)
    <3>1. Effective(loaded[job[j].manager], p) # 0
      BY DEF Refresh, Has
    <3>2. p \in Present(loaded[job[j].manager])
      BY <3>1 DEF Present
    <3> QED BY <1>2, <2>9, <3>2 DEF SavedInv, ResolversAreUpToDate, Looks
  <2>10. \A i \in Resolvers : job'[i].at \in {"looking", "refreshed"} => i = j
    BY <1>1, <1>2, <2>1, JobSets, OnLoop
  <2>11. (\A i \in Commands : ~Saving(i)) => (\A i \in Commands : ~Saving(i)')
    BY <2>3, JobSets
  <2>12. ResolversAreUpToDate'
    BY <1>1, <1>3, <2>1, <2>9, <2>10, <2>11
       DEF ResolversAreUpToDate, Looks, Matches, Present, Effective
  <2> QED BY <2>2, <2>5, <2>8, <2>12 DEF SavedInv
<1> QED BY <1>4, <1>5 DEF Refresh

\* The whole _config goes to the file, with a profile that was there anyway.
LEMMA SaveRefreshedStep ==
    ASSUME TypeOK, SavedInv, Calm', NEW j \in Resolvers, SaveRefreshed(j)
    PROVE  SavedInv'
<1> DEFINE k == job[j]
           c == SetProfile(loaded[k.manager], k.profile, k.token)
<1>1. j \in Jobs \ Commands /\ k \in Job /\ loaded \in [Managers -> Config]
  BY JobSets DEF TypeOK
<1>2. /\ k.manager \in Managers /\ k.profile \in Profiles /\ k.token \in Nat
      /\ loaded[k.manager] \in Config
  BY <1>1 DEF Job
<1>3. /\ Truncate(j, c, intended, {}) /\ k.at = "refreshed"
      /\ loaded'[k.manager] = c /\ UNCHANGED <<file, intended>>
  BY <1>1, <1>2 DEF SaveRefreshed, Updated
<1>4. Calm /\ ~k.late
  BY <1>1, <1>3, TruncateAlone
<1>5. loop = {j}
  BY <1>1, <1>3, OnLoop
<1>6. /\ Matches(loaded[k.manager], intended) /\ k.profile \in Present(loaded[k.manager])
      /\ k.token # 0
  BY <1>3, <1>4 DEF SavedInv, ResolversAreUpToDate
<1>7. Matches(c, intended)
  <2>1. k.token \in Nat \ {0}
    BY <1>2, <1>6
  <2>2. /\ c.value = loaded[k.manager].value
        /\ Present(c) = Present(loaded[k.manager]) \cup {k.profile}
    BY <1>2, <2>1, PresentFacts
  <2> HIDE DEF c, k
  <2> QED BY <1>6, <2>2 DEF Matches
<1>8. Matches(file, intended)
  BY <1>4 DEF SavedInv
<1> HIDE DEF c
<1> QED BY <1>1, <1>3, <1>5, <1>7, <1>8, TruncateStep

\* An await ends a request or sets a walk aside; the walk comes back late.
LEMMA AwaitStep ==
    ASSUME TypeOK, SavedInv, Calm', NEW j \in Resolvers, Await(j) \/ Resume(j)
    PROVE  SavedInv'
<1>1. /\ j \in Jobs \ Commands /\ job \in [Jobs -> Job] /\ job[j] \in Job
      /\ job[j].manager \in Managers
  BY JobSets DEF TypeOK, Job
<1>2. Calm /\ ~Saving(j) /\ UNCHANGED <<file, torn, loaded, intended>>
  BY DEF Await, Resume, Calm, Saving, Looks
<1>3. \A i \in Jobs \ {j} : job'[i] = job[i]
  BY <1>1 DEF Await, Resume
<1>4. /\ job'[j].at # "saving"
      /\ job'[j].at \in {"looking", "refreshed"} => job'[j].late
  <2>1. CASE Await(j)
    BY <1>1, <2>1, NewJobTypes DEF Await, Job
  <2>2. CASE Resume(j)
    BY <1>1, <2>2, NewJobTypes, LookingKeeps DEF Resume
  <2> QED BY <2>1, <2>2
<1> QED BY <1>1, <1>2, <1>3, <1>4, AsideStep

\* A death between saves leaves only commands at work.
LEMMA CrashStep ==
    ASSUME TypeOK, SavedInv, Calm', Crash
    PROVE  SavedInv'
<1>1. Calm /\ \A j \in loop : ~Saving(j)
  BY DEF Crash, Calm, Saving
<1>2. UNCHANGED <<file, torn, intended>>
  BY DEF Crash
<1>3. \A j \in Jobs \ Commands : ~Saving(j)
  BY <1>1 DEF TypeOK, OneOnLoop, Saving
<1>4. /\ \A j \in Commands : job'[j] = job[j]
      /\ \A j \in Jobs \ Commands : job'[j].at \in {"new", "fetched", "done"}
  BY JobSets, NewJobTypes DEF Crash
<1>5. \A j \in Jobs : Saving(j)' <=> Saving(j)
  BY <1>3, <1>4 DEF Saving
<1>6. Open' = Open
  BY <1>4 DEF Open
<1>7. Matches(file, intended)'
  BY <1>1, <1>2 DEF SavedInv, Matches, Present, Effective
<1>8. TornWhileSaving' /\ OneWriter'
  BY <1>1, <1>2, <1>5, <1>6, JobSets DEF SavedInv, TornWhileSaving, OneWriter
<1>9. WritersAreUpToDate'
  <2>1. \A j \in Jobs : Saving(j)' => j \in Commands
    BY <1>3, <1>5
  <2> QED BY <1>1, <1>2, <1>4, <1>5, <2>1, JobSets
          DEF SavedInv, WritersAreUpToDate, Matches, Present, Effective
<1>10. ResolversAreUpToDate'
  BY <1>4, JobSets DEF ResolversAreUpToDate, Looks
<1> QED BY <1>7, <1>8, <1>9, <1>10 DEF SavedInv

LEMMA SavedStep == TypeOK /\ SavedInv /\ [Next]_vars => SavedInv'
<1> SUFFICES ASSUME TypeOK, SavedInv, [Next]_vars, Calm' PROVE SavedInv'
  BY DEF SavedInv
<1>1. CASE Next
  BY <1>1, WriteStep, SaveFailsStep, EditStep, SnapshotStep, DashboardStep, CommandStep,
     BeginStep, RefreshStep, SaveRefreshedStep, AwaitStep, CrashStep DEF Next
<1>2. CASE UNCHANGED vars
  BY <1>2 DEF vars, SavedInv, Calm, TornWhileSaving, OneWriter, WritersAreUpToDate,
     ResolversAreUpToDate, Matches, Present, Effective, Saving, Open, Looks
<1> QED BY <1>1, <1>2

LEMMA SavedImplies == TypeOK /\ SavedInv => SavedChangesStay
<1> SUFFICES ASSUME TypeOK, SavedInv, Quiet, Calm PROVE FileSaysWhatWasSaved
  BY DEF SavedChangesStay, Calm
<1>1. loop = {} /\ Open = {}
  BY DEF Quiet
<1> QED BY <1>1, LoadIsUpToDate DEF FileSaysWhatWasSaved, SavedInv

\* Between jobs the file holds what the acknowledged edits, logins and
\* commands add up to, whichever refreshes and restarts came between, unless a
\* save was cut short, a walk saved after an await or a command overlapped
\* with another writer.
THEOREM ChangesStay == Spec => []SavedChangesStay
<1>1. Spec => []SavedInv
  BY TypeCorrect, SavedInit, SavedStep, PTL DEF Spec
<1> QED BY <1>1, TypeCorrect, SavedImplies, PTL

-----------------------------------------------------------------------------
(* Refresh tokens *)

\* Every credential of configuration c was handed out, n being the last of
\* each profile; none that counts has been presented, s being the spent ones.
IssuedBy(c, n) == \A p \in Profiles : c.top[p] <= n[p] /\ c.nested[p] <= n[p]
Fresh(c, s) == \A p \in Profiles : c.nested[p] = 0 => c.top[p] \notin s[p]

\* Nobody holds or has presented a credential that was not handed out.
IssuedInv ==
    /\ \A p \in Profiles : issued[p] >= 2 /\ \A t \in spent[p] : t <= issued[p]
    /\ IssuedBy(file, issued)
    /\ \A c \in snapshots : IssuedBy(c, issued)
    /\ \A m \in Managers : IssuedBy(loaded[m], issued)
    /\ \A j \in Jobs : /\ IssuedBy(job[j].config, issued)
                       /\ job[j].token <= issued[job[j].profile]

LEMMA IssuedChanges ==
    ASSUME NEW c \in Config, NEW n \in [Profiles -> Nat], IssuedBy(c, n),
           \A p \in Profiles : n[p] >= 2
    PROVE  /\ \A v \in Values : IssuedBy(SetValue(c, v), n)
           /\ \A p \in Profiles, t \in Nat :
                 t <= n[p] => IssuedBy(SetProfile(c, p, t), n)
           /\ \A p \in Profiles : IssuedBy(DropProfile(c, p), n)
           /\ \A p \in Profiles : Effective(c, p) <= n[p]
           /\ IssuedBy(Redacted(c), n)
<1>1. \A v \in Values : IssuedBy(SetValue(c, v), n)
  BY DEF Config, IssuedBy, SetValue
<1>2. ASSUME NEW p \in Profiles, NEW t \in Nat, t <= n[p]
      PROVE  IssuedBy(SetProfile(c, p, t), n)
  <2>1. /\ SetProfile(c, p, t).nested = c.nested
        /\ SetProfile(c, p, t).top = [c.top EXCEPT ![p] = t]
    BY DEF Config, SetProfile
  <2> QED BY <1>2, <2>1 DEF Config, IssuedBy
<1>3. ASSUME NEW p \in Profiles
      PROVE  IssuedBy(DropProfile(c, p), n)
  <2>1. /\ DropProfile(c, p).nested = [c.nested EXCEPT ![p] = 0]
        /\ DropProfile(c, p).top = [c.top EXCEPT ![p] = 0]
    BY DEF Config, DropProfile
  <2> QED BY <2>1 DEF Config, IssuedBy
<1>4. \A p \in Profiles : Effective(c, p) <= n[p]
  BY DEF IssuedBy, Effective
<1>5. IssuedBy(Redacted(c), n)
  <2>1. \A p \in Profiles : /\ Redacted(c).top[p] \in {0, 1}
                            /\ Redacted(c).nested[p] \in {0, 1}
    BY DEF Config, Redacted, Mask
  <2>2. ASSUME NEW p \in Profiles
        PROVE  Redacted(c).top[p] <= n[p] /\ Redacted(c).nested[p] <= n[p]
    <3>1. n[p] \in Nat /\ n[p] >= 2
      OBVIOUS
    <3>2. Redacted(c).top[p] \in {0, 1} /\ Redacted(c).nested[p] \in {0, 1}
      BY <2>1
    <3> QED BY <3>1, <3>2
  <2> QED BY <2>2 DEF IssuedBy
<1> QED BY <1>1, <1>2, <1>3, <1>4, <1>5

LEMMA DefaultsIssued ==
    ASSUME NEW n \in [Profiles -> Nat]
    PROVE  IssuedBy(Defaults, n)
BY DEF IssuedBy, Defaults

LEMMA FreshChanges ==
    ASSUME NEW c \in Config, NEW s \in [Profiles -> SUBSET (Nat \ {0})], Fresh(c, s)
    PROVE  /\ \A v \in Values : Fresh(SetValue(c, v), s)
           /\ \A p \in Profiles, t \in Nat : t \notin s[p] => Fresh(SetProfile(c, p, t), s)
           /\ \A p \in Profiles : Fresh(DropProfile(c, p), s)
<1>1. \A v \in Values : Fresh(SetValue(c, v), s)
  BY DEF Config, Fresh, SetValue
<1>2. ASSUME NEW p \in Profiles, NEW t \in Nat, t \notin s[p]
      PROVE  Fresh(SetProfile(c, p, t), s)
  <2>1. /\ SetProfile(c, p, t).nested = c.nested
        /\ SetProfile(c, p, t).top = [c.top EXCEPT ![p] = t]
    BY DEF Config, SetProfile
  <2> QED BY <1>2, <2>1 DEF Config, Fresh
<1>3. ASSUME NEW p \in Profiles
      PROVE  Fresh(DropProfile(c, p), s)
  <2>1. /\ DropProfile(c, p).nested = [c.nested EXCEPT ![p] = 0]
        /\ DropProfile(c, p).top = [c.top EXCEPT ![p] = 0]
    BY DEF Config, DropProfile
  <2>2. 0 \notin s[p]
    OBVIOUS
  <2> QED BY <2>1, <2>2 DEF Config, Fresh
<1> QED BY <1>1, <1>2, <1>3

\* A configuration none of whose credentials counts as spent is fresh, and
\* so is one without credentials.
LEMMA FreshWhenNotSpent ==
    ASSUME NEW c \in Config, NEW s \in [Profiles -> SUBSET (Nat \ {0})],
           \A p \in Profiles : Effective(c, p) \notin s[p]
    PROVE  Fresh(c, s)
BY DEF Fresh, Effective

LEMMA DefaultsFresh ==
    ASSUME NEW s \in [Profiles -> SUBSET (Nat \ {0})]
    PROVE  Fresh(Defaults, s)
BY DEF Fresh, Defaults

-----------------------------------------------------------------------------

LEMMA IssuedInit == Init => IssuedInv
<1> SUFFICES ASSUME Init PROVE IssuedInv
  OBVIOUS
<1>1. \A p \in Profiles : issued[p] = 2 /\ spent[p] = {}
  BY DEF Init
<1>2. IssuedBy(file, issued)
  <2>1. /\ file.top \in [Profiles -> {0, 2}]
        /\ file.nested \in [Profiles -> {0, 2}]
    BY DEF Init
  <2>2. \A p \in Profiles : file.top[p] \in {0, 2} /\ file.nested[p] \in {0, 2}
    BY <2>1
  <2>3. ASSUME NEW p \in Profiles
        PROVE  file.top[p] <= issued[p] /\ file.nested[p] <= issued[p]
    <3>1. issued[p] = 2
      BY <1>1
    <3>2. file.top[p] \in {0, 2} /\ file.nested[p] \in {0, 2}
      BY <2>2
    <3> QED BY <3>1, <3>2
  <2> QED BY <2>3 DEF IssuedBy
<1>3. \A m \in Managers : loaded[m] = file
  BY DEF Init
<1>4. \A j \in Jobs : job[j] = NewJob
  BY DEF Init
<1>5. NewJob.config = Defaults /\ NewJob.token = 0 /\ NewJob.profile \in Profiles
  BY NewJobTypes DEF NewJob, Job
<1>6. IssuedBy(Defaults, issued)
  BY DefaultsIssued DEF Init
<1>7. \A j \in Jobs : /\ IssuedBy(job[j].config, issued)
                      /\ job[j].token <= issued[job[j].profile]
  BY <1>1, <1>4, <1>5, <1>6
<1>8. snapshots = {}
  BY DEF Init
<1> QED BY <1>1, <1>2, <1>3, <1>7, <1>8 DEF IssuedInv

\* What a step must establish: whatever is new was handed out by its end.
LEMMA IssuedFrom ==
    ASSUME TypeOK, TypeOK', IssuedInv,
           \A p \in Profiles : issued[p] <= issued'[p],
           \A p \in Profiles : \A t \in spent'[p] : t \in spent[p] \/ t <= issued'[p],
           file' = file \/ IssuedBy(file', issued'),
           \A c \in snapshots' : c \in snapshots \/ IssuedBy(c, issued'),
           \A m \in Managers : loaded'[m] = loaded[m] \/ IssuedBy(loaded'[m], issued'),
           \A j \in Jobs : \/ job'[j].config = job[j].config
                           \/ IssuedBy(job'[j].config, issued'),
           \A j \in Jobs : \/ /\ job'[j].token = job[j].token
                              /\ job'[j].profile = job[j].profile
                           \/ job'[j].token <= issued'[job'[j].profile]
    PROVE  IssuedInv'
<1>1. /\ issued \in [Profiles -> Nat] /\ issued' \in [Profiles -> Nat]
      /\ spent \in [Profiles -> SUBSET (Nat \ {0})]
      /\ spent' \in [Profiles -> SUBSET (Nat \ {0})]
  BY DEF TypeOK
<1>2. ASSUME NEW c \in Config, IssuedBy(c, issued) PROVE IssuedBy(c, issued')
  <2>1. \A p \in Profiles : c.top[p] \in Nat /\ c.nested[p] \in Nat
    BY DEF Config
  <2> QED BY <1>1, <1>2, <2>1 DEF IssuedBy
<1>3. \A p \in Profiles : issued'[p] >= 2 /\ \A t \in spent'[p] : t <= issued'[p]
  <2> TAKE p \in Profiles
  <2>1. issued[p] \in Nat /\ issued'[p] \in Nat /\ issued[p] <= issued'[p]
    BY <1>1
  <2>2. issued[p] >= 2 /\ \A t \in spent[p] : t <= issued[p]
    BY DEF IssuedInv
  <2>3. \A t \in spent'[p] : t \in Nat
    BY <1>1
  <2> QED BY <2>1, <2>2, <2>3
<1>4. IssuedBy(file', issued')
  BY <1>2 DEF IssuedInv, TypeOK
<1>5. \A c \in snapshots' : IssuedBy(c, issued')
  BY <1>2 DEF IssuedInv, TypeOK
<1>6. \A m \in Managers : IssuedBy(loaded'[m], issued')
  BY <1>2 DEF IssuedInv, TypeOK
<1>7. ASSUME NEW j \in Jobs
      PROVE  /\ IssuedBy(job'[j].config, issued')
             /\ job'[j].token <= issued'[job'[j].profile]
  <2>1. job[j] \in Job /\ job'[j] \in Job
    BY DEF TypeOK
  <2>2. /\ job[j].config \in Config /\ job[j].profile \in Profiles
        /\ job[j].token \in Nat
    BY <2>1 DEF Job
  <2>3. IssuedBy(job[j].config, issued) /\ job[j].token <= issued[job[j].profile]
    BY DEF IssuedInv
  <2>4. job[j].token <= issued'[job[j].profile]
    <3>1. /\ issued[job[j].profile] \in Nat /\ issued'[job[j].profile] \in Nat
          /\ issued[job[j].profile] <= issued'[job[j].profile]
      BY <1>1, <2>2
    <3> QED BY <2>2, <2>3, <3>1
  <2> QED BY <1>2, <2>2, <2>3, <2>4
<1> QED BY <1>3, <1>4, <1>5, <1>6, <1>7 DEF IssuedInv, IssuedBy

LEMMA TruncateKeeps ==
    ASSUME TypeOK, NEW j \in Jobs, NEW c, NEW w, NEW h, Truncate(j, c, w, h)
    PROVE  /\ job'[j].at = "saving" /\ job'[j].config = c
           /\ job'[j].token = job[j].token /\ job'[j].profile = job[j].profile
           /\ job'[j].manager = job[j].manager /\ job'[j].late = job[j].late
           /\ \A i \in Jobs \ {j} : job'[i] = job[i]
<1>1. job \in [Jobs -> Job] /\ job[j] \in Job
  BY DEF TypeOK
<1>2. job' = [job EXCEPT ![j] = [@ EXCEPT !.at = "saving", !.config = c, !.wanted = w]]
  BY DEF Truncate
<1>3. /\ job'[j] = [job[j] EXCEPT !.at = "saving", !.config = c, !.wanted = w]
      /\ \A i \in Jobs \ {j} : job'[i] = job[i]
  BY <1>1, <1>2
<1> QED BY <1>1, <1>3 DEF Job

\* A change of a configuration hands out what it adds, and adds nothing spent.
LEMMA ChangeHolds ==
    ASSUME TypeOK, IssuedInv, NEW j \in Jobs, NEW c \in Config, IssuedBy(c, issued),
           \/ ChangeValue(j, c)
           \/ ChangeProfile(j, c)
           \/ DeleteProfile(j, c)
           \/ \E h : Replace(j, c, h)
    PROVE  /\ \A p \in Profiles : issued[p] <= issued'[p]
           /\ \E d \in Config : \E w, h :
                 /\ Truncate(j, d, w, h)
                 /\ IssuedBy(d, issued')
                 /\ Fresh(c, spent) => Fresh(d, spent)
<1>1. /\ issued \in [Profiles -> Nat] /\ spent \in [Profiles -> SUBSET (Nat \ {0})]
      /\ \A p \in Profiles : issued[p] >= 2
  BY DEF TypeOK, IssuedInv
<1>2. ASSUME NoLogin
      PROVE  /\ issued' = issued
             /\ \A p \in Profiles : issued[p] <= issued'[p]
  BY <1>1, <1>2 DEF NoLogin
<1>3. CASE ChangeValue(j, c)
  <2>1. PICK v \in Values :
          Truncate(j, SetValue(c, v), [intended EXCEPT !.value = v], {})
    BY <1>3 DEF ChangeValue
  <2>2. NoLogin
    BY <1>3 DEF ChangeValue
  <2>3. SetValue(c, v) \in Config
    BY ConfigTypes
  <2>4. IssuedBy(SetValue(c, v), issued')
    BY <1>1, <1>2, <2>2, IssuedChanges
  <2>5. Fresh(c, spent) => Fresh(SetValue(c, v), spent)
    BY <1>1, FreshChanges
  <2> QED BY <1>2, <2>1, <2>2, <2>3, <2>4, <2>5
<1>4. CASE ChangeProfile(j, c)
  <2>1. PICK p \in Profiles :
          /\ NewLogin(p)
          /\ Truncate(j, SetProfile(c, p, issued'[p]),
                      [intended EXCEPT !.profiles = @ \cup {p}], {})
    BY <1>4 DEF ChangeProfile
  <2>2. issued' = [issued EXCEPT ![p] = @ + 1]
    BY <2>1 DEF NewLogin
  <2>3. /\ issued' \in [Profiles -> Nat]
        /\ issued'[p] = issued[p] + 1
        /\ \A q \in Profiles : issued[q] <= issued'[q] /\ issued'[q] >= 2
    BY <1>1, <2>2
  <2>4. IssuedBy(c, issued')
    <3>1. \A q \in Profiles : c.top[q] \in Nat /\ c.nested[q] \in Nat
      BY DEF Config
    <3> QED BY <1>1, <2>3, <3>1 DEF IssuedBy
  <2>5. issued'[p] \in Nat /\ issued'[p] \notin spent[p]
    <3>1. \A t \in spent[p] : t <= issued[p]
      BY DEF IssuedInv
    <3> QED BY <1>1, <2>3, <3>1
  <2>6. SetProfile(c, p, issued'[p]) \in Config
    BY <2>5, ConfigTypes
  <2>7. IssuedBy(SetProfile(c, p, issued'[p]), issued')
    BY <2>3, <2>4, <2>5, IssuedChanges
  <2>8. Fresh(c, spent) => Fresh(SetProfile(c, p, issued'[p]), spent)
    BY <1>1, <2>5, FreshChanges
  <2> QED BY <2>1, <2>3, <2>6, <2>7, <2>8
<1>5. CASE DeleteProfile(j, c)
  <2>1. PICK p \in Present(c) :
          Truncate(j, DropProfile(c, p), [intended EXCEPT !.profiles = @ \ {p}], {})
    BY <1>5 DEF DeleteProfile
  <2>2. NoLogin /\ p \in Profiles
    BY <1>5, ConfigTypes DEF DeleteProfile
  <2>3. DropProfile(c, p) \in Config
    BY <2>2, ConfigTypes
  <2>4. IssuedBy(DropProfile(c, p), issued')
    BY <1>1, <1>2, <2>2, IssuedChanges
  <2>5. Fresh(c, spent) => Fresh(DropProfile(c, p), spent)
    BY <1>1, <2>2, FreshChanges
  <2> QED BY <1>2, <2>1, <2>2, <2>3, <2>4, <2>5
<1>6. CASE \E h : Replace(j, c, h)
  <2>1. PICK h : Replace(j, c, h)
    BY <1>6
  <2>2. NoLogin /\ Truncate(j, c, [value |-> c.value, profiles |-> Present(c)], h)
    BY <2>1 DEF Replace
  <2>3. IssuedBy(c, issued')
    BY <1>2, <2>2
  <2> QED BY <1>2, <2>2, <2>3
<1> QED BY <1>3, <1>4, <1>5, <1>6

LEMMA LoadIssued == TypeOK /\ IssuedInv => IssuedBy(Load, issued)
BY DefaultsIssued DEF TypeOK, IssuedInv, Load

\* What an edit of the admin routes or a command begins to save comes from a
\* configuration that was handed out, and is fresh when the file is: unless a
\* restored snapshot or a posted copy is a harm of its own.
LEMMA EditHolds ==
    ASSUME TypeOK, IssuedInv, NEW j \in Edits \cup Commands,
           \/ Edit(j) \/ ActivateSnapshot(j) \/ Post(j) \/ CommandSaves(j)
    PROVE  /\ j \in Jobs
           /\ \A p \in Profiles : issued[p] <= issued'[p]
           /\ UNCHANGED <<file, snapshots, loaded, spent, faults, intended>>
           /\ \E c \in Config, d \in Config : \E w, h :
                 /\ Truncate(j, d, w, h)
                 /\ IssuedBy(d, issued')
                 /\ \/ c = Load
                    \/ c = job[j].config /\ CommandSaves(j)
                    \/ Fresh(c, spent)
                    \/ harm' # {}
                 /\ Fresh(c, spent) => Fresh(d, spent)
<1>1. /\ j \in Jobs /\ job[j] \in Job /\ job[j].config \in Config
      /\ IssuedBy(job[j].config, issued)
  BY JobSets DEF TypeOK, Job, IssuedInv
<1>2. /\ issued \in [Profiles -> Nat] /\ spent \in [Profiles -> SUBSET (Nat \ {0})]
      /\ \A p \in Profiles : issued[p] >= 2
  BY DEF TypeOK, IssuedInv
<1>3. Load \in Config /\ IssuedBy(Load, issued)
  BY LoadTypes, LoadIssued
<1>4. UNCHANGED <<file, snapshots, loaded, spent, faults, intended>>
  BY DEF Edit, ActivateSnapshot, Post, CommandSaves
<1>5. CASE Edit(j)
  <2>1. CASE \E v \in Values : Replace(j, SetValue(Defaults, v), {})
    <3>1. PICK v \in Values : Replace(j, SetValue(Defaults, v), {})
      BY <2>1
    <3>2. Defaults \in Config
      BY NewJobTypes
    <3>3. SetValue(Defaults, v) \in Config
      BY <3>2, ConfigTypes
    <3>4. IssuedBy(SetValue(Defaults, v), issued)
      BY <1>2, <3>2, DefaultsIssued, IssuedChanges
    <3>5. Fresh(SetValue(Defaults, v), spent)
      BY <1>2, <3>2, DefaultsFresh, FreshChanges
    <3> QED BY <1>1, <1>4, <3>1, <3>3, <3>4, <3>5, ChangeHolds
  <2>2. CASE ChangeValue(j, Load) \/ ChangeProfile(j, Load) \/ DeleteProfile(j, Load)
    BY <1>1, <1>3, <1>4, <2>2, ChangeHolds
  <2> QED BY <1>5, <2>1, <2>2 DEF Edit
<1>6. CASE ActivateSnapshot(j)
  <2>1. PICK c \in snapshots : Replace(j, c, IF Stale(c) THEN {"token"} ELSE {})
    BY <1>6 DEF ActivateSnapshot
  <2>2. c \in Config /\ IssuedBy(c, issued)
    BY DEF TypeOK, IssuedInv
  <2>3. CASE Stale(c)
    <3>1. harm' # {}
      BY <2>1, <2>3 DEF Replace, Truncate
    <3> QED BY <1>1, <1>4, <2>1, <2>2, <3>1, ChangeHolds
  <2>4. CASE ~Stale(c)
    <3>1. Fresh(c, spent)
      BY <1>2, <2>2, <2>4, FreshWhenNotSpent DEF Stale
    <3> QED BY <1>1, <1>4, <2>1, <2>2, <3>1, ChangeHolds
  <2> QED BY <2>3, <2>4
<1>7. CASE Post(j)
  <2> DEFINE k == job[j].config
  <2>1. PICK v \in Values :
          Replace(j, SetValue(k, v), IF Present(k) # {} THEN {"masked"} ELSE {})
    BY <1>7 DEF Post
  <2>2. SetValue(k, v) \in Config /\ IssuedBy(SetValue(k, v), issued)
    BY <1>1, <1>2, ConfigTypes, IssuedChanges
  <2>3. CASE Present(k) # {}
    <3>1. harm' # {}
      BY <2>1, <2>3 DEF Replace, Truncate
    <3> QED BY <1>1, <1>4, <2>1, <2>2, <3>1, ChangeHolds
  <2>4. CASE Present(k) = {}
    <3>1. \A p \in Profiles : Effective(k, p) = 0 /\ 0 \notin spent[p]
      BY <1>2, <2>4 DEF Present
    <3>2. Fresh(k, spent)
      BY <1>1, <1>2, <3>1, FreshWhenNotSpent
    <3>3. Fresh(SetValue(k, v), spent)
      BY <1>1, <1>2, <3>2, FreshChanges
    <3> QED BY <1>1, <1>4, <2>1, <2>2, <3>3, ChangeHolds
  <2> QED BY <2>3, <2>4
<1>8. CASE CommandSaves(j)
  <2>1. ChangeValue(j, job[j].config) \/ ChangeProfile(j, job[j].config)
    BY <1>8 DEF CommandSaves
  <2> DEFINE c == job[j].config
  <2>2. \A p \in Profiles : issued[p] <= issued'[p]
    BY <1>1, <2>1, ChangeHolds
  <2>3. PICK d \in Config : \E w, h :
          Truncate(j, d, w, h) /\ IssuedBy(d, issued') /\ (Fresh(c, spent) => Fresh(d, spent))
    BY <1>1, <2>1, ChangeHolds
  <2>4. c \in Config /\ c = job[j].config
    BY <1>1
  <2> HIDE DEF c
  <2> QED BY <1>1, <1>4, <1>8, <2>2, <2>3, <2>4
<1> QED BY <1>5, <1>6, <1>7, <1>8

LEMMA IssuedStep == TypeOK /\ TypeOK' /\ IssuedInv /\ [Next]_vars => IssuedInv'
<1> SUFFICES ASSUME TypeOK, TypeOK', IssuedInv, [Next]_vars PROVE IssuedInv'
  OBVIOUS
<1>1. /\ issued \in [Profiles -> Nat] /\ spent \in [Profiles -> SUBSET (Nat \ {0})]
      /\ job \in [Jobs -> Job] /\ loaded \in [Managers -> Config]
      /\ \A p \in Profiles : issued[p] >= 2
  BY DEF TypeOK, IssuedInv
<1>2. UNCHANGED issued => \A p \in Profiles : issued[p] <= issued'[p]
  BY <1>1
<1>3. /\ NewJob.config = Defaults /\ NewJob.token = 0
      /\ NewJob \in Job /\ Done.config = Defaults /\ Done.token = 0 /\ Done \in Job
      /\ \A m \in Managers, l \in BOOLEAN :
            /\ Looking(m, l) \in Job
            /\ Looking(m, l).config = Defaults /\ Looking(m, l).token = 0
  BY NewJobTypes DEF NewJob, Done, Looking, Job
<1>4. ASSUME NEW n \in [Profiles -> Nat], NEW k \in Job, k.config = Defaults, k.token = 0
      PROVE  IssuedBy(k.config, n) /\ k.token <= n[k.profile]
  BY <1>4, DefaultsIssued DEF Job
<1>5. issued' \in [Profiles -> Nat]
  BY DEF TypeOK
<1>6. IssuedBy(Load, issued)
  BY LoadIssued
<1>7. ASSUME NEW j \in Edits \cup Commands,
             Edit(j) \/ ActivateSnapshot(j) \/ Post(j) \/ CommandSaves(j)
      PROVE  IssuedInv'
  <2>1. j \in Jobs /\ UNCHANGED <<file, snapshots, loaded, spent>>
    BY <1>7, EditHolds
  <2>2. \A p \in Profiles : issued[p] <= issued'[p]
    BY <1>7, EditHolds
  <2>3. PICK d \in Config : \E w, h : Truncate(j, d, w, h) /\ IssuedBy(d, issued')
    BY <1>7, EditHolds
  <2>4. /\ job'[j].config = d /\ job'[j].token = job[j].token
        /\ job'[j].profile = job[j].profile
        /\ \A i \in Jobs \ {j} : job'[i] = job[i]
    BY <2>1, <2>3, TruncateKeeps
  <2> QED BY <2>1, <2>2, <2>3, <2>4, IssuedFrom
<1>8. ASSUME NEW j \in Edits, Fetch(j) \/ SaveSnapshot(j) PROVE IssuedInv'
  <2>1. j \in Jobs /\ UNCHANGED <<file, loaded, issued, spent>>
    BY <1>8, JobSets DEF Fetch, SaveSnapshot
  <2>2. CASE Fetch(j)
    <3>1. IssuedBy(Redacted(Load), issued)
      BY <1>1, <1>6, LoadTypes, IssuedChanges
    <3>2. /\ job'[j].config = Redacted(Load) /\ job'[j].token = job[j].token
          /\ job'[j].profile = job[j].profile
          /\ \A i \in Jobs \ {j} : job'[i] = job[i]
      BY <1>1, <2>1, <2>2 DEF Fetch, Job
    <3> QED BY <1>2, <2>1, <2>2, <3>1, <3>2, IssuedFrom DEF Fetch
  <2>3. CASE SaveSnapshot(j)
    <3>1. job'[j] = Done /\ \A i \in Jobs \ {j} : job'[i] = job[i]
      BY <1>1, <2>1, <2>3 DEF SaveSnapshot
    <3>2. snapshots' = {Load}
      BY <2>3 DEF SaveSnapshot
    <3> QED BY <1>2, <1>3, <1>4, <1>5, <1>6, <2>1, <3>1, <3>2, IssuedFrom
  <2> QED BY <1>8, <2>2, <2>3
<1>9. ASSUME NEW j \in Commands, CommandLoads(j) PROVE IssuedInv'
  <2>1. j \in Jobs /\ UNCHANGED <<file, snapshots, loaded, issued, spent>>
    BY <1>9, JobSets DEF CommandLoads
  <2>2. /\ job'[j].config = Load /\ job'[j].token = job[j].token
        /\ job'[j].profile = job[j].profile
        /\ \A i \in Jobs \ {j} : job'[i] = job[i]
    BY <1>1, <1>9, <2>1 DEF CommandLoads, Job
  <2> QED BY <1>2, <1>6, <2>1, <2>2, IssuedFrom
<1>10. ASSUME NEW j \in Resolvers, NEW m \in Managers, Begin(j, m) PROVE IssuedInv'
  <2>1. j \in Jobs /\ UNCHANGED <<file, snapshots, issued, spent>>
    BY <1>10, JobSets DEF Begin
  <2>2. job'[j] = Looking(m, FALSE) /\ \A i \in Jobs \ {j} : job'[i] = job[i]
    BY <1>1, <1>10, <2>1 DEF Begin
  <2>3. loaded'[m] = Load /\ \A n \in Managers \ {m} : loaded'[n] = loaded[n]
    BY <1>1, <1>10 DEF Begin, Reload
  <2> QED BY <1>2, <1>3, <1>4, <1>5, <1>6, <2>1, <2>2, <2>3, IssuedFrom
<1>11. ASSUME NEW j \in Resolvers, NEW p \in Profiles, Refresh(j, p) PROVE IssuedInv'
  <2>1. /\ j \in Jobs /\ UNCHANGED <<file, snapshots, loaded>>
        /\ job[j].manager \in Managers
    BY <1>1, <1>11, JobSets DEF Refresh, Job
  <2>2. issued' = [issued EXCEPT ![p] = @ + 1]
    BY <1>11 DEF Refresh, NewLogin
  <2>3. /\ \A q \in Profiles : issued[q] <= issued'[q]
        /\ issued'[p] = issued[p] + 1
    BY <1>1, <2>2
  <2>4. \A q \in Profiles : \A t \in spent'[q] : t \in spent[q] \/ t <= issued'[q]
    <3>1. spent' = [spent EXCEPT ![p] = @ \cup {Has(j, p)}]
      BY <1>11 DEF Refresh
    <3>2. Has(j, p) <= issued[p] /\ Has(j, p) \in Nat
      BY <1>1, <2>1, IssuedChanges, ConfigTypes DEF Has, IssuedInv
    <3>3. Has(j, p) <= issued'[p]
      BY <1>1, <2>3, <3>2
    <3> QED BY <1>1, <3>1, <3>3
  <2>5. \/ job' = job
        \/ /\ job'[j].config = job[j].config
           /\ job'[j].token = issued[p] + 1 /\ job'[j].profile = p
           /\ \A i \in Jobs \ {j} : job'[i] = job[i]
    <3>1. \/ UNCHANGED job
          \/ job' = [job EXCEPT ![j] = [@ EXCEPT !.at = "refreshed", !.profile = p,
                                                 !.token = issued[p] + 1]]
      BY <1>11 DEF Refresh
    <3>2. CASE job' = [job EXCEPT ![j] = [@ EXCEPT !.at = "refreshed", !.profile = p,
                                                   !.token = issued[p] + 1]]
      BY <1>1, <2>1, <3>2 DEF Job
    <3> QED BY <3>1, <3>2
  <2>6. issued'[p] <= issued'[p]
    BY <1>5
  <2> QED BY <2>1, <2>3, <2>4, <2>5, <2>6, IssuedFrom
<1>12. ASSUME NEW j \in Resolvers, SaveRefreshed(j) PROVE IssuedInv'
  <2> DEFINE k == job[j]
             c == SetProfile(loaded[k.manager], k.profile, k.token)
  <2>1. /\ j \in Jobs /\ UNCHANGED <<file, snapshots, issued, spent>>
        /\ k.manager \in Managers /\ k.profile \in Profiles /\ k.token \in Nat
    BY <1>1, <1>12, JobSets DEF SaveRefreshed, Job
  <2>2. IssuedBy(c, issued)
    BY <1>1, <2>1, IssuedChanges DEF IssuedInv
  <2>3. Truncate(j, c, intended, {}) /\ loaded' = [loaded EXCEPT ![k.manager] = c]
    BY <1>12 DEF SaveRefreshed, Updated
  <2>4. /\ job'[j].config = c /\ job'[j].token = k.token /\ job'[j].profile = k.profile
        /\ \A i \in Jobs \ {j} : job'[i] = job[i]
    BY <2>1, <2>3, TruncateKeeps
  <2>5. loaded'[k.manager] = c /\ \A n \in Managers \ {k.manager} : loaded'[n] = loaded[n]
    BY <1>1, <2>1, <2>3
  <2> HIDE DEF c
  <2> QED BY <1>2, <2>1, <2>2, <2>4, <2>5, IssuedFrom
<1>13. ASSUME NEW j \in Resolvers, Await(j) \/ Resume(j) PROVE IssuedInv'
  <2>1. /\ j \in Jobs /\ UNCHANGED <<file, snapshots, loaded, issued, spent>>
        /\ job[j] \in Job /\ job[j].manager \in Managers
    BY <1>1, <1>13, JobSets DEF Await, Resume, Job
  <2>2. \A i \in Jobs \ {j} : job'[i] = job[i]
    BY <1>1, <1>13 DEF Await, Resume
  <2>3. \/ job'[j].config = job[j].config /\ job'[j].token = job[j].token
           /\ job'[j].profile = job[j].profile
        \/ job'[j] \in Job /\ job'[j].config = Defaults /\ job'[j].token = 0
    <3>1. CASE Resume(j)
      BY <1>1, <1>3, <2>1, <3>1 DEF Resume
    <3>2. CASE Await(j)
      BY <1>1, <1>3, <2>1, <3>2 DEF Await, Job
    <3> QED BY <1>13, <3>1, <3>2
  <2> QED BY <1>2, <1>4, <1>5, <2>1, <2>2, <2>3, IssuedFrom
<1>14. ASSUME NEW j \in Jobs, Write(j) \/ SaveFails(j) PROVE IssuedInv'
  <2>1. /\ UNCHANGED <<snapshots, loaded, issued, spent>> /\ Return(j)
        /\ job[j] \in Job /\ job[j].manager \in Managers /\ job[j].late \in BOOLEAN
    BY <1>1, <1>14 DEF Write, SaveFails, Job
  <2>2. file' = file \/ file' = job[j].config
    BY <1>14 DEF Write, SaveFails
  <2>3. IssuedBy(job[j].config, issued)
    BY DEF IssuedInv
  <2>4. \A i \in Jobs \ {j} : job'[i] = job[i]
    BY <1>1, <2>1 DEF Return
  <2>5. job'[j] \in Job /\ job'[j].config = Defaults /\ job'[j].token = 0
    BY <1>1, <1>3, <2>1 DEF Return
  <2> QED BY <1>2, <1>4, <1>5, <2>1, <2>2, <2>3, <2>4, <2>5, IssuedFrom
<1>15. CASE Crash
  <2>1. UNCHANGED <<file, snapshots, issued, spent>>
    BY <1>15 DEF Crash
  <2>2. \A m \in Managers : loaded'[m] = Load
    BY <1>15 DEF Crash
  <2>3. \A j \in Jobs : job'[j] = job[j] \/ job'[j] = Done
    BY <1>15 DEF Crash
  <2> QED BY <1>2, <1>3, <1>4, <1>5, <1>6, <2>1, <2>2, <2>3, IssuedFrom
<1>16. CASE UNCHANGED vars
  BY <1>2, <1>16, IssuedFrom DEF vars
<1> QED BY <1>7, <1>8, <1>9, <1>10, <1>11, <1>12, <1>13, <1>14, <1>15, <1>16 DEF Next

-----------------------------------------------------------------------------

\* Between its refresh and its save a job has spent a token that the file and
\* every configuration loaded before still hold.
Rotating == \E j \in Resolvers : job[j].at = "refreshed"

FreshFile ==
    ~Rotating /\ (\A j \in Resolvers : ~Saving(j)) => Fresh(file, spent)

FreshWriters ==
    ~Rotating =>
        \A j \in Jobs : Saving(j) \/ (j \in Commands /\ job[j].at = "read") =>
            Fresh(job[j].config, spent)

FreshResolvers ==
    \A j \in Resolvers :
        LET k == job[j]
            c == loaded[k.manager] IN
        ~k.late =>
            /\ k.at = "looking" => Fresh(c, spent)
            /\ k.at = "refreshed" =>
                  /\ k.token \notin spent[k.profile]
                  /\ Fresh(SetProfile(c, k.profile, k.token), spent)

FreshInv == harm = {} => FreshFile /\ FreshWriters /\ FreshResolvers

\* Only walks go on after an await.
Punctual == \A j \in Requests : ~job[j].late /\ job[j].at # "away"

LEMMA FreshInit == Init => FreshInv /\ Punctual
<1> SUFFICES ASSUME Init PROVE FreshInv /\ Punctual
  OBVIOUS
<1>1. \A j \in Jobs : job[j].at = "new" /\ ~job[j].late
  BY NewJobTypes DEF Init, NewJob
<1>2. Fresh(file, spent)
  BY DEF Init, Fresh
<1> QED BY <1>1, <1>2, JobSets DEF FreshInv, FreshFile, FreshWriters, FreshResolvers,
       Saving, Punctual, Resolvers

LEMMA PunctualStep == TypeOK /\ Punctual /\ [Next]_vars => Punctual'
<1> SUFFICES ASSUME TypeOK, Punctual, [Next]_vars, NEW i \in Requests
             PROVE  ~job'[i].late /\ job'[i].at # "away"
  BY DEF Punctual
<1>1. /\ job \in [Jobs -> Job] /\ i \in Jobs /\ i \in Resolvers /\ i \notin Walks
      /\ i \notin Edits \cup Commands /\ job[i] \in Job
      /\ ~job[i].late /\ job[i].at # "away"
  BY JobSets, JobsAreDistinct DEF TypeOK, Punctual, Resolvers
<1>2. /\ job[i].manager \in Managers /\ job[i].late \in BOOLEAN
      /\ NewJob.late = FALSE /\ NewJob \in Job
      /\ Done.late = FALSE /\ Done.at = "done"
      /\ \A m \in Managers, l \in BOOLEAN :
            Looking(m, l).late = l /\ Looking(m, l).at = "looking"
  BY <1>1, NewJobTypes DEF Job, NewJob, Done, Looking
<1>3. ASSUME job'[i] = job[i] PROVE ~job'[i].late /\ job'[i].at # "away"
  BY <1>1, <1>3
<1>4. ASSUME NEW j \in Edits,
             \/ Edit(j) \/ Fetch(j) \/ Post(j) \/ SaveSnapshot(j) \/ ActivateSnapshot(j)
      PROVE  job'[i] = job[i]
  <2>1. j \in Jobs /\ j # i
    BY <1>1 DEF Jobs
  <2> QED BY <1>1, <1>4, <2>1 DEF Edit, Fetch, Post, SaveSnapshot, ActivateSnapshot,
         ChangeValue, ChangeProfile, DeleteProfile, Replace, Truncate
<1>5. ASSUME NEW j \in Commands, CommandLoads(j) \/ CommandSaves(j)
      PROVE  job'[i] = job[i]
  BY <1>1, <1>5 DEF CommandLoads, CommandSaves, ChangeValue, ChangeProfile, Truncate
<1>6. ASSUME NEW j \in Jobs, Write(j) \/ SaveFails(j)
      PROVE  ~job'[i].late /\ job'[i].at # "away"
  <2>1. job' = [job EXCEPT ![j] = IF j \in Resolvers
                                  THEN Looking(job[j].manager, job[j].late) ELSE Done]
    BY <1>1, <1>6 DEF Write, SaveFails, Return
  <2>2. CASE i = j
    BY <1>1, <1>2, <2>1, <2>2
  <2>3. CASE i # j
    BY <1>1, <1>3, <2>1, <2>3
  <2> QED BY <2>2, <2>3
<1>7. ASSUME NEW j \in Resolvers, NEW m \in Managers, Begin(j, m)
      PROVE  ~job'[i].late /\ job'[i].at # "away"
  BY <1>1, <1>2, <1>7, JobSets DEF Begin
<1>8. ASSUME NEW j \in Resolvers, NEW p \in Profiles, Refresh(j, p)
      PROVE  ~job'[i].late /\ job'[i].at # "away"
  <2>1. CASE UNCHANGED job
    BY <1>3, <2>1
  <2>2. CASE job' = [job EXCEPT ![j] = [@ EXCEPT !.at = "refreshed", !.profile = p,
                                                 !.token = issued[p] + 1]]
    BY <1>1, <2>2, JobSets DEF Job
  <2> QED BY <1>8, <2>1, <2>2 DEF Refresh
<1>9. ASSUME NEW j \in Resolvers, SaveRefreshed(j)
      PROVE  ~job'[i].late /\ job'[i].at # "away"
  <2>1. j \in Jobs /\ Truncate(j, Updated(job[j]), intended, {})
    BY <1>9, JobSets DEF SaveRefreshed
  <2>2. /\ job'[j].at = "saving" /\ job'[j].late = job[j].late
        /\ \A n \in Jobs \ {j} : job'[n] = job[n]
    BY <2>1, TruncateKeeps
  <2> QED BY <1>1, <2>1, <2>2
<1>10. ASSUME NEW j \in Resolvers, Await(j) \/ Resume(j)
       PROVE  ~job'[i].late /\ job'[i].at # "away"
  <2>1. j \in Jobs
    BY JobSets
  <2>2. CASE i = j
    BY <1>1, <1>2, <1>10, <2>1, <2>2 DEF Await, Resume
  <2>3. CASE i # j
    BY <1>1, <1>3, <1>10, <2>1, <2>3 DEF Await, Resume
  <2> QED BY <2>2, <2>3
<1>11. CASE Crash
  <2>1. job'[i] = job[i] \/ job'[i] = Done
    BY <1>1, <1>11 DEF Crash
  <2> QED BY <1>1, <1>2, <2>1
<1>12. CASE UNCHANGED vars
  BY <1>3, <1>12 DEF vars
<1> QED BY <1>3, <1>4, <1>5, <1>6, <1>7, <1>8, <1>9, <1>10, <1>11, <1>12 DEF Next

\* With the loop free nobody rotates a token, and the file is fresh.
LEMMA LoadIsFresh ==
    ASSUME TypeOK, FreshInv, harm = {}, loop = {}
    PROVE  /\ ~Rotating
           /\ \A j \in Jobs \ Commands :
                 job[j].at \notin {"looking", "refreshed", "saving"}
           /\ Fresh(file, spent) /\ Fresh(Load, spent)
<1>1. \A j \in Jobs \ Commands : job[j].at \notin {"looking", "refreshed", "saving"}
  BY DEF TypeOK, OneOnLoop
<1>2. ~Rotating /\ \A j \in Resolvers : ~Saving(j)
  BY <1>1, JobSets DEF Rotating, Saving
<1>3. Fresh(file, spent)
  BY <1>2 DEF FreshInv, FreshFile
<1>4. Fresh(Load, spent)
  BY <1>3, DefaultsFresh DEF Load, TypeOK
<1> QED BY <1>1, <1>2, <1>3, <1>4

LEMMA FreshEdit ==
    ASSUME TypeOK, SavedInv, IssuedInv, FreshInv, harm' = {}, NEW j \in Edits \cup Commands,
           \/ Edit(j) \/ ActivateSnapshot(j) \/ Post(j) \/ CommandSaves(j)
    PROVE  FreshFile' /\ FreshWriters' /\ FreshResolvers'
<1>1. j \in Jobs /\ j \notin Resolvers /\ UNCHANGED <<file, loaded, spent>>
  BY EditHolds, JobSets
<1>2. PICK c \in Config, d \in Config : \E w, h :
          /\ Truncate(j, d, w, h)
          /\ \/ c = Load
             \/ c = job[j].config /\ CommandSaves(j)
             \/ Fresh(c, spent)
          /\ Fresh(c, spent) => Fresh(d, spent)
  BY EditHolds
<1>3. PICK w, h : Truncate(j, d, w, h)
  BY <1>2
<1>4. Calm'
  BY DEF Calm
<1>5. /\ Open \ {j} = {}
      /\ j \in Commands => loop = {}
      /\ job'[j].config = d
      /\ \A i \in Jobs \ {j} : job'[i] = job[i]
  BY <1>1, <1>3, <1>4, TruncateAlone
<1>6. harm = {}
  BY <1>3 DEF Truncate
<1>7. loop = {}
  BY <1>5 DEF Edit, ActivateSnapshot, Post, CommandSaves, Admin
<1>8. /\ ~Rotating
      /\ \A i \in Jobs \ Commands : job[i].at \notin {"looking", "refreshed", "saving"}
      /\ Fresh(file, spent) /\ Fresh(Load, spent)
  BY <1>6, <1>7, LoadIsFresh
<1>9. \A i \in Resolvers : job'[i].at \notin {"looking", "refreshed", "saving"}
  BY <1>1, <1>5, <1>8, JobSets
<1>10. Fresh(d, spent)
  <2>1. ASSUME CommandSaves(j) PROVE Fresh(job[j].config, spent)
    BY <1>1, <1>6, <1>8, <2>1 DEF CommandSaves, FreshInv, FreshWriters
  <2> QED BY <1>2, <1>8, <2>1
<1>11. FreshFile'
  BY <1>1, <1>8 DEF FreshFile, Fresh
<1>12. FreshWriters'
  <2>1. \A i \in Jobs : Saving(i)' \/ (i \in Commands /\ job'[i].at = "read") => i = j
    BY <1>1, <1>5, <1>8, JobSets DEF Open, Saving
  <2> QED BY <1>1, <1>5, <1>10, <2>1 DEF FreshWriters, Fresh
<1>13. FreshResolvers'
  BY <1>9 DEF FreshResolvers
<1> QED BY <1>11, <1>12, <1>13

\* A step of a job of the server that neither spends nor writes.
LEMMA FreshAside ==
    ASSUME TypeOK, FreshInv, harm = {}, NEW j \in Jobs \ Commands,
           \A i \in Jobs \ {j} : job'[i] = job[i],
           job[j].at \notin {"refreshed", "saving"},
           job'[j].at \notin {"refreshed", "saving"},
           job'[j].at = "looking" => job'[j].late,
           UNCHANGED <<file, loaded, spent>>
    PROVE  FreshFile' /\ FreshWriters' /\ FreshResolvers'
<1>1. FreshFile /\ FreshWriters /\ FreshResolvers
  BY DEF FreshInv
<1>2. Rotating' <=> Rotating
  BY JobSets DEF Rotating
<1>3. \A i \in Jobs : Saving(i)' <=> Saving(i)
  BY DEF Saving
<1>4. FreshFile'
  BY <1>1, <1>2, <1>3, JobSets DEF FreshFile, Fresh
<1>5. \A i \in Commands : job'[i] = job[i]
  BY JobSets
<1>6. \A i \in Jobs : Saving(i)' => job'[i] = job[i]
  BY DEF Saving
<1>7. FreshWriters'
  BY <1>1, <1>2, <1>3, <1>5, <1>6, JobSets DEF FreshWriters, Fresh
<1>8. FreshResolvers'
  BY <1>1, JobSets DEF FreshResolvers, Fresh
<1> QED BY <1>4, <1>7, <1>8

LEMMA FreshCommandLoads ==
    ASSUME TypeOK, FreshInv, harm' = {}, NEW j \in Commands, CommandLoads(j)
    PROVE  FreshFile' /\ FreshWriters' /\ FreshResolvers'
<1>1. harm = {} /\ loop = {} /\ Open = {} /\ UNCHANGED <<file, loaded, spent>>
  BY DEF CommandLoads
<1>2. /\ ~Rotating
      /\ \A i \in Jobs \ Commands : job[i].at \notin {"looking", "refreshed", "saving"}
      /\ Fresh(file, spent) /\ Fresh(Load, spent)
  BY <1>1, LoadIsFresh
<1>3. j \in Jobs /\ job \in [Jobs -> Job] /\ job[j] \in Job
  BY JobSets DEF TypeOK
<1>4. /\ job'[j].at = "read" /\ job'[j].config = Load
      /\ \A i \in Jobs \ {j} : job'[i] = job[i]
  BY <1>3 DEF CommandLoads, Job
<1>5. \A i \in Resolvers : job'[i].at \notin {"looking", "refreshed", "saving"}
  BY <1>2, <1>3, <1>4, JobSets
<1>6. \A i \in Jobs : Saving(i)' \/ (i \in Commands /\ job'[i].at = "read") => i = j
  BY <1>1, <1>2, <1>4, JobSets DEF Open, Saving
<1>7. FreshFile' /\ FreshWriters'
  BY <1>1, <1>2, <1>4, <1>6 DEF FreshFile, FreshWriters, Fresh
<1> QED BY <1>5, <1>7 DEF FreshResolvers

LEMMA FreshBegin ==
    ASSUME TypeOK, FreshInv, harm' = {}, NEW j \in Resolvers, NEW m \in Managers, Begin(j, m)
    PROVE  FreshFile' /\ FreshWriters' /\ FreshResolvers'
<1>1. harm = {} /\ loop = {} /\ UNCHANGED <<file, spent>>
  BY DEF Begin
<1>2. /\ ~Rotating
      /\ \A i \in Jobs \ Commands : job[i].at \notin {"looking", "refreshed", "saving"}
      /\ Fresh(file, spent) /\ Fresh(Load, spent)
  BY <1>1, LoadIsFresh
<1>3. /\ j \in Jobs \ Commands /\ job \in [Jobs -> Job]
      /\ loaded \in [Managers -> Config]
  BY JobSets DEF TypeOK
<1>4. /\ job'[j].at = "looking" /\ job'[j].manager = m
      /\ \A i \in Jobs \ {j} : job'[i] = job[i]
  BY <1>3, NewJobTypes, LookingKeeps DEF Begin
<1>5. loaded'[m] = Load
  BY <1>3 DEF Begin, Reload
<1>6. \A i \in Resolvers : job'[i].at \notin {"refreshed", "saving"} /\
                           (job'[i].at = "looking" => i = j)
  BY <1>2, <1>4, JobSets
<1>7. FreshFile'
  BY <1>1, <1>2 DEF FreshFile, Fresh
<1>8. FreshWriters'
  <2>1. \A i \in Jobs : Saving(i)' \/ (i \in Commands /\ job'[i].at = "read") =>
            /\ job'[i] = job[i]
            /\ Saving(i) \/ (i \in Commands /\ job[i].at = "read")
    BY <1>3, <1>4 DEF Saving
  <2> QED BY <1>1, <1>2, <2>1 DEF FreshInv, FreshWriters, Fresh
<1>9. FreshResolvers'
  BY <1>1, <1>2, <1>4, <1>5, <1>6 DEF FreshResolvers, Fresh
<1> QED BY <1>7, <1>8, <1>9

\* The token handed out is newer than any that was presented.
LEMMA FreshRefresh ==
    ASSUME TypeOK, IssuedInv, FreshInv, harm' = {},
           NEW j \in Resolvers, NEW p \in Profiles, Refresh(j, p)
    PROVE  FreshFile' /\ FreshWriters' /\ FreshResolvers'
<1> DEFINE k == job[j]
           c == loaded[k.manager]
           t == issued[p] + 1
<1>1. /\ j \in Jobs \ Commands /\ job \in [Jobs -> Job] /\ k \in Job
      /\ issued \in [Profiles -> Nat] /\ spent \in [Profiles -> SUBSET (Nat \ {0})]
      /\ k.manager \in Managers /\ c \in Config
  BY JobSets DEF TypeOK, Job
<1>2. harm = {} /\ loop = {j} /\ k.at = "looking" /\ UNCHANGED <<file, loaded>>
  BY <1>1, OnLoop DEF Refresh, Looks
<1>3. job' = [job EXCEPT ![j] = [@ EXCEPT !.at = "refreshed", !.profile = p, !.token = t]]
  BY DEF Refresh
<1>4. /\ job'[j].at = "refreshed" /\ job'[j].profile = p /\ job'[j].token = t
      /\ job'[j].manager = k.manager /\ job'[j].late = k.late
      /\ \A i \in Jobs \ {j} : job'[i] = job[i]
  BY <1>1, <1>3 DEF Job
<1>5. FreshFile' /\ FreshWriters'
  BY <1>4 DEF FreshFile, FreshWriters, Rotating
<1>6. \A i \in Resolvers : job'[i].at \in {"looking", "refreshed"} => i = j
  BY <1>1, <1>2, <1>4, JobSets DEF TypeOK, OneOnLoop
<1>7. spent' = [spent EXCEPT ![p] = @ \cup {Has(j, p)}]
  BY DEF Refresh
<1>8. Has(j, p) <= issued[p] /\ Has(j, p) \in Nat
  BY <1>1, IssuedChanges, ConfigTypes DEF Has, IssuedInv
<1>9. t \in Nat /\ t \notin spent'[p]
  <2>1. \A u \in spent[p] : u <= issued[p] /\ u \in Nat
    BY <1>1 DEF IssuedInv
  <2>2. spent'[p] = spent[p] \cup {Has(j, p)}
    BY <1>1, <1>7
  <2>3. issued[p] \in Nat
    BY <1>1
  <2> QED BY <1>8, <2>1, <2>2, <2>3
<1>10. ASSUME ~k.late PROVE Fresh(SetProfile(c, p, t), spent')
  <2>1. Fresh(c, spent)
    BY <1>2, <1>10 DEF FreshInv, FreshResolvers
  <2>2. /\ SetProfile(c, p, t).nested = c.nested
        /\ SetProfile(c, p, t).top = [c.top EXCEPT ![p] = t]
    BY <1>1 DEF Config, SetProfile
  <2>3. ASSUME NEW q \in Profiles, SetProfile(c, p, t).nested[q] = 0
        PROVE  SetProfile(c, p, t).top[q] \notin spent'[q]
    <3>1. CASE q = p
      <4>1. SetProfile(c, p, t).top[p] = t
        BY <1>1, <2>2 DEF Config
      <4> HIDE DEF t
      <4> QED BY <1>9, <3>1, <4>1
    <3>2. CASE q # p
      <4>1. SetProfile(c, p, t).top[q] = c.top[q] /\ spent'[q] = spent[q]
        BY <1>1, <1>7, <2>2, <3>2 DEF Config
      <4> QED BY <2>1, <2>2, <2>3, <4>1 DEF Fresh
    <3> QED BY <3>1, <3>2
  <2> QED BY <2>3 DEF Fresh
<1>11. FreshResolvers'
  <2>1. /\ job'[j].token \notin spent'[job'[j].profile]
        /\ loaded'[job'[j].manager] = c
    BY <1>2, <1>4, <1>9
  <2>2. ~job'[j].late =>
            Fresh(SetProfile(loaded'[job'[j].manager], job'[j].profile, job'[j].token), spent')
    BY <1>4, <1>10, <2>1
  <2> QED BY <1>4, <1>6, <2>1, <2>2 DEF FreshResolvers, Fresh, SetProfile
<1> QED BY <1>5, <1>11

LEMMA FreshSaveRefreshed ==
    ASSUME TypeOK, FreshInv, harm' = {}, NEW j \in Resolvers, SaveRefreshed(j)
    PROVE  FreshFile' /\ FreshWriters' /\ FreshResolvers'
<1> DEFINE k == job[j]
           c == SetProfile(loaded[k.manager], k.profile, k.token)
<1>1. j \in Jobs \ Commands
  BY JobSets
<1>2. /\ Truncate(j, c, intended, {}) /\ k.at = "refreshed"
      /\ UNCHANGED spent
  BY DEF SaveRefreshed, Updated
<1>3. Calm'
  BY DEF Calm
<1>4. /\ Open \ {j} = {} /\ ~k.late
      /\ Saving(j)' /\ job'[j].config = c
      /\ \A i \in Jobs \ {j} : job'[i] = job[i]
  <2>1. Truncate(j, c, intended, {})
    BY <1>2
  <2> HIDE DEF c
  <2> QED BY <1>1, <1>3, <2>1, TruncateAlone
<1>5. harm = {}
  BY <1>2 DEF Truncate
<1>6. Fresh(c, spent)
  BY <1>2, <1>4, <1>5 DEF FreshInv, FreshResolvers
<1> HIDE DEF c
<1>7. \A i \in (Jobs \ Commands) \ {j} : job'[i].at \notin {"looking", "refreshed", "saving"}
  BY <1>1, <1>2, <1>4 DEF TypeOK, OneOnLoop
<1>8. \A i \in Jobs : Saving(i)' \/ (i \in Commands /\ job'[i].at = "read") => i = j
  BY <1>1, <1>4, <1>7, JobSets DEF Open, Saving
<1>9. FreshFile'
  BY <1>4 DEF FreshFile
<1>10. FreshWriters'
  BY <1>2, <1>4, <1>6, <1>8 DEF FreshWriters, Fresh
<1>11. FreshResolvers'
  BY <1>4, <1>7, JobSets DEF FreshResolvers, Saving
<1> QED BY <1>9, <1>10, <1>11

\* A save that ends puts a fresh configuration into the file; one that fails
\* without harm leaves the old one there.
LEMMA FreshReturn ==
    ASSUME TypeOK, SavedInv, FreshInv, harm = {}, harm' = {}, NEW j \in Jobs,
           Write(j) \/ SaveFails(j)
    PROVE  FreshFile' /\ FreshWriters' /\ FreshResolvers'
<1>1. /\ Saving(j) /\ Return(j) /\ UNCHANGED <<loaded, spent>> /\ Calm
      /\ job \in [Jobs -> Job] /\ job[j] \in Job
      /\ job[j].manager \in Managers /\ job[j].late \in BOOLEAN
  BY DEF Write, SaveFails, Saving, Calm, TypeOK, Job
<1>2. FreshFile /\ FreshWriters /\ FreshResolvers
  BY DEF FreshInv
<1>3. \A i \in Jobs \ {j} : job'[i] = job[i]
  BY <1>1 DEF Return
<1>4. /\ job'[j].at \in {"looking", "done"}
      /\ j \in Resolvers => job'[j].at = "looking" /\ job'[j].manager = job[j].manager
  BY <1>1, NewJobTypes, LookingKeeps DEF Return
<1>5. Rotating' <=> Rotating
  BY <1>1, <1>3, <1>4, JobSets DEF Rotating, Saving
<1>6. ASSUME j \in Resolvers PROVE ~Rotating
  <2>1. loop = {j}
    BY <1>1, <1>6, JobSets, OnLoop DEF Saving
  <2> QED BY <1>1, <2>1, JobSets DEF TypeOK, OneOnLoop, Rotating, Saving
<1>7. ~Rotating => Fresh(job[j].config, spent)
  BY <1>1, <1>2 DEF FreshWriters
<1>8. file' = job[j].config \/ (file' = file /\ j \notin Resolvers)
  BY DEF Write, SaveFails
<1>9. FreshFile'
  <2>1. CASE file' = job[j].config
    BY <1>1, <1>5, <1>7, <2>1 DEF FreshFile, Fresh
  <2>2. CASE file' = file /\ j \notin Resolvers
    <3>1. \A i \in Resolvers : Saving(i)' <=> Saving(i)
      BY <1>3, <2>2, JobSets DEF Saving
    <3> QED BY <1>1, <1>2, <1>5, <2>2, <3>1 DEF FreshFile, Fresh
  <2> QED BY <1>8, <2>1, <2>2
<1>10. FreshWriters'
  <2>1. \A i \in Jobs : Saving(i)' \/ (i \in Commands /\ job'[i].at = "read") =>
            /\ job'[i] = job[i]
            /\ Saving(i) \/ (i \in Commands /\ job[i].at = "read")
    BY <1>3, <1>4 DEF Saving
  <2> QED BY <1>1, <1>2, <1>5, <2>1 DEF FreshWriters, Fresh
<1>11. FreshResolvers'
  <2>1. j \in Resolvers => loaded[job[j].manager] = job[j].config
    BY <1>1 DEF SavedInv, WritersAreUpToDate
  <2>2. j \in Resolvers => Fresh(loaded'[job'[j].manager], spent')
    BY <1>1, <1>4, <1>6, <1>7, <2>1
  <2>3. \A i \in Resolvers \ {j} : job'[i] = job[i]
    BY <1>3, JobSets
  <2> QED BY <1>1, <1>2, <1>4, <2>2, <2>3 DEF FreshResolvers, Fresh
<1> QED BY <1>9, <1>10, <1>11

LEMMA FreshCrash ==
    ASSUME TypeOK, FreshInv, harm' = {}, Crash
    PROVE  FreshFile' /\ FreshWriters' /\ FreshResolvers'
<1>1. /\ harm = {} /\ UNCHANGED <<file, spent>>
      /\ \A j \in loop : job[j].at \notin {"saving", "refreshed"}
  BY DEF Crash
<1>2. \A j \in Jobs \ Commands : job[j].at \notin {"saving", "refreshed"}
  BY <1>1 DEF TypeOK, OneOnLoop
<1>3. FreshFile /\ FreshWriters /\ ~Rotating /\ \A j \in Resolvers : ~Saving(j)
  BY <1>1, <1>2, JobSets DEF FreshInv, Rotating, Saving
<1>4. /\ \A j \in Commands : job'[j] = job[j]
      /\ \A j \in Jobs \ Commands : job'[j].at \in {"new", "fetched", "done"}
  BY JobSets, NewJobTypes DEF Crash
<1>5. FreshFile'
  BY <1>1, <1>3 DEF FreshFile, Fresh
<1>6. FreshWriters'
  BY <1>1, <1>3, <1>4, JobSets DEF FreshWriters, Fresh, Saving
<1>7. FreshResolvers'
  BY <1>4, JobSets DEF FreshResolvers
<1> QED BY <1>5, <1>6, <1>7

LEMMA FreshStep ==
    TypeOK /\ SavedInv /\ IssuedInv /\ FreshInv /\ [Next]_vars => FreshInv'
<1> SUFFICES ASSUME TypeOK, SavedInv, IssuedInv, FreshInv, [Next]_vars, harm' = {}
             PROVE  FreshFile' /\ FreshWriters' /\ FreshResolvers'
  BY DEF FreshInv
<1>1. job \in [Jobs -> Job]
  BY DEF TypeOK
<1>2. ASSUME NEW j \in Edits, Fetch(j) \/ SaveSnapshot(j)
      PROVE  FreshFile' /\ FreshWriters' /\ FreshResolvers'
  <2>1. /\ j \in Jobs \ Commands /\ job[j].at = "new" /\ job[j] \in Job
        /\ harm = {} /\ UNCHANGED <<file, loaded, spent>>
    BY <1>1, <1>2, JobSets DEF Fetch, SaveSnapshot, Admin, Starts
  <2>2. job'[j].at \in {"fetched", "done"} /\ \A i \in Jobs \ {j} : job'[i] = job[i]
    <3>1. CASE Fetch(j)
      BY <1>1, <2>1, <3>1 DEF Fetch, Job
    <3>2. CASE SaveSnapshot(j)
      BY <1>1, <2>1, <3>2, NewJobTypes DEF SaveSnapshot
    <3> QED BY <1>2, <3>1, <3>2
  <2> QED BY <2>1, <2>2, FreshAside
<1>3. ASSUME NEW j \in Resolvers, Await(j) \/ Resume(j)
      PROVE  FreshFile' /\ FreshWriters' /\ FreshResolvers'
  <2>1. /\ j \in Jobs \ Commands /\ job[j] \in Job /\ job[j].manager \in Managers
        /\ job[j].at \in {"looking", "away"}
        /\ harm = {} /\ UNCHANGED <<file, loaded, spent>>
    BY <1>1, <1>3, JobSets DEF Await, Resume, Looks, Job
  <2>2. \A i \in Jobs \ {j} : job'[i] = job[i]
    BY <1>1, <1>3, <2>1 DEF Await, Resume
  <2>3. /\ job'[j].at \in {"looking", "away", "done"}
        /\ job'[j].at = "looking" => job'[j].late
    <3>1. CASE Await(j)
      BY <1>1, <2>1, <3>1, NewJobTypes DEF Await, Job
    <3>2. CASE Resume(j)
      BY <1>1, <2>1, <3>2, NewJobTypes, LookingKeeps DEF Resume
    <3> QED BY <1>3, <3>1, <3>2
  <2> QED BY <2>1, <2>2, <2>3, FreshAside
<1>4. ASSUME NEW j \in Jobs, Write(j) \/ SaveFails(j)
      PROVE  FreshFile' /\ FreshWriters' /\ FreshResolvers'
  <2>1. harm = {}
    BY <1>4 DEF Write, SaveFails
  <2> QED BY <1>4, <2>1, FreshReturn
<1>5. CASE UNCHANGED vars
  <2>1. FreshFile /\ FreshWriters /\ FreshResolvers
    BY <1>5 DEF vars, FreshInv
  <2> QED BY <1>5, <2>1 DEF vars, FreshFile, FreshWriters, FreshResolvers, Fresh,
         Rotating, Saving
<1> QED BY <1>2, <1>3, <1>4, <1>5, FreshEdit, FreshCommandLoads, FreshBegin, FreshRefresh,
       FreshSaveRefreshed, FreshCrash DEF Next

LEMMA FreshSafety == Spec => [](TypeOK /\ FreshInv /\ Punctual)
<1>1. Spec => [](TypeOK /\ SavedInv)
  BY TypeCorrect, SavedInit, SavedStep, PTL DEF Spec
<1>2. Spec => []IssuedInv
  BY TypeCorrect, IssuedInit, IssuedStep, PTL DEF Spec
<1>3. Spec => []FreshInv
  BY <1>1, <1>2, FreshInit, FreshStep, PTL DEF Spec
<1>4. Spec => []Punctual
  BY <1>1, FreshInit, PunctualStep, PTL DEF Spec
<1> QED BY <1>1, <1>3, <1>4, PTL

\* Between jobs no profile is left with a refresh token that its provider has
\* seen, whichever managers and requests refreshed it: the rotated token is
\* saved before anyone loads the file again.  The harms excepted are the ones
\* TokensStayUsable names.
THEOREM TokensRemain == Spec => []TokensStayUsable
<1>1. TypeOK /\ FreshInv => TokensStayUsable
  <2> SUFFICES ASSUME TypeOK, FreshInv, loop = {}, harm = {},
                      NEW p \in Profiles, file.nested[p] = 0
               PROVE  file.top[p] \notin spent[p]
    BY DEF TokensStayUsable, Quiet
  <2>1. Fresh(file, spent)
    BY LoadIsFresh
  <2> QED BY <2>1 DEF Fresh
<1> QED BY <1>1, FreshSafety, PTL

\* A request never finds itself about to present a token a second time: it has
\* reloaded the file, and holds the loop until it has saved what it rotated.
THEOREM RequestsAreFresh == Spec => []RequestsPresentFreshTokens
<1>1. FreshInv /\ Punctual => RequestsPresentFreshTokens
  <2> SUFFICES ASSUME FreshInv, Punctual, harm = {}, NEW j \in Requests, NEW p \in Profiles,
                      Looks(j), loaded[job[j].manager].nested[p] = 0
               PROVE  Has(j, p) \notin spent[p]
    BY DEF RequestsPresentFreshTokens
  <2>1. Fresh(loaded[job[j].manager], spent)
    BY DEF FreshInv, FreshResolvers, Punctual, Looks
  <2> QED BY <2>1 DEF Fresh, Has, Effective
<1> QED BY <1>1, FreshSafety, PTL

=============================================================================
