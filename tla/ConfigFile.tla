------------------------------ MODULE ConfigFile ------------------------------
(***************************************************************************)
(* The configuration file and those who write it:                          *)
(* src/open_llm_auth/config.py (load_config, Config.save), the admin       *)
(* routes of server/config_routes.py, the commands of cli.py, and the      *)
(* token refresh of auth/manager.py.                                       *)
(*                                                                         *)
(* Every writer loads the whole file, changes its own item and writes the  *)
(* whole file back, in place.  The event loop runs one job at a time, and  *)
(* a refresh blocks it, so jobs interleave only where they await:          *)
(* list_models and the provider telemetry go on, after each await, with    *)
(* the configuration they loaded at their start.  A command of the command *)
(* line is another process.                                                *)
(*                                                                         *)
(* A credential is the number of its login or rotation, 0 for none, or the *)
(* mask.  A refresh token works once.  `value` is the rest of the file.    *)
(***************************************************************************)
EXTENDS Integers

CONSTANTS
    Profiles,   \* OAuth profiles whose refresh tokens rotate
    Values,     \* what the rest of the configuration may be
    NoValue,    \* what load_config makes of it when there is no file
    Managers,   \* the instances of ProviderManager
    Requests,   \* requests that resolve a provider
    Walks,      \* calls of list_models and collect_provider_telemetry
    Edits,      \* calls of the admin routes
    Commands,   \* invocations of the command line
    MaxTokens,  \* bound: logins and rotations of a profile
    MaxFaults,  \* bound: crashes, failed saves and lost answers
    Final       \* bound: harms after which only writes are looked at

ASSUME DefaultIsAValue == NoValue \in Values
ASSUME JobsAreDistinct ==
    /\ Commands \cap (Requests \cup Walks \cup Edits) = {}
    /\ Edits \cap (Requests \cup Walks) = {}
    /\ Requests \cap Walks = {}
ASSUME SomeProfile == Profiles # {}
ASSUME SomeManager == Managers # {}

\* What _redact_sensitive puts in the place of a secret.
Mask == 1

Config == [value : Values, top : [Profiles -> Nat], nested : [Profiles -> Nat]]
Defaults == [value |-> NoValue, top |-> [p \in Profiles |-> 0],
             nested |-> [p \in Profiles |-> 0]]

Resolvers == Requests \cup Walks
Jobs == Resolvers \cup Edits \cup Commands

VARIABLES
    file,       \* what was last written to config.json as a whole
    torn,       \* the file is being rewritten, or somebody died doing so
    snapshots,  \* the saved configuration profiles
    loaded,     \* each manager's _config
    loop,       \* the job the event loop runs: at most one
    job,        \* each job's progress
    issued,     \* the last credential each provider handed out
    spent,      \* the refresh tokens each provider has seen
    faults,     \* how many faults there were
    intended,   \* what the acknowledged edits add up to
    harm        \* what went wrong so far, for the properties

vars == <<file, torn, snapshots, loaded, loop, job, issued, spent, faults, intended, harm>>

\* What the acknowledged edits add up to, apart from the credentials.
Wanted == [value : Values, profiles : SUBSET Profiles]

\* "refreshed": the provider has answered, nothing is saved.  "away": in an
\* await.  "fetched": the dashboard holds what GET /config answered.  `late`:
\* has awaited since it loaded the configuration.
Job == [at      : {"new", "looking", "refreshed", "away", "fetched", "read",
                   "saving", "done"},
        config  : Config,
        manager : Managers,
        profile : Profiles,
        token   : Nat,
        late    : BOOLEAN,
        wanted  : Wanted]

Harms == {"torn", "token", "masked", "late", "overlap"}

\* The loop runs one job of the server, and that one until it awaits or ends.
OneOnLoop ==
    /\ loop \cap Commands = {}
    /\ \A j \in Jobs \ Commands :
          (j \in loop) <=> (job[j].at \in {"looking", "refreshed", "saving"})
    /\ \A i, j \in loop : i = j

TypeOK ==
    /\ file \in Config
    /\ torn \in BOOLEAN
    /\ snapshots \subseteq Config
    /\ loaded \in [Managers -> Config]
    /\ loop \subseteq Jobs
    /\ job \in [Jobs -> Job]
    /\ OneOnLoop
    /\ issued \in [Profiles -> Nat]
    /\ spent \in [Profiles -> SUBSET (Nat \ {0})]
    /\ faults \in Nat
    /\ intended \in Wanted
    /\ harm \subseteq Harms

-----------------------------------------------------------------------------
(* config.py *)

\* load_config: an unreadable file is silently the default configuration.
Load == IF torn THEN Defaults ELSE file

\* all_auth_profiles: auth.profiles hides auth_profiles of the same id.  The
\* definitions named Bad... are slips the properties must notice.
Effective(c, p) == IF c.nested[p] # 0 THEN c.nested[p] ELSE c.top[p]

Present(c) == {p \in Profiles : Effective(c, p) # 0}

NewJob == [at |-> "new", config |-> Defaults,
           manager |-> CHOOSE m \in Managers : TRUE,
           profile |-> CHOOSE p \in Profiles : TRUE,
           token |-> 0, late |-> FALSE,
           wanted |-> [value |-> NoValue, profiles |-> {}]]

Looking(m, l) == [NewJob EXCEPT !.at = "looking", !.manager = m, !.late = l]
Done == [NewJob EXCEPT !.at = "done"]

\* Files the commands and an operator's editor leave: a login in either map.
Init ==
    /\ file \in [value : {NoValue}, top : [Profiles -> {0, 2}],
                 nested : [Profiles -> {0, 2}]]
    /\ torn = FALSE
    /\ snapshots = {}
    /\ loaded = [m \in Managers |-> file]
    /\ loop = {}
    /\ job = [j \in Jobs |-> NewJob]
    /\ issued = [p \in Profiles |-> 2]
    /\ spent = [p \in Profiles |-> {}]
    /\ faults = 0
    /\ intended = [value |-> NoValue, profiles |-> Present(file)]
    /\ harm = {}

\* The bound Final: where no property claims anything, nothing more happens.
Watched == harm \cap Final = {}
Starts(j) == job[j].at = "new" /\ Watched

\* Commands between their load and the end of their save.
Open == {c \in Commands : job[c].at \in {"read", "saving"}}

\* Config.save, first half: write_text has emptied the file.  The harm is for
\* the properties: a save that may undo what another writer did meanwhile.
Truncate(j, c, w, h) ==
    /\ torn' = TRUE
    /\ job' = [job EXCEPT ![j] = [@ EXCEPT !.at = "saving", !.config = c, !.wanted = w]]
    /\ harm' = harm \cup h
          \cup (IF Open \ {j} # {} \/ (j \in Commands /\ loop # {})
                THEN {"overlap"} ELSE {})
          \cup (IF job[j].late THEN {"late"} ELSE {})

\* A refresh goes on with its request, an edit or a command is done.
Return(j) ==
    /\ job' = [job EXCEPT ![j] = IF j \in Resolvers THEN Looking(@.manager, @.late)
                                  ELSE Done]
    /\ loop' = loop \ ({j} \cap Edits)

\* ... second half.  Two writers at once can leave a mixture.
Write(j) ==
    /\ job[j].at = "saving"
    /\ file' = job[j].config
    /\ torn' \in {FALSE} \cup (IF "overlap" \in harm THEN {TRUE} ELSE {})
    /\ intended' = job[j].wanted
    /\ Return(j)
    /\ UNCHANGED <<snapshots, loaded, issued, spent, faults, harm>>

\* The disk is full, or the file cannot be opened.  A refresh catches the
\* exception and its request goes on without the profile.
SaveFails(j) ==
    /\ job[j].at = "saving"
    /\ faults < MaxFaults
    /\ faults' = faults + 1
    /\ torn' \in BOOLEAN
    /\ harm' = harm \cup (IF torn' THEN {"torn"} ELSE {})
                    \cup (IF j \in Resolvers THEN {"token"} ELSE {})
    /\ Return(j)
    /\ UNCHANGED <<file, snapshots, loaded, issued, spent, intended>>

-----------------------------------------------------------------------------
(* config_routes.py and cli.py: load, change, save *)

\* A login or a rotation hands out the next credential.
NewLogin(p) ==
    /\ issued[p] < MaxTokens
    /\ issued' = [issued EXCEPT ![p] = @ + 1]

NoLogin == UNCHANGED issued

\* The changes an edit can make to configuration c: save_provider and
\* delete_provider, save_auth_profile and the login commands, the deletion of
\* a profile from both maps, and save_config.
SetValue(c, v) == [c EXCEPT !.value = v]
SetProfile(c, p, t) == [c EXCEPT !.top[p] = t]
BadDropProfile(c, p) == [c EXCEPT !.top[p] = 0]
DropProfile(c, p) == [c EXCEPT !.top[p] = 0, !.nested[p] = 0]

\* Change(j, c): job j has loaded c, changes an item of it and begins to save.
ChangeValue(j, c) ==
    /\ \E v \in Values :
          Truncate(j, SetValue(c, v), [intended EXCEPT !.value = v], {})
    /\ NoLogin

ChangeProfile(j, c) ==
    \E p \in Profiles :
        /\ NewLogin(p)
        /\ Truncate(j, SetProfile(c, p, issued'[p]),
                    [intended EXCEPT !.profiles = @ \cup {p}], {})

\* Anything else is a 404 that saves nothing.
DeleteProfile(j, c) ==
    /\ \E p \in Present(c) :
          Truncate(j, DropProfile(c, p),
                   [intended EXCEPT !.profiles = @ \ {p}], {})
    /\ NoLogin

Replace(j, c, h) ==
    /\ Truncate(j, c, [value |-> c.value, profiles |-> Present(c)], h)
    /\ NoLogin

\* _redact_sensitive, on its way to whoever asks for the configuration.
Redacted(c) ==
    LET Hide(f) == [p \in Profiles |-> IF f[p] = 0 THEN 0 ELSE Mask] IN
    [c EXCEPT !.top = Hide(@), !.nested = Hide(@)]

\* activate_profile brings back the credentials of the day of the snapshot.
Stale(c) == \E p \in Profiles : Effective(c, p) \in spent[p]

Admin(j) ==
    /\ j \in Edits
    /\ Starts(j)
    /\ loop = {}

Edit(j) ==
    /\ Admin(j)
    /\ \/ ChangeValue(j, Load)
       \/ ChangeProfile(j, Load)
       \/ DeleteProfile(j, Load)
       \/ \E v \in Values : Replace(j, SetValue(Defaults, v), {})
    /\ loop' = {j}
    /\ UNCHANGED <<file, snapshots, loaded, spent, faults, intended>>

\* The dashboard gets the configuration, changes the default model and posts
\* the whole of it back, in two requests.
Fetch(j) ==
    /\ Admin(j)
    /\ job' = [job EXCEPT ![j] = [@ EXCEPT !.at = "fetched", !.config = Redacted(Load)]]
    /\ UNCHANGED <<file, torn, snapshots, loaded, loop, issued, spent, faults, intended,
                   harm>>

Post(j) ==
    LET c == job[j].config IN
    /\ job[j].at = "fetched" /\ Watched
    /\ loop = {}
    /\ \E v \in Values :
          Replace(j, SetValue(c, v), IF Present(c) # {} THEN {"masked"} ELSE {})
    /\ loop' = {j}
    /\ UNCHANGED <<file, snapshots, loaded, spent, faults, intended>>

\* save_profile keeps one snapshot under each name; one name here.
SaveSnapshot(j) ==
    /\ Admin(j)
    /\ snapshots' = {Load}
    /\ job' = [job EXCEPT ![j] = Done]
    /\ UNCHANGED <<file, torn, loaded, loop, issued, spent, faults, intended, harm>>

ActivateSnapshot(j) ==
    /\ Admin(j)
    /\ \E c \in snapshots : Replace(j, c, IF Stale(c) THEN {"token"} ELSE {})
    /\ loop' = {j}
    /\ UNCHANGED <<file, snapshots, loaded, spent, faults, intended>>

CommandLoads(j) ==
    /\ j \in Commands
    /\ Starts(j)
    /\ job' = [job EXCEPT ![j] = [@ EXCEPT !.at = "read", !.config = Load]]
    /\ harm' = harm \cup (IF loop # {} \/ Open # {} THEN {"overlap"} ELSE {})
    /\ UNCHANGED <<file, torn, snapshots, loaded, loop, issued, spent, faults, intended>>

CommandSaves(j) ==
    /\ j \in Commands
    /\ job[j].at = "read" /\ Watched
    /\ ChangeValue(j, job[j].config) \/ ChangeProfile(j, job[j].config)
    /\ UNCHANGED <<file, snapshots, loaded, loop, spent, faults, intended>>

-----------------------------------------------------------------------------
(* manager.py: resolve and list_models *)

\* resolve and list_models begin with reload().
BadReload(m) == UNCHANGED loaded
Reload(m) == loaded' = [loaded EXCEPT ![m] = Load]

Begin(j, m) ==
    /\ j \in Resolvers
    /\ Starts(j)
    /\ loop = {}
    /\ Reload(m)
    /\ loop' = {j}
    /\ job' = [job EXCEPT ![j] = Looking(m, FALSE)]
    /\ UNCHANGED <<file, torn, snapshots, issued, spent, faults, intended, harm>>

Looks(j) == j \in Resolvers /\ job[j].at = "looking"
Has(j, p) == Effective(loaded[job[j].manager], p)

\* _resolve_api_keys meets an expired profile: _try_refresh_oauth presents its
\* refresh token, and the provider hands out the next one.  A token it has seen
\* before it rejects, as it does the mask, and nothing changes.  When an access token expires is
\* left open: a profile may be met expired at any time.
Refresh(j, p) ==
    /\ Looks(j) /\ Watched
    /\ Has(j, p) \notin {0, Mask} \cup spent[p]
    /\ NewLogin(p)
    /\ spent' = [spent EXCEPT ![p] = @ \cup {Has(j, p)}]
    /\ \/ /\ job' = [job EXCEPT ![j] = [@ EXCEPT !.at = "refreshed", !.profile = p,
                                                 !.token = issued[p] + 1]]
          /\ UNCHANGED <<faults, harm>>
       \/ \* the answer is lost, or comes after the timeout
          /\ faults < MaxFaults
          /\ faults' = faults + 1
          /\ harm' = harm \cup {"token"}
          /\ UNCHANGED job
    /\ UNCHANGED <<file, torn, snapshots, loaded, loop, intended>>

\* The refreshed profile goes to auth_profiles, the whole _config to the file.
BadUpdated(k) == loaded[k.manager]
Updated(k) == SetProfile(loaded[k.manager], k.profile, k.token)

SaveRefreshed(j) ==
    LET k == job[j]
        c == Updated(k) IN
    /\ k.at = "refreshed"
    /\ loaded' = [loaded EXCEPT ![k.manager] = c]
    /\ Truncate(j, c, intended, {})
    /\ UNCHANGED <<file, snapshots, loop, issued, spent, faults, intended>>

\* An await, for a request that is the end of resolve.  A walk goes on.
Await(j) ==
    /\ Looks(j)
    /\ job' = [job EXCEPT ![j] = IF j \in Walks THEN [@ EXCEPT !.at = "away"] ELSE Done]
    /\ loop' = {}
    /\ UNCHANGED <<file, torn, snapshots, loaded, issued, spent, faults, intended, harm>>

\* The loop runs one job until its next await.
BadFree == TRUE
Free == loop = {}

Resume(j) ==
    /\ job[j].at = "away" /\ Watched
    /\ Free
    /\ loop' = {j}
    /\ job' = [job EXCEPT ![j] = Looking(@.manager, TRUE)]
    /\ UNCHANGED <<file, torn, snapshots, loaded, issued, spent, faults, intended, harm>>

-----------------------------------------------------------------------------
(* The environment *)

\* The server dies and starts again.  Commands and dashboards live on.
Crash ==
    /\ Watched
    /\ faults < MaxFaults
    /\ faults' = faults + 1
    /\ job' = [j \in Jobs |-> IF j \in Commands \/ job[j].at \in {"new", "fetched"}
                              THEN job[j] ELSE Done]
    /\ harm' = harm
          \cup (IF \E j \in loop : job[j].at = "saving" THEN {"torn"} ELSE {})
          \cup (IF \E j \in loop : job[j].at = "refreshed" THEN {"token"} ELSE {})
    /\ loop' = {}
    /\ loaded' = [m \in Managers |-> Load]
    /\ UNCHANGED <<file, torn, snapshots, issued, spent, intended>>

Next ==
    \/ \E j \in Resolvers : \/ \E m \in Managers : Begin(j, m)
                            \/ \E p \in Profiles : Refresh(j, p)
                            \/ SaveRefreshed(j) \/ Await(j) \/ Resume(j)
    \/ \E j \in Edits : \/ Edit(j) \/ Fetch(j) \/ Post(j)
                        \/ SaveSnapshot(j) \/ ActivateSnapshot(j)
    \/ \E j \in Commands : CommandLoads(j) \/ CommandSaves(j)
    \/ \E j \in Jobs : Write(j) \/ SaveFails(j)
    \/ Crash

Spec == Init /\ [][Next]_vars

-----------------------------------------------------------------------------
(* Properties *)

Quiet == loop = {} /\ Open = {}

Matches(c, w) == c.value = w.value /\ Present(c) = w.profiles

FileSaysWhatWasSaved == ~torn /\ Matches(file, intended)

\* Between jobs the file holds what the acknowledged edits add up to: none is
\* lost, no deleted profile is back, whatever refreshed tokens and other
\* edits were saved around it.  Excepted are a death or a full disk within a
\* save, a walk that saves after an await, and a command that overlaps with
\* another writer.
SavedChangesStay ==
    Quiet /\ harm \cap {"torn", "late", "overlap"} = {} => FileSaysWhatWasSaved

\* Between jobs no profile is left with a refresh token its provider has
\* already seen, so that it could never be refreshed again - but for the
\* cases above, an answer or a save lost after the rotation, a restored
\* snapshot, a posted copy with masks, and a profile hidden by one of the same id under auth.profiles.
TokensStayUsable ==
    Quiet /\ harm = {} =>
        \A p \in Profiles : file.nested[p] = 0 => file.top[p] \notin spent[p]

\* A request never presents a token a second time, whichever manager serves
\* it and however many providers and fallbacks it resolves.
RequestsPresentFreshTokens ==
    harm = {} =>
        \A j \in Requests, p \in Profiles :
            Looks(j) /\ loaded[job[j].manager].nested[p] = 0 => Has(j, p) \notin spent[p]

\* What the admin routes promise with "status: ok" (config_routes.py:137): the
\* change is saved.  A walk that saves after an await can undo it.
EditsSurviveWalks ==
    Quiet /\ harm \cap {"torn", "overlap"} = {} => FileSaysWhatWasSaved

\* What the dashboard says with "Saved" (templates/dashboard.html:424): the
\* settings are saved, and no credential of the file is replaced by its mask.
SettingsKeepCredentials ==
    Quiet => \A p \in Profiles : Effective(file, p) # Mask

\* The invariant behind SavedChangesStay: whatever is being, or may still be,
\* written back says what was acknowledged, and nobody else writes.
Calm == harm \cap {"torn", "late", "overlap"} = {}

Saving(j) == job[j].at = "saving"

TornWhileSaving == torn <=> \E j \in Jobs : Saving(j)

OneWriter ==
    /\ \A c \in Commands : Saving(c) => Open = {c}
    /\ \A j \in Jobs \ Commands : Saving(j) => Open = {}

WritersAreUpToDate ==
    /\ \A j \in Jobs : Saving(j) => Matches(job[j].config, job[j].wanted)
    /\ \A c \in Commands : job[c].at = "read" => Matches(job[c].config, intended)
    /\ \A j \in Resolvers :
          Saving(j) => /\ loaded[job[j].manager] = job[j].config
                       /\ job[j].wanted = intended

\* A resolver that found the file torn has no profile to refresh.
ResolversAreUpToDate ==
    \A j \in Resolvers :
        LET c == loaded[job[j].manager] IN
        /\ Looks(j) /\ ~job[j].late =>
              \/ Present(c) = {}
              \/ Matches(c, intended) /\ \A i \in Commands : ~Saving(i)
        /\ job[j].at = "refreshed" /\ ~job[j].late =>
              /\ Matches(c, intended)
              /\ job[j].profile \in Present(c)
              /\ job[j].token # 0
              /\ \A i \in Commands : ~Saving(i)

SavedInv ==
    Calm => /\ Matches(file, intended)
            /\ TornWhileSaving
            /\ OneWriter
            /\ WritersAreUpToDate
            /\ ResolversAreUpToDate
=============================================================================
