---------------------------- MODULE SettingsPage ----------------------------
(***************************************************************************)
(* The settings page (src/console/src/pages/Settings.tsx), the copy it     *)
(* keeps in localStorage, and the copy the API keeps in memory             *)
(* (src/api/handlers/settings.go).                                         *)
(*                                                                         *)
(* Requests reach the server and are answered in any order, may fail       *)
(* before or after they reached it, and outlive the page that made them: a *)
(* load that is answered after the page was left still writes the copy.    *)
(***************************************************************************)
EXTENDS Integers, Sequences, FiniteSets, SequencesExt, Shell

CONSTANTS
    Values,       \* settings, among them:
    DEFAULTS,
    Refused,      \* those validateSettings refuses, an empty host for instance
    MaxRequests,  \* bound: requests under way
    MaxRestarts   \* bound: restarts of the API process

ASSUME SettingsAssumption ==
    /\ DEFAULTS \in Values /\ Refused \subseteq Values \ {DEFAULTS}
    /\ MaxRequests \in Nat /\ MaxRestarts \in Nat

VARIABLES
    settings,   \* the form
    saved,      \* the button reads "saved"
    savedTimers,\* timers that will end that
    stored,     \* localStorage: a set with the value or empty
    server,     \* the API's copy
    sent,       \* requests: [kind, value, stage, from]
    restarts,
    calm,       \* history: no request met another since there was none
    apart       \* history: a failure, a refusal, a restart or requests that
                \* overlapped may have left the copies different

settingsVars == <<settings, saved, savedTimers, stored, server, sent, restarts, calm, apart>>

loadFromStorage == IF stored = {} THEN DEFAULTS ELSE CHOOSE v \in stored : TRUE

(* A request is sent; the page that sends it is mounted. *)
Send(kind, value) ==
    /\ Len(sent) < MaxRequests
    /\ sent' = Append(sent, [kind |-> kind, value |-> value, stage |-> "sent", from |-> "mounted"])
    /\ calm' = (sent = <<>>)
    /\ apart' = (apart \/ sent # <<>>)

SettingsInit ==
    /\ settings = DEFAULTS /\ saved = FALSE /\ savedTimers = 0
    /\ stored = {} /\ server = DEFAULTS /\ sent = <<>>
    /\ restarts = 0 /\ calm = TRUE /\ apart = FALSE

-----------------------------------------------------------------------------
(* The page mounts with the stored copy and asks for the server's. *)
MountSettings ==
    /\ settings' = loadFromStorage
    /\ Send("get", DEFAULTS)
    /\ UNCHANGED <<saved, savedTimers, stored, server, restarts>>

(* The page is left, or the application is loaded again, after which the     *)
(* answers to come are not heard at all.                                     *)
LeaveSettings(heard) ==
    /\ settings' = DEFAULTS /\ saved' = FALSE /\ savedTimers' = 0
    /\ sent' = [i \in DOMAIN sent |->
                  [sent[i] EXCEPT !.from = IF heard /\ @ # "gone" THEN "left" ELSE "gone"]]
    /\ apart' = (apart \/ (~heard /\ sent # <<>>))
    /\ UNCHANGED <<stored, server, restarts, calm>>

set(v) ==
    /\ On("settings") /\ settings # v
    /\ settings' = v /\ saved' = FALSE
    /\ UNCHANGED <<savedTimers, stored, server, sent, restarts, calm, apart>>

handleSave ==
    /\ On("settings")
    /\ stored' = {settings}
    /\ Send("put", settings)
    /\ UNCHANGED <<settings, saved, savedTimers, server, restarts>>

(* Offered while the form differs from the defaults. *)
handleResetSettings_KeepsStored ==
    /\ On("settings") /\ settings # DEFAULTS
    /\ settings' = DEFAULTS /\ saved' = FALSE
    /\ Send("reset", DEFAULTS)
    /\ UNCHANGED <<stored, savedTimers, server, restarts>>

handleResetSettings ==
    /\ On("settings") /\ settings # DEFAULTS
    /\ stored' = {} /\ settings' = DEFAULTS /\ saved' = FALSE
    /\ Send("reset", DEFAULTS)
    /\ UNCHANGED <<savedTimers, server, restarts>>

SavedTimerFires ==
    /\ savedTimers > 0 /\ savedTimers' = savedTimers - 1 /\ saved' = FALSE
    /\ UNCHANGED <<settings, stored, server, sent, restarts, calm, apart>>

-----------------------------------------------------------------------------
(* The API handles a request: ServeHTTP's GET and PUT, and ResetHandler. *)
Serve(i) ==
    LET r == sent[i]
        refused == r.kind = "put" /\ r.value \in Refused
    IN  /\ r.stage = "sent"
        /\ server' = IF r.kind = "get" \/ refused THEN server ELSE r.value
        /\ sent' = [sent EXCEPT ![i].stage = "served",
                                ![i].value = IF r.kind = "get" THEN server ELSE r.value]
        /\ apart' = (apart \/ refused)
        /\ UNCHANGED <<settings, saved, savedTimers, stored, restarts, calm>>

(* A load that ran alone leaves the copies equal, whatever they were. *)
LoadAnswered_FormOnly(r) ==
    /\ UNCHANGED stored
    /\ settings' = IF r.from = "mounted" THEN r.value ELSE settings
    /\ apart' = IF calm /\ r.from # "gone" THEN FALSE ELSE apart
    /\ UNCHANGED <<saved, savedTimers>>

LoadAnswered(r) ==
    /\ stored' = IF r.from = "gone" THEN stored ELSE {r.value}
    /\ settings' = IF r.from = "mounted" THEN r.value ELSE settings
    /\ apart' = IF calm /\ r.from # "gone" THEN FALSE ELSE apart
    /\ UNCHANGED <<saved, savedTimers>>

(* A save reads "saved" whatever the answer was; a reset does nothing more.  *)
WriteSettled(r) ==
    /\ IF r.kind = "put" /\ r.from = "mounted"
       THEN saved' = TRUE /\ savedTimers' = savedTimers + 1
       ELSE UNCHANGED <<saved, savedTimers>>
    /\ UNCHANGED <<settings, stored>>

Settle(i) ==
    LET r == sent[i]
    IN  /\ \/ /\ r.stage = "served"
              /\ IF r.kind = "get" THEN LoadAnswered(r) ELSE WriteSettled(r) /\ UNCHANGED apart
           \/ IF r.kind = "get" THEN UNCHANGED <<settings, saved, savedTimers, stored, apart>>
              ELSE WriteSettled(r) /\ apart' = TRUE
        /\ savedTimers' <= MaxRequests
        /\ sent' = RemoveAt(sent, i)
        /\ UNCHANGED <<server, restarts, calm>>

(* The API process restarts: its copy was in memory only. *)
Restart ==
    /\ restarts < MaxRestarts /\ restarts' = restarts + 1
    /\ server' = DEFAULTS
    /\ calm' = (sent = <<>>) /\ apart' = TRUE
    /\ UNCHANGED <<settings, saved, savedTimers, stored, sent>>

SettingsStep ==
    \/ handleSave \/ handleResetSettings \/ SavedTimerFires \/ Restart
    \/ \E v \in Values : set(v)
    \/ \E i \in DOMAIN sent : Serve(i) \/ Settle(i)

-----------------------------------------------------------------------------
(* With no request under way the browser's copy of the settings is the       *)
(* server's: saves and resets that succeed one at a time keep them equal,    *)
(* and a load that runs alone makes them equal again after failures,         *)
(* refusals, restarts and requests that overlapped.                          *)
CopiesAgree == sent = <<>> /\ ~apart => loadFromStorage = server

(* The inductive invariant behind it.  A calm request is alone, and requests *)
(* that met leave the copies apart.  While they are not, a load finds them   *)
(* equal, and a write has reached the browser's copy first and the server's  *)
(* when it was served.                                                       *)
Requests == [kind : {"get", "put", "reset"}, value : Values,
             stage : {"sent", "served"}, from : {"mounted", "left", "gone"}]

SettingsTypeOK ==
    /\ settings \in Values /\ server \in Values
    /\ stored = {} \/ \E v \in Values : stored = {v}
    /\ sent \in Seq(Requests) /\ calm \in BOOLEAN /\ apart \in BOOLEAN

SettingsInv ==
    /\ SettingsTypeOK
    /\ calm => Len(sent) <= 1
    /\ apart \/ calm
    /\ calm /\ sent # <<>> /\ sent[1].kind = "get" /\ sent[1].stage = "served"
         => sent[1].value = server
    /\ ~apart => IF sent = <<>> \/ sent[1].kind = "get" THEN loadFromStorage = server
                 ELSE /\ loadFromStorage = sent[1].value
                      /\ sent[1].stage = "served" => server = sent[1].value
=============================================================================
