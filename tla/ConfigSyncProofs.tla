-------------------------- MODULE ConfigSyncProofs --------------------------
(***************************************************************************)
(* For any number of requests and persons, and any number of failures,     *)
(* restarts and boots: what was saved is live, on its way, reported as     *)
(* failed, or lost in one of the named ways; and no file is behind the     *)
(* database without the status file or "lost" saying so.                   *)
(*                                                                         *)
(* The two invariants need each other.  A reload empties "behind" of what  *)
(* Asterisk has read, but not of what it has read from a stale file: that  *)
(* such a step is reported is StatusHonest.                                *)
(*                                                                         *)
(* And while nothing fails, the running dialplan leaves out exactly those  *)
(* the watcher has decided on, but for the reload it awaits.               *)
(***************************************************************************)
EXTENDS ConfigSync, TLAPS

\* Asterisk cannot be ahead of the files.
StaleIsBehind == stale \subseteq behind

\* A trunk's file that outlives its row is nobody's to render.
TrunkForgotten == "trunk" \in stale /\ ~hasTrunk => "trunk" \in lost

IInv == TypeOK /\ StaleIsBehind /\ TrunkForgotten /\ StatusHonest /\ SavedIsLive

\* What the proof needs of ModuleOf.
LEMMA ModuleFacts ==
  /\ ModuleOf \in [Steps -> Modules]
  /\ ModuleOf["routing"] = "dialplan"
  /\ "routing" \in Steps
BY DEF ModuleOf, Steps, Modules

LEMMA WantedType ==
  ASSUME NEW ok \in SUBSET Steps
  PROVE  /\ EachModule[ok] = {ModuleOf[s] : s \in ok}
         /\ NotVoicemail[ok] = {ModuleOf[s] : s \in ok \ {"voicemail"}}
         /\ AllModules[ok] = Modules
<1>1. EachModule[ok] = {ModuleOf[s] : s \in ok}
  BY DEF EachModule
<1>2. ok \ {"voicemail"} \in SUBSET Steps
  OBVIOUS
<1>3. EachModule[ok \ {"voicemail"}] = {ModuleOf[s] : s \in ok \ {"voicemail"}}
  BY <1>2 DEF EachModule
<1>4. QED
  BY <1>1, <1>3 DEF NotVoicemail, AllModules

\* What a request does, for any changes and steps: the reloads it keeps cover
\* every step that has succeeded, but for the forgotten ones.
LEMMA SaveKeeps ==
  ASSUME IInv, NEW r \in Requests, NEW changed \in SUBSET Steps,
         NEW steps \in SUBSET Steps, NEW forgotten \in SUBSET Steps, NEW wanted,
         changed \subseteq steps \cup forgotten,
         \A ok \in SUBSET Steps :
           /\ wanted[ok] \in SUBSET Modules
           /\ \A s \in ok \ forgotten : ModuleOf[s] \in wanted[ok],
         Save(r, changed, steps, forgotten, wanted),
         hasTrunk' \in BOOLEAN, trunkSave' \in SUBSET Requests,
         \/ hasTrunk'
         \/ "trunk" \in changed \cap forgotten
         \/ "trunk" \notin changed /\ ~hasTrunk
  PROVE  IInv'
<1>1. PICK bad \in SUBSET steps :
        /\ Render(changed, steps, bad)
        /\ \/ \E previous \in {failed, {}} :
                /\ faults' = faults \/ Fault
                /\ UNCHANGED changes
                /\ failed' = Merged(previous, steps \cup forgotten, bad)
                /\ reloads' = [reloads EXCEPT ![r] = wanted[Succeeded(steps, bad)]]
                /\ lost' = lost \cup ((forgotten \cup (failed \ (previous \cup steps)))
                                        \cap behind')
           \/ /\ Fault
              /\ UNCHANGED <<failed, reloads>>
              /\ lost' = lost \cup changed \cup (steps \cap behind)
  BY DEF Save, NoFault, Fault, bounds
<1>2. /\ reloads[r] = {}
      /\ behind' = behind \cup changed
      /\ UNCHANGED <<liveExcl, home, excluded, watcher, seen>>
  BY DEF Save, presenceVars
<1>3. Succeeded(steps, bad) \in SUBSET Steps /\ Succeeded(steps, bad) = steps \ bad
  BY DEF Succeeded
<1>4. TypeOK'
  <2>1. faults' \in 0 .. MaxFaults /\ changes' \in 0 .. MaxChanges
    BY <1>1, BoundsAssumption DEF IInv, TypeOK, Fault
  <2>2. reloads' \in [Requests -> SUBSET Modules]
    BY <1>1, <1>3 DEF IInv, TypeOK
  <2>3. failed' \in SUBSET Steps /\ lost' \in SUBSET Steps /\ behind' \in SUBSET Steps
    BY <1>1, <1>2 DEF IInv, TypeOK, Merged
  <2>4. stale' \in SUBSET Steps /\ confExcl' \in SUBSET Persons
    BY <1>1 DEF IInv, TypeOK, Render
  <2>5. QED
    BY <1>2, <2>1, <2>2, <2>3, <2>4 DEF IInv, TypeOK
<1>5. StaleIsBehind' /\ StatusHonest' /\ TrunkForgotten'
  BY <1>1, <1>2 DEF IInv, StaleIsBehind, StatusHonest, TrunkForgotten, Render, Merged
<1>6. SavedIsLive'
  <2> SUFFICES ASSUME NEW s \in behind', s \notin lost' \cup failed'
               PROVE  \/ \E q \in Requests : ModuleOf[s] \in reloads'[q]
                      \/ s = "routing" /\ watcher' = "reloading"
    BY DEF SavedIsLive
  <2>1. s \in Steps
    BY <1>2 DEF IInv, TypeOK
  <2>2. CASE s \in steps \ bad /\ s \notin forgotten
    BY <1>1, <1>2, <1>3, <2>1, <2>2 DEF IInv, TypeOK
  <2>3. CASE s \notin steps
    <3>1. s \in behind /\ s \notin lost \cup failed
      BY <1>1, <1>2, <2>3 DEF Merged
    <3>2. PICK q \in Requests \cup {r} :
            ModuleOf[s] \in reloads[q] \/ (s = "routing" /\ watcher = "reloading")
      BY <3>1 DEF IInv, SavedIsLive
    <3>3. QED
      BY <1>1, <1>2, <3>2 DEF IInv, TypeOK
  <2>4. CASE s \in bad \/ s \in steps \cap forgotten
    BY <1>1, <1>2, <2>4 DEF Merged
  <2>5. QED
    BY <2>2, <2>3, <2>4
<1>7. QED
  BY <1>4, <1>5, <1>6 DEF IInv

\* The requests of the program are of that kind.
LEMMA RequestsKeep ==
  ASSUME IInv, NEW r \in Requests,
         \/ SaveExtension(r) \/ SaveRouting(r) \/ SaveTrunk(r) \/ SaveSmtp(r)
         \/ PairingEnablesVideo(r) \/ ImportBackup(r)
  PROVE  IInv'
<1>1. /\ hasTrunk' \in BOOLEAN
      /\ trunkSave' \in SUBSET Requests
  BY DEF IInv, TypeOK, SaveExtension, SaveRouting, SaveTrunk, SaveSmtp,
         PairingEnablesVideo, ImportBackup, Going
<1>2. \A ok \in SUBSET Steps :
        /\ EachModule[ok] \in SUBSET Modules
        /\ NotVoicemail[ok] \in SUBSET Modules
        /\ AllModules[ok] \in SUBSET Modules
        /\ \A s \in ok : ModuleOf[s] \in EachModule[ok] \cap AllModules[ok]
        /\ \A s \in ok \ {"voicemail"} : ModuleOf[s] \in NotVoicemail[ok]
  BY WantedType, ModuleFacts
<1>3. CASE SaveExtension(r) \/ SaveRouting(r) \/ SaveTrunk(r) \/ SaveSmtp(r)
  <2>1. PICK changed \in SUBSET Steps :
          /\ Save(r, changed, changed, {}, EachModule)
          /\ hasTrunk' \/ ("trunk" \notin changed /\ ~hasTrunk)
    BY <1>1, <1>3 DEF IInv, TypeOK, SaveExtension, SaveRouting, SaveTrunk, SaveSmtp,
                      Bundle, Steps
  <2>2. QED
    BY <1>1, <1>2, <2>1, SaveKeeps
<1>4. CASE PairingEnablesVideo(r)
  <2>1. /\ Save(r, {"extensions", "routing"}, Bundle, {"voicemail"}, NotVoicemail)
        /\ hasTrunk' \/ ~hasTrunk
    BY <1>4 DEF IInv, TypeOK, PairingEnablesVideo
  <2>2. /\ {"extensions", "routing"} \in SUBSET Steps /\ Bundle \in SUBSET Steps
        /\ {"voicemail"} \in SUBSET Steps
        /\ {"extensions", "routing"} \subseteq Bundle \cup {"voicemail"}
        /\ "trunk" \notin {"extensions", "routing"}
    BY DEF Bundle, Steps
  <2>3. PICK changed \in SUBSET Steps, forgotten \in SUBSET Steps :
          /\ changed \subseteq Bundle \cup forgotten /\ "trunk" \notin changed
          /\ forgotten = {"voicemail"}
          /\ Save(r, changed, Bundle, forgotten, NotVoicemail)
    BY <2>1, <2>2, Zenon
  <2>4. \A ok \in SUBSET Steps :
          /\ NotVoicemail[ok] \in SUBSET Modules
          /\ \A s \in ok \ forgotten : ModuleOf[s] \in NotVoicemail[ok]
    BY <1>2, <2>3
  <2>5. QED
    BY <1>1, <2>1, <2>2, <2>3, <2>4, SaveKeeps
<1>5. CASE ImportBackup(r)
  <2>1. PICK changed \in SUBSET Steps, steps \in SUBSET Steps,
             forgotten \in SUBSET Steps :
          /\ changed \subseteq steps \cup forgotten
          /\ Save(r, changed, steps, forgotten, AllModules)
          /\ \/ hasTrunk'
             \/ "trunk" \in changed \cap forgotten
             \/ "trunk" \notin changed /\ ~hasTrunk
    <3>1. CASE hasTrunk' /\ Save(r, Steps, Steps, {}, AllModules)
      BY <3>1
    <3>2. CASE Save(r, IF hasTrunk THEN Steps ELSE Steps \ {"trunk"},
                    Steps \ {"trunk"}, {"trunk"}, AllModules)
      <4>1. /\ (IF hasTrunk THEN Steps ELSE Steps \ {"trunk"}) \in SUBSET Steps
            /\ {"trunk"} \in SUBSET Steps
        BY DEF Steps
      <4>2. QED
        BY <3>2, <4>1
    <3>3. QED
      BY <1>5, <3>1, <3>2 DEF ImportBackup
  <2>2. QED
    BY <1>1, <1>2, <2>1, SaveKeeps
<1>6. QED
  BY <1>3, <1>4, <1>5

-----------------------------------------------------------------------------
\* A reload, taken or lost: what module m reads is settled, the rest is as before.
LEMMA ReloadSettles ==
  ASSUME IInv, NEW m \in Modules, ReloadModule(m),
         UNCHANGED <<stale, failed, confExcl>>
  PROVE  /\ behind' \in SUBSET Steps /\ lost' \in SUBSET Steps
         /\ liveExcl' \in SUBSET Persons
         /\ faults' \in 0 .. MaxFaults /\ changes' \in 0 .. MaxChanges
         /\ StaleIsBehind' /\ StatusHonest'
         /\ hasTrunk' = hasTrunk => TrunkForgotten'
         /\ \A s \in behind' \ (lost' \cup failed') :
              s \in behind \ (lost \cup failed) /\ ModuleOf[s] # m
<1>1. CASE NoFault /\ AsteriskReads(m)
  BY <1>1 DEF IInv, TypeOK, StaleIsBehind, TrunkForgotten, StatusHonest, NoFault, bounds,
              AsteriskReads, ReadBy
<1>2. CASE Fault /\ UNCHANGED <<behind, liveExcl>>
           /\ lost' = lost \cup (ReadBy(m) \cap behind)
  BY <1>2, BoundsAssumption
     DEF IInv, TypeOK, StaleIsBehind, TrunkForgotten, StatusHonest, Fault, ReadBy
<1>3. QED
  BY <1>1, <1>2 DEF ReloadModule

LEMMA ReloadKeeps ==
  ASSUME IInv, NEW r \in Requests, Reload(r)
  PROVE  IInv'
<1>1. PICK m \in reloads[r] :
        ReloadModule(m) /\ reloads' = [reloads EXCEPT ![r] = @ \ {m}]
  BY DEF Reload
<1>2. /\ UNCHANGED <<stale, failed, hasTrunk, confExcl, home, excluded, watcher, seen>>
      /\ trunkSave' \in SUBSET Requests
  BY DEF IInv, TypeOK, Reload, Going, presenceVars
<1>3. m \in Modules /\ reloads' \in [Requests -> SUBSET Modules]
  BY <1>1 DEF IInv, TypeOK
<1>4. TypeOK' /\ StaleIsBehind' /\ TrunkForgotten' /\ StatusHonest'
  BY <1>1, <1>2, <1>3, ReloadSettles DEF IInv, TypeOK
<1>5. SavedIsLive'
  <2> SUFFICES ASSUME NEW s \in behind', s \notin lost' \cup failed'
               PROVE  \/ \E q \in Requests : ModuleOf[s] \in reloads'[q]
                      \/ s = "routing" /\ watcher' = "reloading"
    BY DEF SavedIsLive
  <2>1. s \in behind \ (lost \cup failed) /\ ModuleOf[s] # m
    BY <1>1, <1>2, <1>3, ReloadSettles
  <2>2. CASE s = "routing" /\ watcher = "reloading"
    BY <1>2, <2>2
  <2>3. ASSUME NEW q \in Requests, ModuleOf[s] \in reloads[q]
        PROVE  ModuleOf[s] \in reloads'[q]
    BY <1>1, <2>1, <2>3 DEF IInv, TypeOK
  <2>4. QED
    BY <2>1, <2>2, <2>3 DEF IInv, SavedIsLive
<1>6. QED
  BY <1>4, <1>5 DEF IInv

-----------------------------------------------------------------------------
LEMMA PresenceKeeps ==
  ASSUME IInv, PersonMoves \/ PresenceFetched \/ PresenceApplies \/ PresenceReloads
  PROVE  IInv'
<1>1. CASE PersonMoves
  <2>1. TypeOK'
    BY <1>1, BoundsAssumption DEF IInv, TypeOK, PersonMoves, Change, syncVars
  <2>2. QED
    BY <1>1, <2>1 DEF IInv, StaleIsBehind, TrunkForgotten, StatusHonest,
                  SavedIsLive, PersonMoves, syncVars
<1>2. CASE PresenceFetched
  <2>1. \A known \in SUBSET Persons : Excluded(known) \in SUBSET Persons
    BY DEF Excluded
  <2>2. /\ seen' \in SUBSET Persons /\ watcher' = "fetched" /\ watcher = "sleeping"
        /\ faults' \in 0 .. MaxFaults /\ changes' = changes
        /\ UNCHANGED <<syncVars, home, excluded>>
    BY <1>2, <2>1, BoundsAssumption
       DEF IInv, TypeOK, PresenceFetched, NoFault, Fault, bounds
  <2>3. QED
    BY <2>2 DEF IInv, TypeOK, StaleIsBehind, TrunkForgotten, StatusHonest,
                  SavedIsLive, syncVars
<1>3. CASE PresenceApplies
  <2>1. /\ stale' \in SUBSET stale /\ watcher = "fetched"
        /\ watcher' \in {"sleeping", "reloading"}
        /\ excluded' \in SUBSET Persons /\ confExcl' \in SUBSET Persons /\ seen' = {}
        /\ faults' \in 0 .. MaxFaults /\ changes' = changes
        /\ UNCHANGED <<behind, failed, hasTrunk, reloads, trunkSave, liveExcl, lost, home>>
    BY <1>3, BoundsAssumption DEF IInv, TypeOK, PresenceApplies, NoFault, Fault, bounds
  <2>2. QED
    BY <2>1 DEF IInv, TypeOK, StaleIsBehind, TrunkForgotten, StatusHonest,
                  SavedIsLive
<1>4. CASE PresenceReloads
  <2>1. /\ ReloadModule("dialplan") /\ watcher' = "sleeping"
        /\ UNCHANGED <<stale, failed, hasTrunk, reloads, trunkSave, confExcl,
                       home, excluded, seen>>
    BY <1>4 DEF PresenceReloads
  <2>2. "dialplan" \in Modules
    BY DEF Modules
  <2>3. TypeOK' /\ StaleIsBehind' /\ TrunkForgotten' /\ StatusHonest'
    BY <2>1, <2>2, ReloadSettles DEF IInv, TypeOK
  <2>4. SavedIsLive'
    BY <2>1, <2>2, ReloadSettles, ModuleFacts DEF IInv, SavedIsLive
  <2>5. QED
    BY <2>3, <2>4 DEF IInv
<1>5. QED
  BY <1>1, <1>2, <1>3, <1>4

\* A restart leaves nobody to wait for: what is behind is stale, or lost.
LEMMA RestartsKeep ==
  ASSUME IInv, SaveOnly \/ BackendRestarts \/ AsteriskRestarts \/ Boot
  PROVE  IInv'
<1>1. CASE SaveOnly
  <2>1. TypeOK'
    BY <1>1 DEF IInv, TypeOK, SaveOnly, Steps, NoFault, bounds, presenceVars
  <2>2. QED
    BY <1>1, <2>1 DEF IInv, StaleIsBehind, TrunkForgotten, StatusHonest,
                  SavedIsLive, SaveOnly, presenceVars
<1>2. CASE BackendRestarts
  <2>1. TypeOK'
    BY <1>2, BoundsAssumption DEF IInv, TypeOK, BackendRestarts, Fault
  <2>2. QED
    BY <1>2, <2>1 DEF IInv, StaleIsBehind, TrunkForgotten, StatusHonest,
                  SavedIsLive, BackendRestarts
<1>3. CASE AsteriskRestarts
  <2>1. TypeOK'
    BY <1>3, BoundsAssumption DEF IInv, TypeOK, AsteriskRestarts, Change, presenceVars
  <2>2. QED
    BY <1>3, <2>1 DEF IInv, StaleIsBehind, TrunkForgotten, StatusHonest,
                  SavedIsLive, AsteriskRestarts
<1>4. CASE Boot
  <2> DEFINE steps == IF hasTrunk THEN Steps ELSE Steps \ {"trunk"}
  <2>1. PICK bad \in SUBSET steps, written \in BOOLEAN :
          /\ faults' = faults \/ (faults < MaxFaults /\ faults' = faults + 1)
          /\ stale' = stale \ (steps \ bad)
          /\ confExcl' = IF "routing" \in bad THEN confExcl ELSE {}
          /\ failed' = IF written THEN Merged(failed, Steps, bad) ELSE failed
    BY <1>4 DEF Boot
  <2>2. /\ changes' = changes + 1 /\ changes < MaxChanges
        /\ behind' = stale' /\ liveExcl' = confExcl' /\ lost' = lost \cap stale'
        /\ reloads' = [r \in Requests |-> {}] /\ trunkSave' = {}
        /\ excluded' = {} /\ watcher' = "sleeping" /\ seen' = {}
        /\ UNCHANGED <<hasTrunk, home>>
    BY <1>4 DEF Boot
  <2>3. TypeOK'
    BY <2>1, <2>2, BoundsAssumption DEF IInv, TypeOK, Merged
  <2>4. StatusHonest'
    BY <2>1, <2>2 DEF IInv, TypeOK, TrunkForgotten, StatusHonest, Merged
  <2>5. QED
    BY <2>1, <2>2, <2>3, <2>4
       DEF IInv, StaleIsBehind, TrunkForgotten, StatusHonest, SavedIsLive
<1>5. QED
  BY <1>1, <1>2, <1>3, <1>4

-----------------------------------------------------------------------------
LEMMA InitIInv == Init => IInv
<1> SUFFICES ASSUME Init PROVE IInv
  OBVIOUS
<1>1. TypeOK
  <2>1. hasTrunk \in BOOLEAN /\ reloads \in [Requests -> SUBSET Modules]
    BY DEF Init
  <2>2. faults \in 0 .. MaxFaults /\ changes \in 0 .. MaxChanges
    BY BoundsAssumption DEF Init
  <2>3. QED
    BY <2>1, <2>2 DEF Init, TypeOK
<1>2. QED
  BY <1>1 DEF Init, IInv, StaleIsBehind, TrunkForgotten, StatusHonest, SavedIsLive

LEMMA StutterKeeps == IInv /\ UNCHANGED vars => IInv'
BY DEF vars, syncVars, presenceVars, bounds, IInv, TypeOK, StaleIsBehind,
       TrunkForgotten, StatusHonest, SavedIsLive

LEMMA Invariance == Spec => []IInv
<1>1. IInv /\ [Next]_vars => IInv'
  <2> SUFFICES ASSUME IInv, [Next]_vars PROVE IInv'
    OBVIOUS
  <2>1. ASSUME NEW r \in Requests,
               \/ SaveExtension(r) \/ SaveRouting(r) \/ SaveTrunk(r) \/ SaveSmtp(r)
               \/ PairingEnablesVideo(r) \/ ImportBackup(r)
        PROVE  IInv'
    BY <2>1, RequestsKeep
  <2>2. ASSUME NEW r \in Requests, Reload(r) PROVE IInv'
    BY <2>2, ReloadKeeps
  <2>3. CASE PersonMoves \/ PresenceFetched \/ PresenceApplies \/ PresenceReloads
    BY <2>3, PresenceKeeps
  <2>4. CASE SaveOnly \/ BackendRestarts \/ AsteriskRestarts \/ Boot
    BY <2>4, RestartsKeep
  <2>5. CASE UNCHANGED vars
    BY <2>5, StutterKeeps
  <2>6. QED
    BY <2>1, <2>2, <2>3, <2>4, <2>5 DEF Next
<1>2. QED
  BY <1>1, InitIInv, PTL DEF Spec

\* Every variable keeps its type, whatever the requests, the watcher, restarts and
\* boots do.
THEOREM TypeCorrect == Spec => []TypeOK
<1>1. IInv => TypeOK
  BY DEF IInv
<1>2. QED
  BY <1>1, Invariance, PTL

\* What was saved and is not live yet is awaited by a request or by the watcher,
\* reported as failed, or lost in a named way (run_regeneration_steps and the
\* handlers that reload what it rendered).
THEOREM SavedIsLiveAlways == Spec => []SavedIsLive
<1>1. IInv => SavedIsLive
  BY DEF IInv
<1>2. QED
  BY <1>1, Invariance, PTL

\* The status file never hides a file that is behind the database (the merge in
\* run_regeneration_steps), but for what was lost in a named way.
THEOREM StatusHonestAlways == Spec => []StatusHonest
<1>1. IInv => StatusHonest
  BY DEF IInv
<1>2. QED
  BY <1>1, Invariance, PTL

-----------------------------------------------------------------------------
(* Who is left out of the running dialplan.  While nothing has failed, the *)
(* file leaves out whoever the watcher has decided on: every render that   *)
(* writes it reads the same set, and a boot, which leaves nobody out,      *)
(* starts a watcher that has decided nothing yet.                          *)

Settled == faults = 0 => /\ confExcl = excluded
                         /\ watcher # "reloading" => liveExcl = confExcl

\* A failure is never taken back.
LEMMA FaultCounts ==
  ASSUME TypeOK, Fault
  PROVE  faults' # 0
BY DEF TypeOK, Fault

LEMMA SaveSettled ==
  ASSUME TypeOK, Settled, NEW r, NEW changed, NEW steps, NEW forgotten, NEW wanted,
         Save(r, changed, steps, forgotten, wanted)
  PROVE  Settled'
<1>1. PICK bad \in SUBSET steps : Render(changed, steps, bad)
  BY DEF Save
<1>2. faults' = faults \/ Fault
  BY DEF Save, NoFault, bounds
<1>3. UNCHANGED <<liveExcl, excluded, watcher>>
  BY DEF Save, presenceVars
<1>4. CASE Fault
  BY <1>4, FaultCounts DEF Settled
<1>5. CASE faults' = faults
  BY <1>1, <1>3, <1>5 DEF Settled, Render
<1>6. QED
  BY <1>2, <1>4, <1>5

\* A reload leaves the file alone; one of the dialplan makes it live.
LEMMA ReloadModuleSettled ==
  ASSUME TypeOK, faults' = 0, NEW m, ReloadModule(m)
  PROVE  /\ faults = 0
         /\ liveExcl' = IF m = "dialplan" THEN confExcl ELSE liveExcl
BY FaultCounts DEF ReloadModule, AsteriskReads, NoFault, bounds

LEMMA RequestsSettled ==
  ASSUME TypeOK, Settled, NEW r \in Requests,
         \/ SaveExtension(r) \/ SaveRouting(r) \/ SaveTrunk(r) \/ SaveSmtp(r)
         \/ PairingEnablesVideo(r) \/ ImportBackup(r) \/ Reload(r)
  PROVE  Settled'
<1>1. CASE Reload(r)
  <2>1. PICK m \in reloads[r] : ReloadModule(m)
    BY <1>1 DEF Reload
  <2>2. UNCHANGED <<confExcl, excluded, watcher>>
    BY <1>1 DEF Reload, presenceVars
  <2>3. QED
    BY <2>1, <2>2, ReloadModuleSettled DEF Settled
<1>2. CASE SaveExtension(r)
  BY <1>2, SaveSettled DEF SaveExtension
<1>3. CASE SaveRouting(r)
  BY <1>3, SaveSettled DEF SaveRouting
<1>4. CASE SaveTrunk(r)
  BY <1>4, SaveSettled DEF SaveTrunk
<1>5. CASE SaveSmtp(r)
  BY <1>5, SaveSettled DEF SaveSmtp
<1>6. CASE PairingEnablesVideo(r)
  BY <1>6, SaveSettled DEF PairingEnablesVideo
<1>7. CASE ImportBackup(r)
  <2>1. PICK changed, steps, forgotten : Save(r, changed, steps, forgotten, AllModules)
    BY <1>7 DEF ImportBackup
  <2>2. QED
    BY <2>1, SaveSettled
<1>8. QED
  BY <1>1, <1>2, <1>3, <1>4, <1>5, <1>6, <1>7

LEMMA PresenceSettled ==
  ASSUME TypeOK, Settled,
         PersonMoves \/ PresenceFetched \/ PresenceApplies \/ PresenceReloads
  PROVE  Settled'
<1>1. CASE PersonMoves
  BY <1>1 DEF Settled, PersonMoves, Change, syncVars
<1>2. CASE PresenceFetched
  BY <1>2, FaultCounts DEF Settled, PresenceFetched, NoFault, bounds, syncVars
<1>3. CASE PresenceApplies
  BY <1>3, FaultCounts DEF Settled, PresenceApplies, NoFault, bounds
<1>4. CASE PresenceReloads
  BY <1>4, ReloadModuleSettled DEF Settled, PresenceReloads
<1>5. QED
  BY <1>1, <1>2, <1>3, <1>4

LEMMA RestartsSettled ==
  ASSUME TypeOK, Settled, SaveOnly \/ BackendRestarts \/ AsteriskRestarts \/ Boot
  PROVE  Settled'
<1>1. CASE SaveOnly
  BY <1>1 DEF Settled, SaveOnly, NoFault, bounds, presenceVars
<1>2. CASE BackendRestarts
  BY <1>2, FaultCounts DEF Settled, BackendRestarts
<1>3. CASE AsteriskRestarts
  BY <1>3 DEF Settled, AsteriskRestarts, Change, presenceVars
<1>4. CASE Boot
  <2>1. PICK bad \in SUBSET Steps :
          /\ faults' = 0 => bad = {}
          /\ confExcl' = IF "routing" \in bad THEN confExcl ELSE {}
    BY <1>4 DEF Boot, TypeOK
  <2>2. excluded' = {} /\ liveExcl' = confExcl'
    BY <1>4 DEF Boot
  <2>3. QED
    BY <2>1, <2>2 DEF Settled
<1>5. QED
  BY <1>1, <1>2, <1>3, <1>4

\* While nothing fails, the running dialplan leaves out exactly those the watcher has
\* last decided on, but for the reload the watcher awaits (ha_presence.refresh_once and
\* every other render of the routing).
THEOREM LeftOutIsLiveAlways == Spec => []LeftOutIsLive
<1>1. Init => Settled
  BY DEF Init, Settled
<1>2. TypeOK /\ Settled /\ [Next]_vars => Settled'
  <2> SUFFICES ASSUME TypeOK, Settled, [Next]_vars PROVE Settled'
    OBVIOUS
  <2>1. ASSUME NEW r \in Requests,
               \/ SaveExtension(r) \/ SaveRouting(r) \/ SaveTrunk(r) \/ SaveSmtp(r)
               \/ PairingEnablesVideo(r) \/ ImportBackup(r) \/ Reload(r)
        PROVE  Settled'
    BY <2>1, RequestsSettled
  <2>2. CASE PersonMoves \/ PresenceFetched \/ PresenceApplies \/ PresenceReloads
    BY <2>2, PresenceSettled
  <2>3. CASE SaveOnly \/ BackendRestarts \/ AsteriskRestarts \/ Boot
    BY <2>3, RestartsSettled
  <2>4. CASE UNCHANGED vars
    BY <2>4 DEF vars, syncVars, presenceVars, bounds, Settled
  <2>5. QED
    BY <2>1, <2>2, <2>3, <2>4 DEF Next
<1>3. Settled => LeftOutIsLive
  BY DEF Settled, LeftOutIsLive
<1>4. QED
  BY <1>1, <1>2, <1>3, TypeCorrect, PTL DEF Spec
=============================================================================
