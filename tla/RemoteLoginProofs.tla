--------------------------- MODULE RemoteLoginProofs ---------------------------
(***************************************************************************)
(* The login lock and the Remote daemon, for any number of terminals and   *)
(* any bounds.                                                             *)
(***************************************************************************)
EXTENDS RemoteLogin, TLAPS

(* Who is past LoginBegins holds the lock, and who probes it does.         *)
LockIsHeld ==
    /\ \A l \in Logins : login[l].at # "idle" <=> lock = l
    /\ service.at = "probing" <=> lock = Service

(* A CLI that can still be reaped belongs to a runtime that will.          *)
CliHasRuntime ==
    \A l \in Logins : cli[l] \in {"running", "exited"} =>
                        login[l].at \in {"forked", "waiting", "cleaning"}

(* What the service saw of a token that is never lost is still true, and   *)
(* from the moment it found the lock free no login gets to run a CLI.      *)
ReadyStays ==
    used.lost = 0 =>
        /\ service.at \in {"lock", "probing"} /\ service.seen = "ready" => token = "ready"
        /\ service.at \in {"launching", "daemon"} => token = "ready"
NobodySignsIn ==
    used.lost = 0 /\ service.at \in {"launching", "daemon"} =>
        \A l \in Logins : cli[l] # "running"

IInv ==
    /\ TypeOK
    /\ LockIsHeld
    /\ CliHasRuntime
    /\ ReadyStays
    /\ NobodySignsIn

(* At first nobody holds the lock and nothing runs.                        *)
LEMMA InitIInv == Init => IInv
<1> SUFFICES ASSUME Init PROVE IInv
  OBVIOUS
<1> USE BoundsAssumption, HolderAssumption DEF Init
<1>1. TypeOK
  BY DEF TypeOK, TokenStates, ServicePlaces, LoginPlaces, WatcherPlaces, Looks, Sayings
<1>2. LockIsHeld
  BY DEF LockIsHeld
<1> QED
  BY <1>1, <1>2 DEF IInv, CliHasRuntime, ReadyStays, NobodySignsIn

(* Where the service is after it goes somewhere.                           *)
LEMMA AtIs ==
  ASSUME TypeOK, NEW place \in ServicePlaces
  PROVE  /\ At(place) \in [at : ServicePlaces, seen : TokenStates, look : Looks]
         /\ At(place).at = place /\ At(place).seen = service.seen /\ At(place).look = "first"
  BY DEF TypeOK, At, Looks

(* A login that goes somewhere, or exits, leaves the others where they are.*)
LEMMA GoesIs ==
  ASSUME TypeOK, NEW l \in Logins, NEW place \in LoginPlaces, Goes(l, place)
  PROVE  /\ login' \in [Logins -> [at : LoginPlaces, look : Looks, said : Sayings]]
         /\ login'[l].at = place /\ login'[l].look = "first"
         /\ \A m \in Logins : m # l => login'[m] = login[m]
  BY DEF TypeOK, Goes, Looks

LEMMA ExitsIs ==
  ASSUME TypeOK, NEW l \in Logins, NEW said \in Sayings, Exits(l, said)
  PROVE  /\ login' \in [Logins -> [at : LoginPlaces, look : Looks, said : Sayings]]
         /\ login'[l].at = "idle" /\ login'[l].look = "first"
         /\ \A m \in Logins : m # l => login'[m] = login[m]
         /\ lock' = Free
  BY DEF TypeOK, Exits, LoginPlaces, Looks

(* The steps of the service keep the invariant: only ServiceUnlocks goes   *)
(* on to a launch, and it held the lock itself.                            *)
LEMMA ServiceKeepsIInv == IInv /\ (ServiceNext \/ DaemonExits) => IInv'
<1> SUFFICES ASSUME IInv, ServiceNext \/ DaemonExits PROVE IInv'
  OBVIOUS
<1> USE BoundsAssumption, HolderAssumption
    DEF IInv, TypeOK, TokenStates, ServicePlaces, Looks, LockIsHeld, CliHasRuntime,
        ReadyStays, NobodySignsIn
<1>1. CASE ServiceLooks
  BY <1>1 DEF ServiceLooks, At, Sees, MustLookAgain
<1>2. CASE ServiceProbes
  BY <1>2 DEF ServiceProbes, AfterProbe, At
<1>3. CASE ServiceUnlocks
  BY <1>3 DEF ServiceUnlocks, AfterProbe, At
<1>4. CASE ServiceLaunches
  BY <1>4 DEF ServiceLaunches, At, Sees, MustLookAgain
<1>5. CASE ServiceRestarts
  BY <1>5 DEF ServiceRestarts, At
<1>6. CASE DaemonExits
  BY <1>6 DEF DaemonExits, At
<1> QED
  BY <1>1, <1>2, <1>3, <1>4, <1>5, <1>6 DEF ServiceNext

(* The steps of a login keep it: with the service past the lock the token  *)
(* is ready, and a login that finds it ready runs no CLI.                  *)
LEMMA LoginKeepsIInv ==
  ASSUME NEW l \in Logins, IInv,
         \/ LoginNext(l) \/ LoginBegins(l) \/ LoginInterrupted(l) \/ LoginKilled(l)
  PROVE  IInv'
<1> USE BoundsAssumption, HolderAssumption
    DEF IInv, LockIsHeld, CliHasRuntime, ReadyStays, NobodySignsIn
<1>1. CASE LoginBegins(l)
  <2>1. CASE lock = Free /\ lock' = l /\ Goes(l, "checking")
    <3>1. "checking" \in LoginPlaces
      BY DEF LoginPlaces
    <3>4. used' \in [attempts : 0..MaxAttempts, lost : 0..MaxLost, kills : 0..MaxKills]
      BY <1>1 DEF LoginBegins, TypeOK
    <3>5. TypeOK'
      BY <1>1, <2>1, <3>1, <3>4, GoesIs DEF LoginBegins, TypeOK
    <3>6. LockIsHeld' /\ CliHasRuntime'
      <4>1. LockIsHeld'
        BY <1>1, <2>1, <3>1, GoesIs DEF LoginBegins, TypeOK
      <4>2. CliHasRuntime'
        BY <1>1, <2>1, <3>1, GoesIs DEF LoginBegins, TypeOK
      <4> QED
        BY <4>1, <4>2
    <3>7. ReadyStays' /\ NobodySignsIn'
      BY <1>1, <2>1, <3>1, GoesIs DEF LoginBegins, TypeOK
    <3> QED
      BY <3>5, <3>6, <3>7
  <2>2. CASE UNCHANGED lock /\ login' = [login EXCEPT ![l].said = "busy"]
    <3>1. "busy" \in Sayings
      BY DEF Sayings
    <3>2. /\ login' \in [Logins -> [at : LoginPlaces, look : Looks, said : Sayings]]
          /\ \A m \in Logins : login'[m].at = login[m].at /\ login'[m].look = login[m].look
      BY <2>2, <3>1 DEF TypeOK
    <3> QED
      BY <1>1, <2>2, <3>2 DEF LoginBegins, TypeOK
  <2> QED
    BY <1>1, <2>1, <2>2 DEF LoginBegins
<1>2. CASE LoginLooksAgain(l)
  <2>1. /\ login' \in [Logins -> [at : LoginPlaces, look : Looks, said : Sayings]]
        /\ \A m \in Logins : login'[m].at = login[m].at /\ (m # l => login'[m] = login[m])
    <3>1. "second" \in Looks
      BY DEF Looks
    <3> QED
      BY <1>2, <3>1 DEF LoginLooksAgain, TypeOK
  <2> QED
    BY <1>2, <2>1 DEF LoginLooksAgain, TypeOK
<1>3. CASE LoginChecks(l)
  <2>1. CASE Exits(l, "already") \/ Exits(l, "failed")
    <3>1. {"already", "failed"} \subseteq Sayings
      BY DEF Sayings
    <3>2. PICK said \in Sayings : Exits(l, said)
      BY <2>1, <3>1
    <3>3. /\ login' \in [Logins -> [at : LoginPlaces, look : Looks, said : Sayings]]
          /\ login'[l].at = "idle" /\ login'[l].look = "first"
          /\ \A m \in Logins : m # l => login'[m] = login[m]
          /\ lock' = Free
      BY <3>2, ExitsIs
    <3>5. TypeOK'
      BY <1>3, <3>3 DEF LoginChecks, TypeOK
    <3>6. LockIsHeld' /\ CliHasRuntime'
      <4>1. LockIsHeld'
        BY <1>3, <3>3 DEF LoginChecks, TypeOK
      <4>2. CliHasRuntime'
        BY <1>3, <3>3 DEF LoginChecks, TypeOK
      <4> QED
        BY <4>1, <4>2
    <3>7. ReadyStays' /\ NobodySignsIn'
      BY <1>3, <3>3 DEF LoginChecks, TypeOK
    <3> QED
      BY <3>5, <3>6, <3>7
  <2>2. CASE Goes(l, "starting") /\ UNCHANGED lock
    <3>1. "starting" \in LoginPlaces
      BY DEF LoginPlaces
    <3>5. TypeOK'
      BY <1>3, <2>2, <3>1, GoesIs DEF LoginChecks, TypeOK
    <3>6. LockIsHeld' /\ CliHasRuntime'
      <4>1. LockIsHeld'
        BY <1>3, <2>2, <3>1, GoesIs DEF LoginChecks, TypeOK
      <4>2. CliHasRuntime'
        BY <1>3, <2>2, <3>1, GoesIs DEF LoginChecks, TypeOK
      <4> QED
        BY <4>1, <4>2
    <3>7. ReadyStays' /\ NobodySignsIn'
      BY <1>3, <2>2, <3>1, GoesIs DEF LoginChecks, TypeOK
    <3> QED
      BY <3>5, <3>6, <3>7
  <2> QED
    BY <1>3, <2>1, <2>2 DEF LoginChecks
<1>4. CASE LoginLaunches(l)
  <2>1. CASE Exits(l, "failed") /\ UNCHANGED cli
    <3>1. "failed" \in Sayings
      BY DEF Sayings
    <3>5. TypeOK'
      BY <1>4, <2>1, <3>1, ExitsIs DEF LoginLaunches, TypeOK
    <3>6. LockIsHeld' /\ CliHasRuntime'
      <4>1. LockIsHeld'
        BY <1>4, <2>1, <3>1, ExitsIs DEF LoginLaunches, TypeOK
      <4>2. CliHasRuntime'
        BY <1>4, <2>1, <3>1, ExitsIs DEF LoginLaunches, TypeOK
      <4> QED
        BY <4>1, <4>2
    <3>7. ReadyStays' /\ NobodySignsIn'
      BY <1>4, <2>1, <3>1, ExitsIs DEF LoginLaunches, TypeOK
    <3> QED
      BY <3>5, <3>6, <3>7
  <2>2. CASE /\ Sees(login[l], {"absent", "pending"})
             /\ Goes(l, "forked")
             /\ cli' = [cli EXCEPT ![l] = "running"]
             /\ UNCHANGED lock
    <3>1. "forked" \in LoginPlaces
      BY DEF LoginPlaces
    <3>2. token # "ready"
      BY <2>2 DEF Sees
    <3>5. TypeOK'
      BY <1>4, <2>2, <3>1, <3>2, GoesIs DEF LoginLaunches, TypeOK
    <3>6. LockIsHeld' /\ CliHasRuntime'
      <4>1. LockIsHeld'
        BY <1>4, <2>2, <3>1, <3>2, GoesIs DEF LoginLaunches, TypeOK
      <4>2. CliHasRuntime'
        BY <1>4, <2>2, <3>1, <3>2, GoesIs DEF LoginLaunches, TypeOK
      <4> QED
        BY <4>1, <4>2
    <3>7. ReadyStays' /\ NobodySignsIn'
      BY <1>4, <2>2, <3>1, <3>2, GoesIs DEF LoginLaunches, TypeOK
    <3> QED
      BY <3>5, <3>6, <3>7
  <2> QED
    BY <1>4, <2>1, <2>2 DEF LoginLaunches
<1>5. CASE LoginStartsWatcher(l)
  <2>1. "waiting" \in LoginPlaces
    BY DEF LoginPlaces
  <2>2. watcher' \in [Logins -> [at : WatcherPlaces, look : Looks]]
    <3>1. [at |-> "watching", look |-> "first"] \in [at : WatcherPlaces, look : Looks]
      BY DEF WatcherPlaces, Looks
    <3> QED
      BY <1>5, <3>1 DEF LoginStartsWatcher, TypeOK
  <2>5. TypeOK'
    BY <1>5, <2>1, <2>2, GoesIs DEF LoginStartsWatcher, TypeOK
  <2>6. LockIsHeld' /\ CliHasRuntime'
    <3>1. LockIsHeld'
      BY <1>5, <2>1, GoesIs DEF LoginStartsWatcher, TypeOK
    <3>2. CliHasRuntime'
      BY <1>5, <2>1, GoesIs DEF LoginStartsWatcher, TypeOK
    <3> QED
      BY <3>1, <3>2
  <2>7. ReadyStays' /\ NobodySignsIn'
    BY <1>5, <2>1, GoesIs DEF LoginStartsWatcher, TypeOK
  <2> QED
    BY <2>5, <2>6, <2>7
<1>6. CASE LoginReaps(l)
  <2>1. "reporting" \in LoginPlaces
    BY DEF LoginPlaces
  <2>3. watcher' \in [Logins -> [at : WatcherPlaces, look : Looks]]
    BY <1>6 DEF LoginReaps, TypeOK, WatcherPlaces
  <2>5. TypeOK'
    BY <1>6, <2>1, <2>3, GoesIs DEF LoginReaps, TypeOK
  <2>6. LockIsHeld' /\ CliHasRuntime'
    <3>1. LockIsHeld'
      BY <1>6, <2>1, GoesIs DEF LoginReaps, TypeOK
    <3>2. CliHasRuntime'
      BY <1>6, <2>1, GoesIs DEF LoginReaps, TypeOK
    <3> QED
      BY <3>1, <3>2
  <2>7. ReadyStays' /\ NobodySignsIn'
    BY <1>6, <2>1, GoesIs DEF LoginReaps, TypeOK
  <2> QED
    BY <2>5, <2>6, <2>7
<1>7. CASE LoginReports(l)
  <2>1. {"completed", "failed"} \subseteq Sayings
    BY DEF Sayings
  <2>5. TypeOK'
    BY <1>7, <2>1, ExitsIs DEF LoginReports, TypeOK
  <2>6. LockIsHeld' /\ CliHasRuntime'
    <3>1. LockIsHeld'
      BY <1>7, <2>1, ExitsIs DEF LoginReports, TypeOK
    <3>2. CliHasRuntime'
      BY <1>7, <2>1, ExitsIs DEF LoginReports, TypeOK
    <3> QED
      BY <3>1, <3>2
  <2>7. ReadyStays' /\ NobodySignsIn'
    BY <1>7, <2>1, ExitsIs DEF LoginReports, TypeOK
  <2> QED
    BY <2>5, <2>6, <2>7
<1>8. CASE LoginInterrupted(l)
  <2>1. CASE login[l].at = "waiting" /\ Goes(l, "cleaning") /\ UNCHANGED <<lock, cli>>
    <3>1. "cleaning" \in LoginPlaces
      BY DEF LoginPlaces
    <3>5. TypeOK'
      BY <1>8, <2>1, <3>1, GoesIs DEF LoginInterrupted, TypeOK
    <3>6. LockIsHeld' /\ CliHasRuntime'
      <4>1. LockIsHeld'
        BY <1>8, <2>1, <3>1, GoesIs DEF LoginInterrupted, TypeOK
      <4>2. CliHasRuntime'
        BY <1>8, <2>1, <3>1, GoesIs DEF LoginInterrupted, TypeOK
      <4> QED
        BY <4>1, <4>2
    <3>7. ReadyStays' /\ NobodySignsIn'
      BY <1>8, <2>1, <3>1, GoesIs DEF LoginInterrupted, TypeOK
    <3> QED
      BY <3>5, <3>6, <3>7
  <2>2. CASE /\ login[l].at \in {"checking", "starting", "reporting"}
             /\ Exits(l, "interrupted") /\ UNCHANGED cli
    <3>1. "interrupted" \in Sayings
      BY DEF Sayings
    <3>5. TypeOK'
      BY <1>8, <2>2, <3>1, ExitsIs DEF LoginInterrupted, TypeOK
    <3>3. LockIsHeld'
      BY <1>8, <2>2, <3>1, ExitsIs DEF LoginInterrupted, TypeOK
    <3>4. CliHasRuntime'
      BY <1>8, <2>2, <3>1, ExitsIs DEF LoginInterrupted, TypeOK
    <3>6. LockIsHeld' /\ CliHasRuntime'
      BY <3>3, <3>4
    <3>7. ReadyStays' /\ NobodySignsIn'
      BY <1>8, <2>2, <3>1, ExitsIs DEF LoginInterrupted, TypeOK
    <3> QED
      BY <3>5, <3>6, <3>7
  <2>3. CASE /\ login[l].at = "forked" /\ Exits(l, "interrupted")
             /\ cli' = [cli EXCEPT ![l] = IF @ = "running" THEN "orphan" ELSE "none"]
    <3>1. "interrupted" \in Sayings
      BY DEF Sayings
    <3>2. cli' \in [Logins -> {"none", "running", "exited", "orphan"}]
      BY <2>3 DEF TypeOK
    <3>5. TypeOK'
      BY <1>8, <2>3, <3>1, <3>2, ExitsIs DEF LoginInterrupted, TypeOK
    <3>3. LockIsHeld'
      BY <1>8, <2>3, <3>1, ExitsIs DEF LoginInterrupted, TypeOK
    <3>4. CliHasRuntime'
      BY <1>8, <2>3, <3>1, ExitsIs DEF LoginInterrupted, TypeOK
    <3>6. LockIsHeld' /\ CliHasRuntime'
      BY <3>3, <3>4
    <3>7. ReadyStays' /\ NobodySignsIn'
      BY <1>8, <2>3, <3>1, ExitsIs DEF LoginInterrupted, TypeOK
    <3> QED
      BY <3>5, <3>6, <3>7
  <2> QED
    BY <1>8, <2>1, <2>2, <2>3 DEF LoginInterrupted
<1>9. CASE LoginCleansUp(l)
  <2>1. "interrupted" \in Sayings
    BY DEF Sayings
  <2>3. watcher' \in [Logins -> [at : WatcherPlaces, look : Looks]]
    BY <1>9 DEF LoginCleansUp, TypeOK, WatcherPlaces
  <2>5. TypeOK'
    BY <1>9, <2>1, <2>3, ExitsIs DEF LoginCleansUp, AfterCleanUp, TypeOK
  <2>6. LockIsHeld' /\ CliHasRuntime'
    <3>1. LockIsHeld'
      BY <1>9, <2>1, ExitsIs DEF LoginCleansUp, AfterCleanUp, TypeOK
    <3>2. CliHasRuntime'
      BY <1>9, <2>1, ExitsIs DEF LoginCleansUp, AfterCleanUp, TypeOK
    <3> QED
      BY <3>1, <3>2
  <2>7. ReadyStays' /\ NobodySignsIn'
    BY <1>9, <2>1, ExitsIs DEF LoginCleansUp, AfterCleanUp, TypeOK
  <2> QED
    BY <2>5, <2>6, <2>7
<1>10. CASE LoginKilled(l)
  <2>1. "killed" \in Sayings
    BY DEF Sayings
  <2>2. watcher' \in [Logins -> [at : WatcherPlaces, look : Looks]]
    BY <1>10 DEF LoginKilled, TypeOK, WatcherPlaces
  <2>3. cli' \in [Logins -> {"none", "running", "exited", "orphan"}]
    BY <1>10 DEF LoginKilled, TypeOK
  <2>4. used' \in [attempts : 0..MaxAttempts, lost : 0..MaxLost, kills : 0..MaxKills]
    BY <1>10 DEF LoginKilled, TypeOK
  <2>5. TypeOK'
    BY <1>10, <2>1, <2>2, <2>3, <2>4, ExitsIs DEF LoginKilled, TypeOK
  <2>6. LockIsHeld' /\ CliHasRuntime'
    <3>1. LockIsHeld'
      BY <1>10, <2>1, ExitsIs DEF LoginKilled, TypeOK
    <3>2. CliHasRuntime'
      BY <1>10, <2>1, ExitsIs DEF LoginKilled, TypeOK
    <3> QED
      BY <3>1, <3>2
  <2>7. ReadyStays' /\ NobodySignsIn'
    BY <1>10, <2>1, ExitsIs DEF LoginKilled, TypeOK
  <2> QED
    BY <2>5, <2>6, <2>7
<1> QED
  BY <1>1, <1>2, <1>3, <1>4, <1>5, <1>6, <1>7, <1>8, <1>9, <1>10 DEF LoginNext

(* So do watchers and CLIs, which start nothing.                           *)
LEMMA ChildKeepsIInv ==
  ASSUME NEW l \in Logins, IInv, WatcherNext(l) \/ CliExits(l)
  PROVE  IInv'
<1> USE BoundsAssumption, HolderAssumption
    DEF IInv, TypeOK, LockIsHeld, CliHasRuntime, ReadyStays, NobodySignsIn,
        Running, Gone, WatcherPlaces, Looks
<1>1. CASE WatcherLooks(l)
  <2>1. watcher' \in [Logins -> [at : WatcherPlaces, look : Looks]]
    BY <1>1 DEF WatcherLooks
  <2> QED
    BY <1>1, <2>1 DEF WatcherLooks
<1>2. CASE WatcherEnds(l)
  BY <1>2 DEF WatcherEnds
<1>3. CASE CliExits(l)
  BY <1>3 DEF CliExits
<1> QED
  BY <1>1, <1>2, <1>3 DEF WatcherNext

(* A token appears where there was none, or is lost and counted.           *)
LEMMA TokenKeepsIInv == IInv /\ (TokenAppears \/ TokenLost) => IInv'
<1> USE BoundsAssumption, HolderAssumption
    DEF IInv, TypeOK, TokenStates, LockIsHeld, CliHasRuntime, ReadyStays, NobodySignsIn
<1>1. IInv /\ TokenAppears => IInv'
  BY DEF TokenAppears
<1>2. IInv /\ TokenLost => IInv'
  BY DEF TokenLost
<1> QED
  BY <1>1, <1>2

(* The invariant of every behaviour.                                       *)
LEMMA Invariance == Spec => []IInv
<1>1. IInv /\ [Next]_vars => IInv'
  <2>1. ASSUME IInv, UNCHANGED vars PROVE IInv'
    BY <2>1 DEF IInv, TypeOK, LockIsHeld, CliHasRuntime, ReadyStays, NobodySignsIn, vars
  <2> QED
    BY <2>1, ServiceKeepsIInv, LoginKeepsIInv, ChildKeepsIInv, TokenKeepsIInv DEF Next
<1> QED
  BY <1>1, InitIInv, PTL DEF Spec

(* Every variable has the values it is given in the runtime.               *)
THEOREM TypeCorrect == Spec => []TypeOK
<1>1. IInv => TypeOK
  BY DEF IInv
<1> QED
  BY <1>1, Invariance, PTL

(* However many terminals sign in, the runtime of a CLI that has not been  *)
(* reaped holds the lock, so there is one such CLI at most.                *)
THEOREM OneCliAtATime == Spec => []CliHoldsLock
<1>1. IInv => CliHoldsLock
  BY DEF IInv, CliHasRuntime, LockIsHeld, CliHoldsLock
<1> QED
  BY <1>1, Invariance, PTL

(* Unless a token is lost, the daemon never runs beside the CLI of a login.*)
THEOREM DaemonIsAlone == Spec => []DaemonAlone
<1>1. IInv => DaemonAlone
  BY DEF IInv, NobodySignsIn, DaemonAlone
<1> QED
  BY <1>1, Invariance, PTL

=============================================================================
