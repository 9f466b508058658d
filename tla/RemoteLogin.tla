------------------------------ MODULE RemoteLogin ------------------------------
(***************************************************************************)
(* ha-antigravity-remote-runtime: the background service that waits for an *)
(* OAuth token and becomes the Remote Control daemon, and the interactive  *)
(* logins that obtain the token with a CLI of their own.  A login holds    *)
(* the login lock; the service only tries it.                              *)
(*                                                                         *)
(* The token is a file that the native CLI writes.  It is looked at, never *)
(* read: absent, pending (too short), ready, or unsafe (metadata that does *)
(* not fit, for good or in the middle of a replacement).                   *)
(***************************************************************************)
EXTENDS Naturals

CONSTANTS
    Logins,        \* terminals in which ha-antigravity-remote-login is run
    MaxAttempts,   \* bound on the logins that are begun
    MaxLost,       \* bound on how often a token is removed or written anew
    MaxKills       \* bound on the runtimes that die without their EXIT trap

ASSUME BoundsAssumption == MaxAttempts \in Nat /\ MaxLost \in Nat /\ MaxKills \in Nat

CONSTANTS Free, Service      \* who may hold the lock, besides a login
ASSUME HolderAssumption == Free # Service /\ {Free, Service} \intersect Logins = {}

TokenStates == {"absent", "pending", "ready", "unsafe"}
ServicePlaces == {"token", "lock", "probing", "launching", "daemon", "down"}
LoginPlaces ==
    {"idle", "checking", "starting", "forked", "waiting", "cleaning", "reporting"}
WatcherPlaces == {"none", "watching", "ending", "ended"}
Looks == {"first", "second"}
Sayings == {"nothing", "busy", "already", "completed", "failed", "interrupted", "killed"}

VARIABLES
    token,     \* what the token file is
    lock,      \* who holds the flock on remote-login.lock
    service,   \* the S6 service: what it does, what it saw of the token
    login,     \* each login runtime: what it does, and what the last one said
    cli,       \* the CLI a login runs in its background
    watcher,   \* the subshell that watches the token for it
    used       \* the bounded events that have happened

vars == <<token, lock, service, login, cli, watcher, used>>

Init ==
    /\ token = "absent"
    /\ lock = Free
    /\ service = [at |-> "token", seen |-> "absent", look |-> "first"]
    /\ login = [l \in Logins |-> [at |-> "idle", look |-> "first", said |-> "nothing"]]
    /\ cli = [l \in Logins |-> "none"]
    /\ watcher = [l \in Logins |-> [at |-> "none", look |-> "first"]]
    /\ used = [attempts |-> 0, lost |-> 0, kills |-> 0]

(* stable_remote_token_state: process p believes what it sees, but unsafe  *)
(* only when it looks for the second time.                                 *)
Sees(p, states) == token \in states /\ (token = "unsafe" => p.look = "second")
MustLookAgain(p) == token = "unsafe" /\ p.look = "first"

Running(l) == cli[l] \in {"running", "orphan"}

-----------------------------------------------------------------------------
(* service_main                                                            *)
AtUnreset(place) == [service EXCEPT !.at = place]      \* mutant: the first look still counts
At(place) == [at |-> place, seen |-> service.seen, look |-> "first"]

ServiceLooks ==
    /\ service.at = "token"
    /\ \/ /\ MustLookAgain(service)
          /\ service' = [service EXCEPT !.look = "second"]
       \/ /\ Sees(service, TokenStates)
          /\ service' = [at |-> "lock", seen |-> token, look |-> "first"]
    /\ UNCHANGED <<token, lock, login, cli, watcher, used>>

(* What becomes of the pair token_state:login_state.                       *)
AfterProbeOfToken(active) ==      \* mutant: an active login is not waited for
    IF service.seen = "unsafe" THEN "down"
    ELSE IF service.seen = "ready" THEN "launching" ELSE "token"
AfterProbe(active) ==
    IF service.seen = "unsafe" THEN "down"
    ELSE IF service.seen = "ready" /\ ~active THEN "launching" ELSE "token"

(* remote_login_state: the lock is tried, and given back at once.          *)
ServiceProbes ==
    /\ service.at = "lock"
    /\ IF lock = Free
       THEN lock' = Service /\ service' = At("probing")
       ELSE UNCHANGED lock /\ service' = At(AfterProbe(TRUE))
    /\ UNCHANGED <<token, login, cli, watcher, used>>

ServiceUnlocks ==
    /\ service.at = "probing"
    /\ lock' = Free
    /\ service' = At(AfterProbe(FALSE))
    /\ UNCHANGED <<token, login, cli, watcher, used>>

(* launch_remote service looks at the token, and not at the lock, again.   *)
ServiceLaunches ==
    /\ service.at = "launching"
    /\ \/ /\ MustLookAgain(service)
          /\ service' = [service EXCEPT !.look = "second"]
       \/ /\ Sees(service, TokenStates)
          /\ service' = At(IF token = "ready" THEN "daemon" ELSE "down")
    /\ UNCHANGED <<token, lock, login, cli, watcher, used>>

DaemonExits ==
    /\ service.at = "daemon"
    /\ service' = At("down")
    /\ UNCHANGED <<token, lock, login, cli, watcher, used>>

(* S6 runs the service again after its finish script.                      *)
ServiceRestarts ==
    /\ service.at = "down"
    /\ service' = At("token")
    /\ UNCHANGED <<token, lock, login, cli, watcher, used>>

-----------------------------------------------------------------------------
(* login_main                                                              *)
Goes(l, place) ==
    login' = [login EXCEPT ![l] = [at |-> place, look |-> "first", said |-> login[l].said]]

(* The runtime exits, and with its descriptor 9 the lock is gone.          *)
Exits(l, said) ==
    /\ login' = [login EXCEPT ![l] = [at |-> "idle", look |-> "first", said |-> said]]
    /\ lock' = Free

LoginBegins(l) ==
    /\ login[l].at = "idle" /\ cli[l] = "none" /\ watcher[l].at = "none"
    /\ used.attempts < MaxAttempts
    /\ used' = [used EXCEPT !.attempts = @ + 1]
    /\ IF lock = Free
       THEN lock' = l /\ Goes(l, "checking")
       ELSE UNCHANGED lock /\ login' = [login EXCEPT ![l].said = "busy"]
    /\ UNCHANGED <<token, service, cli, watcher>>

LoginLooksAgain(l) ==
    /\ login[l].at \in {"checking", "starting", "reporting"}
    /\ MustLookAgain(login[l])
    /\ login' = [login EXCEPT ![l].look = "second"]
    /\ UNCHANGED <<token, lock, service, cli, watcher, used>>

LoginChecks(l) ==
    /\ login[l].at = "checking"
    /\ \/ Sees(login[l], {"ready"}) /\ Exits(l, "already")
       \/ Sees(login[l], {"unsafe"}) /\ Exits(l, "failed")
       \/ Sees(login[l], {"absent", "pending"}) /\ Goes(l, "starting") /\ UNCHANGED lock
    /\ UNCHANGED <<token, service, cli, watcher, used>>

(* launch_remote login: the CLI is forked before its pid is known.         *)
LoginLaunches(l) ==
    /\ login[l].at = "starting"
    /\ \/ /\ Sees(login[l], {"ready", "unsafe"})
          /\ Exits(l, "failed")
          /\ UNCHANGED cli
       \/ /\ Sees(login[l], {"absent", "pending"})
          /\ Goes(l, "forked")
          /\ cli' = [cli EXCEPT ![l] = "running"]
          /\ UNCHANGED lock
    /\ UNCHANGED <<token, service, watcher, used>>

LoginStartsWatcher(l) ==
    /\ login[l].at = "forked"
    /\ Goes(l, "waiting")
    /\ watcher' = [watcher EXCEPT ![l] = [at |-> "watching", look |-> "first"]]
    /\ UNCHANGED <<token, lock, service, cli, used>>

(* It waits for the CLI, and then for the watcher.                         *)
LoginReaps(l) ==
    /\ login[l].at = "waiting"
    /\ cli[l] = "exited"
    /\ watcher[l].at = "ended"
    /\ Goes(l, "reporting")
    /\ cli' = [cli EXCEPT ![l] = "none"]
    /\ watcher' = [watcher EXCEPT ![l].at = "none"]
    /\ UNCHANGED <<token, lock, service, used>>

LoginReports(l) ==
    /\ login[l].at = "reporting"
    /\ \/ Sees(login[l], {"ready"}) /\ Exits(l, "completed")
       \/ Sees(login[l], TokenStates \ {"ready"}) /\ Exits(l, "failed")
    /\ UNCHANGED <<token, service, cli, watcher, used>>

(* HUP, INT or TERM: the EXIT trap knows of the CLI once its pid is set.   *)
LoginInterrupted(l) ==
    /\ \/ /\ login[l].at = "waiting"
          /\ Goes(l, "cleaning")
          /\ UNCHANGED <<lock, cli>>
       \/ /\ login[l].at \in {"checking", "starting", "reporting"}
          /\ Exits(l, "interrupted")
          /\ UNCHANGED cli
       \/ /\ login[l].at = "forked"
          /\ Exits(l, "interrupted")
          /\ cli' = [cli EXCEPT ![l] = IF @ = "running" THEN "orphan" ELSE "none"]
    /\ UNCHANGED <<token, service, watcher, used>>

(* cleanup_login: the CLI is ended and reaped, then the watcher.           *)
AfterCleanUpAtOnce(l) == cli[l]      \* mutant: the CLI is not waited for
AfterCleanUp(l) == "none"
LoginCleansUp(l) ==
    /\ login[l].at = "cleaning"
    /\ cli' = [cli EXCEPT ![l] = AfterCleanUp(l)]
    /\ watcher' = [watcher EXCEPT ![l].at = "none"]
    /\ Exits(l, "interrupted")
    /\ UNCHANGED <<token, service, used>>

(* SIGKILL: the children live on without descriptor 9.                     *)
LoginKilled(l) ==
    /\ login[l].at # "idle"
    /\ used.kills < MaxKills
    /\ used' = [used EXCEPT !.kills = @ + 1]
    /\ cli' = [cli EXCEPT ![l] = IF @ = "running" THEN "orphan" ELSE "none"]
    /\ Exits(l, "killed")
    /\ watcher' = [watcher EXCEPT ![l].at = IF @ = "ended" THEN "none" ELSE @]
    /\ UNCHANGED <<token, service>>

-----------------------------------------------------------------------------
(* The watcher of a login ends its CLI when the token is there, or unsafe. *)
EndsOnlyUnsafe == {"unsafe"}      \* mutant: a CLI that has signed in goes on
Ends == {"ready", "unsafe"}

WatcherLooks(l) ==
    /\ watcher[l].at = "watching"
    /\ Running(l)
    /\ \/ /\ MustLookAgain(watcher[l])
          /\ watcher' = [watcher EXCEPT ![l].look = "second"]
       \/ /\ Sees(watcher[l], Ends)
          /\ watcher' = [watcher EXCEPT ![l] = [at |-> "ending", look |-> "first"]]
       \/ /\ Sees(watcher[l], TokenStates \ Ends) /\ watcher[l].look = "second"
          /\ watcher' = [watcher EXCEPT ![l].look = "first"]
    /\ UNCHANGED <<token, lock, service, login, cli, used>>

(* terminate_remote_cli, or the CLI is gone already.                       *)
Gone(l) == IF cli[l] = "running" THEN "exited"
           ELSE IF cli[l] = "orphan" THEN "none" ELSE cli[l]
WatcherEnds(l) ==
    /\ \/ watcher[l].at = "ending"
       \/ watcher[l].at = "watching" /\ ~Running(l)
    /\ cli' = [cli EXCEPT ![l] = Gone(l)]
    /\ watcher' = [watcher EXCEPT ![l] =
                     [at |-> IF login[l].at = "idle" THEN "none" ELSE "ended", look |-> "first"]]
    /\ UNCHANGED <<token, lock, service, login, used>>

CliExits(l) ==
    /\ Running(l)
    /\ cli' = [cli EXCEPT ![l] = Gone(l)]
    /\ UNCHANGED <<token, lock, service, login, watcher, used>>

-----------------------------------------------------------------------------
(* The native CLI writes the token, a daemon may write it anew, and it may *)
(* be removed.                                                             *)
Writers == (\E l \in Logins : Running(l)) \/ service.at = "daemon"
TokenAppears ==
    /\ Writers
    /\ token # "ready"
    /\ token' \in TokenStates \ {token, "absent"}
    /\ UNCHANGED <<lock, service, login, cli, watcher, used>>

TokenLost ==
    /\ token = "ready"
    /\ used.lost < MaxLost
    /\ used' = [used EXCEPT !.lost = @ + 1]
    /\ token' \in TokenStates \ {"ready"}
    /\ UNCHANGED <<lock, service, login, cli, watcher>>

-----------------------------------------------------------------------------
ServiceNext ==
    ServiceLooks \/ ServiceProbes \/ ServiceUnlocks \/ ServiceLaunches \/ ServiceRestarts
LoginNext(l) ==
    \/ LoginLooksAgain(l) \/ LoginChecks(l) \/ LoginLaunches(l) \/ LoginStartsWatcher(l)
    \/ LoginReaps(l) \/ LoginReports(l) \/ LoginCleansUp(l)
WatcherNext(l) == WatcherLooks(l) \/ WatcherEnds(l)

Next ==
    \/ ServiceNext \/ DaemonExits
    \/ TokenAppears \/ TokenLost
    \/ \E l \in Logins :
         \/ LoginNext(l) \/ WatcherNext(l)
         \/ LoginBegins(l) \/ LoginInterrupted(l) \/ LoginKilled(l) \/ CliExits(l)

(* The kernel runs every process; people, the network and the CLI need do  *)
(* nothing.                                                                *)
Spec ==
    /\ Init /\ [][Next]_vars
    /\ WF_vars(ServiceNext)
    /\ \A l \in Logins : WF_vars(LoginNext(l)) /\ WF_vars(WatcherNext(l))

-----------------------------------------------------------------------------
(* Properties                                                              *)

(* Every variable has the values it is given in the runtime, and the token *)
(* is looked at for a second time only where it was for the first.         *)
TypeOK ==
    /\ token \in TokenStates
    /\ lock \in Logins \union {Free, Service}
    /\ service \in [at : ServicePlaces, seen : TokenStates, look : Looks]
    /\ login \in [Logins -> [at : LoginPlaces, look : Looks, said : Sayings]]
    /\ cli \in [Logins -> {"none", "running", "exited", "orphan"}]
    /\ watcher \in [Logins -> [at : WatcherPlaces, look : Looks]]
    /\ service.look = "second" => service.at \in {"token", "launching"}
    /\ \A l \in Logins : login[l].look = "second" => login[l].at \in {"checking", "starting", "reporting"}
    /\ used \in [attempts : 0..MaxAttempts, lost : 0..MaxLost, kills : 0..MaxKills]

(* The runtime of a CLI that has not outlived it holds the lock, so that   *)
(* two terminals never sign in at once.                                    *)
CliHoldsLock == \A l \in Logins : cli[l] \in {"running", "exited"} => lock = l

(* The daemon and the CLI of a login do not run together, although the     *)
(* service gives the lock back before it looks at the token for the last   *)
(* time, unless a token that was there was lost.                           *)
DaemonAlone ==
    used.lost = 0 =>
        ~(service.at = "daemon" /\ \E l \in Logins : cli[l] = "running")

(* When the token is there to stay, the daemon is up again and again: no   *)
(* login keeps the service waiting for good.                               *)
DaemonStarts == <>[](token = "ready") => []<>(service.at = "daemon")

(* "Both Antigravity processes never share the same persistent state       *)
(* concurrently" (CHANGELOG, 3.0.1).  The code breaks this.                *)
NeverShared == ~(service.at = "daemon" /\ \E l \in Logins : cli[l] = "running")

=============================================================================
