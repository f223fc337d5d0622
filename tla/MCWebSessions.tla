---------------------------- MODULE MCWebSessions ----------------------------
(***************************************************************************)
(* What concurrent requests share, for TLC: the session store, the logins  *)
(* that lead to it, and the singletons of the process that serves them.    *)
(* A behaviour plays one of four scenes, explored side by side: sessions   *)
(* with many handles at one instant, or with few while time passes; logins *)
(* and their callbacks; resolutions of singletons.                         *)
(***************************************************************************)
EXTENDS WebSessions, TLC

CONSTANTS
    Logins, AttemptLimit, TransactionTTL, MarkTTL, Versions, MaxClock,   \* of LoginTransactions
    Keys, Needs, Module, MaxInst,                                        \* of DependencyContainer
    v1, a, b

ASSUME LoginAssumption ==
    AttemptLimit \in Nat /\ TransactionTTL \in Nat /\ MarkTTL \in Nat /\ MaxClock \in Nat

ASSUME ContainerAssumption ==
    /\ Keys # {} /\ Module \subseteq Keys /\ Needs \in [Keys -> SUBSET SUBSET Keys]
    /\ MaxInst \in Nat
    /\ IsFiniteSet(Requests) /\ Requests \cap (1..MaxInst) = {}

VARIABLES
    scene,
    \* LoginTransactions
    clock, attempts, txn, expires, binding, mark, markEnd, provider, member, at, state, browser,
    code, version, sessions,
    \* DependencyContainer
    avail, closed, cleanup, removal, waits, flight, cur, order, key, stage, res, todo, deps, path,
    wait, got

loginVars == <<clock, attempts, txn, expires, binding, mark, markEnd, provider, member, at,
               state, browser, code, version, sessions>>
containerVars == <<avail, closed, cleanup, removal, waits, flight, cur, order, key, stage, res,
                   todo, deps, path, wait, got>>
allVars == <<scene, vars, loginVars, containerVars>>

\* a needs b; b needs nothing, or a: then the two need each other.
NeedsBoth == [k \in Keys |-> IF k = a THEN {{b}} ELSE {{}, {a}}]

Login == INSTANCE LoginTransactions WITH
    Callbacks <- Requests, MaxTime <- MaxClock, time <- clock, pc <- at

Container == INSTANCE DependencyContainer WITH Callers <- Requests, st <- stage

-----------------------------------------------------------------------------
Off == "off"

LoginOff ==
    /\ clock = Off /\ attempts = Off /\ txn = Off /\ expires = Off /\ binding = Off /\ mark = Off
    /\ markEnd = Off /\ provider = Off /\ member = Off /\ at = Off /\ state = Off
    /\ browser = Off /\ code = Off /\ version = Off /\ sessions = Off
ContainerOff ==
    /\ avail = Off /\ closed = Off /\ cleanup = Off /\ removal = Off /\ waits = Off
    /\ flight = Off /\ cur = Off /\ order = Off /\ key = Off /\ stage = Off /\ res = Off
    /\ todo = Off /\ deps = Off /\ path = Off /\ wait = Off /\ got = Off

MCInit ==
    /\ scene \in {"instant", "time", "login", "container"}
    /\ Init
    /\ \/ scene = "login" /\ Login!Init /\ provider = v1
       \/ scene # "login" /\ LoginOff
    /\ \/ scene = "container" /\ Container!Init
       \/ scene # "container" /\ ContainerOff

\* Time passes for requests on two handles that nobody revokes in bulk.
OverTime ==
    /\ \A h \in Handles : st'[h] # "free" => h <= 2
    /\ purging' = purging /\ active' = active

SessionNext ==
    /\ Next
    /\ IF scene = "instant" THEN time' = time ELSE OverTime

\* An administrator changes one thing, once.
LoginNext ==
    /\ Login!Next
    /\ provider' # provider \/ member' # member => member = 1 /\ provider = v1

\* The last owner task is kept for the time after the module's removal, and the container
\* closes over two owners at most.
ContainerNext ==
    /\ Container!Next
    /\ stage'[MaxInst] # stage[MaxInst] => removal = "done"
    /\ closed' # closed => stage[3] = "free"

MCNext ==
    /\ scene' = scene
    /\ \/ scene \in {"instant", "time"} /\ SessionNext /\ UNCHANGED <<loginVars, containerVars>>
       \/ scene = "login" /\ LoginNext /\ UNCHANGED <<vars, containerVars>>
       \/ scene = "container" /\ ContainerNext /\ UNCHANGED <<vars, loginVars>>

MCSpec == MCInit /\ [][MCNext]_allVars

\* Requests, callbacks and the callers of the container differ in nothing but their identity.
RequestSymmetry == Permutations(Requests)

-----------------------------------------------------------------------------
\* A session belongs to the browser that began its login, which gives one session at most
\* (LoginTransactions), and it ends with its absolute lifetime, however often it is touched or
\* rotated (WebSessions).
SessionsSound ==
    /\ LifetimeIsBounded
    /\ scene = "login" => Login!LoginSound /\ Login!OneSessionPerLogin

\* Singletons have one owner, no two initializations wait for each other, and a resource is
\* released after everything that retains it (DependencyContainer).
ContainerSound ==
    scene = "container" =>
        /\ Container!OwnersSound
        /\ Container!NoCircularWait
        /\ Container!ReleasedAfterDependents

\* What a resolution returns is alive at that moment, even if the module was removed or the
\* container closed while it waited (DependencyContainer).
ReturnedIsLive == [][scene = "container" => Container!ReturnsLive]_allVars
=============================================================================
