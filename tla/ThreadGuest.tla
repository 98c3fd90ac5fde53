---------------------------- MODULE ThreadGuest ----------------------------
(***************************************************************************)
(* tests/safe_thread.c: two threads add to and subtract from one counter   *)
(* under a mutex which main initialises after it has created the other     *)
(* thread.  The mutex is the lock word: taken from zero, and set to zero   *)
(* by unlock and by pthread_mutex_init whoever holds it.                   *)
(***************************************************************************)
EXTENDS Integers

CONSTANT N    \* rounds of each loop

ASSUME ThreadAssumption == N \in Nat

VARIABLES
    at,      \* where each thread is
    j, reg,  \* its loop variable, and the counter as it has loaded it
    held,    \* the lock word is not zero
    count,   \* i
    hit      \* history: the initialisation found the lock taken

threadVars == <<at, j, reg, held, count, hit>>

Threads == {"main", "child"}
Delta(t) == IF t = "main" THEN j[t] ELSE -j[t]

ThreadInit ==
    /\ at = [main |-> "create", child |-> "none"]
    /\ j = [t \in Threads |-> 0] /\ reg = [t \in Threads |-> 0]
    /\ held = FALSE /\ count = 0 /\ hit = FALSE

Goto(t, to) == at' = [at EXCEPT ![t] = to]

(* main returns from its loop into sleep(1), and then ends the process;    *)
(* the other thread is not joined.                                         *)
Alive == at["main"] # "exit"

Create ==
    /\ at["main"] = "create"
    /\ at' = [main |-> "init", child |-> "lock"]
    /\ UNCHANGED <<j, reg, held, count, hit>>

CreateFails ==
    /\ at["main"] = "create" /\ Goto("main", "init")
    /\ UNCHANGED <<j, reg, held, count, hit>>

(* pthread_mutex_init zeroes the mutex.                                    *)
InitMutex ==
    /\ at["main"] = "init" /\ Goto("main", "lock")
    /\ held' = FALSE /\ hit' = held
    /\ UNCHANGED <<j, reg, count>>

LockUnchecked(t) ==        \* mutant: pthread_mutex_trylock, its result ignored
    /\ Alive /\ at[t] = "lock" /\ j[t] < N
    /\ held' = TRUE /\ Goto(t, "load")
    /\ UNCHANGED <<j, reg, count, hit>>

Lock(t) ==
    /\ Alive /\ at[t] = "lock" /\ j[t] < N
    /\ ~held /\ held' = TRUE /\ Goto(t, "load")
    /\ UNCHANGED <<j, reg, count, hit>>

Load(t) ==
    /\ Alive /\ at[t] = "load" /\ Goto(t, "store")
    /\ reg' = [reg EXCEPT ![t] = count]
    /\ UNCHANGED <<j, held, count, hit>>

Store(t) ==
    /\ Alive /\ at[t] = "store" /\ Goto(t, "unlock")
    /\ count' = reg[t] + Delta(t)
    /\ UNCHANGED <<j, reg, held, hit>>

Unlock(t) ==
    /\ Alive /\ at[t] = "unlock" /\ Goto(t, "lock")
    /\ held' = FALSE
    /\ j' = [j EXCEPT ![t] = @ + 1]
    /\ UNCHANGED <<reg, count, hit>>

Leave(t) ==
    /\ Alive /\ at[t] = "lock" /\ j[t] = N
    /\ Goto(t, IF t = "main" THEN "sleep" ELSE "done")
    /\ UNCHANGED <<j, reg, held, count, hit>>

ExitProcess ==
    /\ at["main"] = "sleep" /\ Goto("main", "exit")
    /\ UNCHANGED <<j, reg, held, count, hit>>

Loop(t) == Lock(t) \/ Load(t) \/ Store(t) \/ Unlock(t) \/ Leave(t)
ThreadMain == Create \/ InitMutex \/ Loop("main") \/ ExitProcess
ThreadNext == ThreadMain \/ CreateFails \/ Loop("child")

ThreadEnded == ~Alive

(* When both threads have run their loops no update is lost, the late      *)
(* initialisation notwithstanding, unless it fell into the other thread's  *)
(* critical section and gave the lock away: then anything may be left.     *)
LateInitOnlyRisk ==
    at["main"] \in {"sleep", "exit"} /\ at["child"] = "done" /\ ~hit => count = 0
=============================================================================
