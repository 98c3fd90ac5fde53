----------------------------- MODULE FlockGuest -----------------------------
(***************************************************************************)
(* tests/flock.c run by several processes on the one file it names: fopen  *)
(* truncates before the lock is asked for, the lines stay in the stdio     *)
(* buffer while it is held, and fclose writes them after it is released,   *)
(* from the beginning of the file.                                         *)
(***************************************************************************)
EXTENDS Integers, Sequences

CONSTANTS
    Procs,      \* processes that run it
    TextLen     \* the length of what each one writes (its random number's digits)

ASSUME FlockAssumption == TextLen \in [Procs -> Nat]

VARIABLES
    step,    \* where each process is
    owner,   \* processes that hold the lock
    file,    \* whose byte is at each place
    last,    \* history: the process that wrote last
    overlap  \* history: processes that opened or wrote while another had it open

flockVars == <<step, owner, file, last, overlap>>

FlockInit ==
    /\ step = [p \in Procs |-> "open"] /\ owner = {} /\ file = <<>>
    /\ last = {} /\ overlap = {}

IsOpen(p) == step[p] \in {"lock", "print", "close"}
Others(p) == {q \in Procs \ {p} : IsOpen(q)}
GoOn(p, to) == step' = [step EXCEPT ![p] = to]

FopenAppends(p) ==         \* mutant: fopen(..., "a")
    /\ step[p] = "open" /\ GoOn(p, "lock")
    /\ overlap' = IF Others(p) = {} THEN overlap ELSE overlap \cup {p} \cup Others(p)
    /\ UNCHANGED <<owner, file, last>>

Fopen(p) ==
    /\ step[p] = "open" /\ GoOn(p, "lock")
    /\ file' = <<>>
    /\ overlap' = IF Others(p) = {} THEN overlap ELSE overlap \cup {p} \cup Others(p)
    /\ UNCHANGED <<owner, last>>

FopenFails(p) ==
    /\ step[p] = "open" /\ GoOn(p, "exited")
    /\ UNCHANGED <<owner, file, last, overlap>>

(* flock(LOCK_EX) waits for the holder; then fprintf and sleep, five times.*)
Flock(p) ==
    /\ step[p] = "lock" /\ owner = {} /\ GoOn(p, "print")
    /\ owner' = {p}
    /\ UNCHANGED <<file, last, overlap>>

FunlockLeft(p) ==          \* mutant: the lock is left for fclose to release
    /\ step[p] = "print" /\ GoOn(p, "close")
    /\ UNCHANGED <<owner, file, last, overlap>>

Funlock(p) ==
    /\ step[p] = "print" /\ GoOn(p, "close")
    /\ owner' = owner \ {p}
    /\ UNCHANGED <<file, last, overlap>>

Places(p) == 1 .. TextLen[p]

Overwritten(p) ==
    [k \in Places(p) \cup DOMAIN file |-> IF k \in Places(p) THEN p ELSE file[k]]

Fclose(p) ==
    /\ step[p] = "close" /\ GoOn(p, "exited")
    /\ file' = Overwritten(p) /\ last' = {p}
    /\ UNCHANGED <<owner, overlap>>

(* The lock goes with the process, and so do the lines in its buffer.      *)
KillHolder(p) ==
    /\ IsOpen(p) /\ GoOn(p, "killed")
    /\ owner' = owner \ {p}
    /\ UNCHANGED <<file, last, overlap>>

FlockProc(p) == Fopen(p) \/ Flock(p) \/ Funlock(p) \/ Fclose(p)

FlockNext == \E p \in Procs : FlockProc(p) \/ FopenFails(p) \/ KillHolder(p)

FlockEnded == \A p \in Procs : step[p] \in {"exited", "killed"}

(* What the lock does not give: a process writes at its fclose, when it no *)
(* longer holds the lock and another one may.                              *)
(* A run that overlapped no other leaves exactly its own lines; one that   *)
(* did has its lines at the front if it wrote last, and what may follow    *)
(* them are the ends of longer texts of runs it overlapped.                *)
LastCloserWins ==
    \A p \in last : file # <<>> =>
        /\ Places(p) \subseteq DOMAIN file /\ \A k \in Places(p) : file[k] = p
        /\ \A k \in DOMAIN file \ Places(p) : {p, file[k]} \subseteq overlap
        /\ p \notin overlap => Len(file) = TextLen[p]
=============================================================================
