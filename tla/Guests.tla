------------------------------- MODULE Guests -------------------------------
(***************************************************************************)
(* The test programs under tests/ that have processes, threads, locks or   *)
(* signals.  A behaviour is one run of one of them.                        *)
(***************************************************************************)
EXTENDS PipeGuest, ThreadGuest, FlockGuest, SignalGuests

CONSTANT Programs    \* the programs to run

VARIABLE program

vars == <<program, pipeVars, threadVars, flockVars, signalVars>>

Init ==
    /\ program \in Programs
    /\ PipeInit /\ ThreadInit /\ FlockInit /\ SignalInit

Pipe(A) == program = "pipe" /\ A /\ UNCHANGED <<program, threadVars, flockVars, signalVars>>
Thread(A) == program = "safe_thread" /\ A /\ UNCHANGED <<program, pipeVars, flockVars, signalVars>>
Lines(A) == program = "flock" /\ A /\ UNCHANGED <<program, pipeVars, threadVars, signalVars>>
Signal(p, A) == program = p /\ A /\ UNCHANGED <<program, pipeVars, threadVars, flockVars>>

Next ==
    \/ Pipe(PipeNext) \/ Thread(ThreadNext) \/ Lines(FlockNext)
    \/ Signal("sigprocmask", MaskChild \/ Tick \/ DeliverDeadly("ALRM"))
    \/ Signal("alarm_signal", AlarmMain \/ Tick \/ DeliverDeadly("ALRM"))
    \/ Signal("sigsuspend", SuspendMain \/ \E s \in {"INT", "HUP"} : Send(s))

Spec == Init /\ [][Next]_vars

(* Every process and thread is scheduled, and time passes; failures, kills *)
(* and the user's signals are not fair.                                    *)
FairSpec ==
    /\ Spec
    /\ WF_vars(Pipe(PipeParent)) /\ WF_vars(Pipe(PipeChild))
    /\ WF_vars(Thread(ThreadMain)) /\ WF_vars(Thread(Loop("child")))
    /\ \A p \in Procs : WF_vars(Lines(FlockProc(p)))
    /\ WF_vars(Signal("sigprocmask", MaskChild))
    /\ WF_vars(Signal("alarm_signal", AlarmMain))
    /\ WF_vars(Signal(program, DeliverDeadly("ALRM")))
    /\ WF_vars(Signal(program, Tick))

-----------------------------------------------------------------------------
(* The type invariant.                                                     *)
TypeOK ==
    /\ program \in Programs
    /\ {writers, readers} \subseteq SUBSET {"parent", "child"}
    /\ round \in 0 .. NumIts /\ DOMAIN buf = 1 .. MsgLen
    /\ j \in [Threads -> 0 .. N] /\ reg \in [Threads -> Int] /\ count \in Int
    /\ held \in BOOLEAN /\ hit \in BOOLEAN
    /\ owner \subseteq Procs /\ (\A p \in Procs : owner = {p} <=> step[p] = "print")
    /\ DOMAIN file \in {1 .. n : n \in {0} \cup {TextLen[p] : p \in Procs}}
    /\ {pending, blocked, handler} \subseteq SUBSET {"INT", "HUP", "ALRM"}
    /\ alarm \in Nat /\ nap \in {0, 1} /\ turns \in Nat /\ sends \in 0 .. MaxSends

(* An alarm ends its program when it should: sigprocmask.c's, which it     *)
(* blocks, where it is unblocked, and alarm_signal.c's second, not first.  *)
AlarmsKillOnTime ==
    /\ program = "sigprocmask" => AlarmWaitsForUnblock
    /\ program = "alarm_signal" => UnreachableIsUnreachable

(* sigsuspend.c: hang-ups wake it, interrupts do not.                      *)
HangupsWake == program = "sigsuspend" => OnlyHangupsWake

ProgramEnded ==
    CASE program = "pipe"        -> PipeEnded
      [] program = "safe_thread" -> ThreadEnded
      [] program = "flock"       -> FlockEnded
      [] OTHER                   -> Ended

(* Every program but sigsuspend.c, which waits for its user, ends: the     *)
(* reader of the pipe sees its end of file, or its writer a broken pipe,   *)
(* whoever is killed; no thread and no process waits for a lock for ever;  *)
(* the alarms come.                                                        *)
ProgramsEnd == program # "sigsuspend" ~> ProgramEnded
=============================================================================
