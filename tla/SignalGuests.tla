---------------------------- MODULE SignalGuests ----------------------------
(***************************************************************************)
(* tests/sigprocmask.c (its child), tests/alarm_signal.c and               *)
(* tests/sigsuspend.c: one process, the clock, and a user who sends        *)
(* signals.  The kernel keeps the pending and the blocked signals, what    *)
(* each signal does, and the seconds left of alarm and sleep; it delivers  *)
(* what is pending and not blocked before the process runs on.             *)
(***************************************************************************)
EXTENDS Integers

CONSTANTS
    AlarmTime,           \* sigprocmask.c: ALARM_TIME
    UnblockAt,           \*   ALARM_TIME + 7
    Rounds,              \*   ALARM_TIME + 15
    FirstAlarm,          \* alarm_signal.c: alarm(2)
    SecondAlarm,         \*   alarm(3)
    Patience,            \*   bound: the rounds of its loop (100000000)
    MaxSends             \* bound: signals a user sends

(* The alarms come while the loops that wait for them run.                 *)
ASSUME SignalAssumption ==
    /\ AlarmTime \in Nat \ {0} /\ UnblockAt \in Nat /\ Rounds \in Nat
    /\ AlarmTime <= UnblockAt + 1 /\ UnblockAt < Rounds
    /\ FirstAlarm \in Nat \ {0} /\ SecondAlarm \in Nat \ {0}
    /\ Patience \in Nat /\ FirstAlarm + SecondAlarm <= Patience
    /\ MaxSends \in Nat

VARIABLES
    stage,       \* where the process is
    turns,         \* rounds of its loop begun
    pending, blocked, handler, \* sets of signals
    alarm, nap, \* seconds left, 0 for none
    sends,
    handled    \* history: how often the handler ran, per signal

signalVars == <<stage, turns, pending, blocked, handler, alarm, nap, sends, handled>>

SignalInit ==
    /\ stage = "start" /\ turns = 0
    /\ pending = {} /\ blocked = {} /\ handler = {}
    /\ alarm = 0 /\ nap = 0 /\ sends = 0
    /\ handled = [s \in {"INT", "HUP", "ALRM"} |-> 0]

Ended == stage \in {"killed", "unreachable", "end"}

(* A system call returns after what it made deliverable was delivered.     *)
Runs(here) == stage = here /\ pending \subseteq blocked /\ nap = 0

Tick ==
    /\ ~Ended /\ (alarm > 0 \/ nap > 0)
    /\ alarm' = IF alarm > 0 THEN alarm - 1 ELSE 0
    /\ nap' = IF nap > 0 THEN nap - 1 ELSE 0
    /\ pending' = IF alarm = 1 THEN pending \cup {"ALRM"} ELSE pending
    /\ UNCHANGED <<stage, turns, blocked, handler, sends, handled>>

(* A signal without a handler kills.                                       *)
DeliverDeadly(s) ==
    /\ ~Ended /\ s \in pending \ blocked /\ s \notin handler
    /\ stage' = "killed"
    /\ pending' = pending \ {s} /\ alarm' = 0 /\ nap' = 0
    /\ UNCHANGED <<turns, blocked, handler, sends, handled>>

-----------------------------------------------------------------------------
(* The child of sigprocmask.c.                                             *)
SetAlarm ==
    /\ Runs("start") /\ stage' = "block"
    /\ alarm' = AlarmTime
    /\ UNCHANGED <<turns, pending, blocked, handler, nap, sends, handled>>

Block ==
    /\ Runs("block") /\ stage' = "loop"
    /\ blocked' = blocked \cup {"ALRM"}
    /\ UNCHANGED <<turns, pending, handler, alarm, nap, sends, handled>>

Sleep ==
    /\ Runs("loop") /\ turns < Rounds /\ stage' = "asleep"
    /\ turns' = turns + 1 /\ nap' = 1
    /\ UNCHANGED <<pending, blocked, handler, alarm, sends, handled>>

(* The round in which the loop variable is UnblockAt is round UnblockAt + 1*)
Wake ==
    /\ Runs("asleep") /\ stage' = "loop"
    /\ blocked' = IF turns = UnblockAt + 1 THEN blocked \ {"ALRM"} ELSE blocked
    /\ UNCHANGED <<turns, pending, handler, alarm, nap, sends, handled>>

LeaveLoop ==
    /\ Runs("loop") /\ turns = Rounds /\ stage' = "end"
    /\ UNCHANGED <<turns, pending, blocked, handler, alarm, nap, sends, handled>>

MaskChild == SetAlarm \/ Block \/ Sleep \/ Wake \/ LeaveLoop

(* The alarm is certain to have expired when it is unblocked, and kills    *)
(* the child there, in the middle of its loop; earlier it can do so only   *)
(* where a child was stopped between alarm and sigprocmask, before its     *)
(* first line.  The last rounds of the loop are never run.                 *)
AlarmWaitsForUnblock ==
    /\ stage # "end" /\ turns <= UnblockAt + 1
    /\ stage = "killed" => turns \in {0, UnblockAt + 1}

-----------------------------------------------------------------------------
(* alarm_signal.c.                                                         *)
InstallAlarm ==
    /\ Runs("start") /\ stage' = "loop"
    /\ handler' = {"ALRM"} /\ alarm' = FirstAlarm
    /\ UNCHANGED <<turns, pending, blocked, nap, sends, handled>>

HandleAndStay ==           \* mutant: the handler does not restore SIG_DFL
    /\ ~Ended /\ "ALRM" \in pending \cap handler
    /\ pending' = pending \ {"ALRM"}
    /\ alarm' = SecondAlarm /\ nap' = 0
    /\ handled' = [handled EXCEPT !["ALRM"] = @ + 1]
    /\ UNCHANGED <<stage, turns, blocked, handler, sends>>

(* alarm_signal_handler: back to SIG_DFL, and a last alarm; sleep is       *)
(* interrupted, SA_RESTART or not.                                         *)
HandleAlarm ==
    /\ ~Ended /\ "ALRM" \in pending \cap handler
    /\ pending' = pending \ {"ALRM"}
    /\ handler' = handler \ {"ALRM"}
    /\ alarm' = SecondAlarm /\ nap' = 0
    /\ handled' = [handled EXCEPT !["ALRM"] = @ + 1]
    /\ UNCHANGED <<stage, turns, blocked, sends>>

Count ==
    /\ Runs("loop") /\ turns < Patience
    /\ turns' = turns + 1 /\ nap' = 1
    /\ UNCHANGED <<stage, pending, blocked, handler, alarm, sends, handled>>

LoopEnds ==
    /\ Runs("loop") /\ turns = Patience /\ stage' = "unreachable"
    /\ UNCHANGED <<turns, pending, blocked, handler, alarm, nap, sends, handled>>

AlarmMain == InstallAlarm \/ HandleAlarm \/ Count \/ LoopEnds

(* The line after the loop, "Unreachable", is: the second alarm kills the  *)
(* process, after one call of the handler, before the loop has begun more  *)
(* rounds than the two alarms take seconds.                                *)
UnreachableIsUnreachable ==
    /\ stage # "unreachable"
    /\ turns <= FirstAlarm + SecondAlarm
    /\ stage = "killed" => handled["ALRM"] = 1

-----------------------------------------------------------------------------
(* sigsuspend.c: handlers for INT and HUP; the first may come before them. *)
InstallHandlers ==
    /\ Runs("start") /\ stage' = "loop"
    /\ handler' = {"INT", "HUP"}
    /\ UNCHANGED <<turns, pending, blocked, alarm, nap, sends, handled>>

SuspendWithEmptyMask ==    \* mutant: sigaddset is forgotten
    /\ Runs("loop") /\ turns < 3 /\ stage' = "suspended"
    /\ turns' = turns + 1
    /\ UNCHANGED <<pending, blocked, handler, alarm, nap, sends, handled>>

(* sigsuspend swaps the mask and waits; what is pending and not in the new *)
(* mask ends it at once.                                                   *)
Suspend ==
    /\ Runs("loop") /\ turns < 3 /\ stage' = "suspended"
    /\ turns' = turns + 1 /\ blocked' = {"INT"}
    /\ UNCHANGED <<pending, handler, alarm, nap, sends, handled>>

(* A handled signal ends the suspension, which restores the empty mask; a  *)
(* pending INT is handled then, before the next one.                       *)
Handle(s) ==
    /\ ~Ended /\ s \in (pending \ blocked) \cap handler
    /\ pending' = pending \ {s}
    /\ IF stage = "suspended"
       THEN stage' = "loop" /\ blocked' = {}
       ELSE UNCHANGED <<stage, blocked>>
    /\ handled' = [handled EXCEPT ![s] = @ + 1]
    /\ UNCHANGED <<turns, handler, alarm, nap, sends>>

Finish ==
    /\ Runs("loop") /\ turns = 3 /\ stage' = "end"
    /\ UNCHANGED <<turns, pending, blocked, handler, alarm, nap, sends, handled>>

(* A user; a signal that is already pending is not counted twice.          *)
Send(s) ==
    /\ ~Ended /\ sends < MaxSends /\ sends' = sends + 1
    /\ pending' = pending \cup {s}
    /\ UNCHANGED <<stage, turns, blocked, handler, alarm, nap, handled>>

SuspendMain ==
    \/ InstallHandlers \/ Suspend \/ Finish
    \/ \E s \in {"INT", "HUP"} : Handle(s) \/ DeliverDeadly(s)

(* Only hang-ups count: to get past its k-th suspension the program has    *)
(* handled k of them, and no interrupt, pending before or sent during it,  *)
(* shortens one; none that was sent before the end is lost.                *)
OnlyHangupsWake ==
    /\ handled["HUP"] >= (IF stage \in {"loop", "end"} THEN turns ELSE turns - 1)
    /\ stage = "end" => sends >= 3 /\ "INT" \notin pending
=============================================================================
