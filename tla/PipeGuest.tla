----------------------------- MODULE PipeGuest -----------------------------
(***************************************************************************)
(* tests/pipe.c: a parent writes messages into a pipe, the child it forked *)
(* reads and echoes them until end of file.  The kernel's pipe is a queue  *)
(* of bytes that holds all of them (PIPE_BUF and capacity are never met),  *)
(* open for writing and reading as long as some process has that end.      *)
(***************************************************************************)
EXTENDS Integers, Sequences

CONSTANTS
    NumIts,    \* NUM_ITS
    MsgLen,    \* strlen(write_str) at the start
    Off,       \* OFF: the bytes behind the one that is counted up
    FirstByte, \* 'A', the low byte of *write_pt at the start
    ByteSize   \* the values of a byte

(* The byte that is counted up is that of the int Off from the end, and the *)
(* rounds are over before it wraps.                                        *)
ASSUME PipeAssumption ==
    /\ NumIts \in Nat /\ MsgLen \in Nat \ {0} /\ Off \in 1 .. MsgLen
    /\ FirstByte \in Nat \ {0} /\ ByteSize \in Nat /\ FirstByte + NumIts <= ByteSize

VARIABLES
    parent, child,    \* where the two processes are
    pipe,             \* bytes in it
    writers, readers, \* processes that hold an end
    sent,             \* bytes the parent has written
    round,            \* i
    buf,              \* the child's buffer
    out               \* what the child has echoed

pipeVars == <<parent, child, pipe, writers, readers, sent, round, buf, out>>

(* The i-th message: *write_pt += 1 counts its low byte up, and where that *)
(* wraps to zero the string ends.                                          *)
Length(i) == IF (FirstByte + i) % ByteSize = 0 THEN MsgLen - Off ELSE MsgLen

Message(i) == [k \in 1 .. Length(i) |-> <<i, k>>]

PipeInit ==
    /\ parent = "fork" /\ child = "none"
    /\ pipe = <<>> /\ writers = {"parent"} /\ readers = {"parent"}
    /\ sent = <<>> /\ round = 0
    /\ buf = [k \in 1 .. MsgLen |-> <<-1, k>>] /\ out = <<>>

Fork ==
    /\ parent = "fork" /\ parent' = "close" /\ child' = "close"
    /\ writers' = {"parent", "child"} /\ readers' = {"parent", "child"}
    /\ UNCHANGED <<pipe, sent, round, buf, out>>

ForkFails ==
    /\ parent = "fork" /\ parent' = "exited"
    /\ writers' = {} /\ readers' = {}
    /\ UNCHANGED <<child, pipe, sent, round, buf, out>>

(* close(pipefd[0]) in the parent.                                         *)
ParentCloses ==
    /\ parent = "close" /\ parent' = "write"
    /\ readers' = readers \ {"parent"}
    /\ UNCHANGED <<child, pipe, writers, sent, round, buf, out>>

(* Without a reader the write raises SIGPIPE.                              *)
ParentWrites ==
    /\ parent = "write" /\ round < NumIts
    /\ IF readers = {}
       THEN /\ parent' = "killed" /\ writers' = writers \ {"parent"}
            /\ UNCHANGED <<pipe, sent, round>>
       ELSE /\ pipe' = pipe \o Message(round) /\ sent' = sent \o Message(round)
            /\ round' = round + 1
            /\ UNCHANGED <<parent, writers>>
    /\ UNCHANGED <<child, readers, buf, out>>

ParentEnds ==
    /\ parent = "write" /\ round = NumIts /\ parent' = "exited"
    /\ writers' = writers \ {"parent"}
    /\ UNCHANGED <<child, pipe, readers, sent, round, buf, out>>

ChildKeepsWriteEnd ==      \* mutant: the unused write end stays open
    /\ child = "close" /\ child' = "read"
    /\ UNCHANGED <<parent, pipe, writers, readers, sent, round, buf, out>>

(* close(pipefd[1]) in the child.                                          *)
ChildCloses ==
    /\ child = "close" /\ child' = "read"
    /\ writers' = writers \ {"child"}
    /\ UNCHANGED <<parent, pipe, readers, sent, round, buf, out>>

ChildReadsBuffer ==        \* mutant: read(pipefd[0], &buf, sizeof(buf))
    /\ child = "read" /\ pipe # <<>> /\ child' = "echo"
    /\ buf' = [k \in 1 .. MsgLen |-> IF k <= Len(pipe) THEN pipe[k] ELSE buf[k]]
    /\ pipe' = SubSeq(pipe, 5 * MsgLen + 1, Len(pipe))
    /\ UNCHANGED <<parent, writers, readers, sent, round, out>>

(* read blocks until there are bytes or no writer is left; a short one     *)
(* leaves the rest of the buffer as it was.                                *)
ChildReads ==
    /\ child = "read" /\ pipe # <<>> /\ child' = "echo"
    /\ LET n == IF Len(pipe) < MsgLen THEN Len(pipe) ELSE MsgLen
       IN  /\ buf' = [k \in 1 .. MsgLen |-> IF k <= n THEN pipe[k] ELSE buf[k]]
           /\ pipe' = SubSeq(pipe, n + 1, Len(pipe))
    /\ UNCHANGED <<parent, writers, readers, sent, round, out>>

(* write(STDOUT_FILENO, &buf, strlen(write_str)), whatever was read.       *)
ChildEchoes ==
    /\ child = "echo" /\ child' = "read"
    /\ out' = out \o buf
    /\ UNCHANGED <<parent, pipe, writers, readers, sent, round, buf>>

ChildEnds ==
    /\ child = "read" /\ pipe = <<>> /\ writers = {} /\ child' = "exited"
    /\ readers' = readers \ {"child"}
    /\ UNCHANGED <<parent, pipe, writers, sent, round, buf, out>>

(* A user kills one of the two.                                            *)
KillParent ==
    /\ parent \in {"close", "write"} /\ parent' = "killed"
    /\ writers' = writers \ {"parent"} /\ readers' = readers \ {"parent"}
    /\ UNCHANGED <<child, pipe, sent, round, buf, out>>

KillChild ==
    /\ child \in {"close", "read", "echo"} /\ child' = "killed"
    /\ writers' = writers \ {"child"} /\ readers' = readers \ {"child"}
    /\ UNCHANGED <<parent, pipe, sent, round, buf, out>>

PipeParent == Fork \/ ParentCloses \/ ParentWrites \/ ParentEnds
PipeChild == ChildCloses \/ ChildReads \/ ChildEchoes \/ ChildEnds

PipeNext == PipeParent \/ PipeChild \/ ForkFails \/ KillParent \/ KillChild

PipeEnded == parent \in {"exited", "killed"} /\ child \in {"none", "exited", "killed"}

(* What the child prints is what the parent wrote, byte for byte and in    *)
(* order, though it writes a full message whatever read returned; if it    *)
(* gets to its end it has printed everything, also if the parent was       *)
(* killed on the way.                                                      *)
EchoesWhatWasSent ==
    /\ Len(out) <= Len(sent) /\ out = SubSeq(sent, 1, Len(out))
    /\ child = "exited" => out = sent /\ parent \in {"exited", "killed"}
=============================================================================
