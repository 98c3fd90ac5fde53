---------------------------- MODULE GuestsProofs ----------------------------
(***************************************************************************)
(* Proofs about the test programs with processes, threads, locks, pipes    *)
(* and signals: each for any number of processes, rounds and signals.      *)
(***************************************************************************)
EXTENDS Guests, TLAPS

-----------------------------------------------------------------------------
(* tests/flock.c.                                                          *)
FlockTypeOK ==
    /\ step \in [Procs -> {"open", "lock", "print", "close", "exited", "killed"}]
    /\ owner \subseteq Procs
    /\ owner = {} \/ \E p \in Procs : owner = {p}
    /\ \A p \in Procs : owner = {p} <=> step[p] = "print"
    /\ \E n \in {0} \cup {TextLen[p] : p \in Procs} : DOMAIN file = 1 .. n
    /\ file = [k \in DOMAIN file |-> file[k]]
    /\ last \subseteq Procs

(* Two processes that have the file open overlap, and so do one that has   *)
(* it open and the one whose bytes are in it: opening would have truncated *)
(* them.                                                                   *)
OpenTogether ==
    \A p, q \in Procs : p # q /\ IsOpen(p) /\ IsOpen(q) => {p, q} \subseteq overlap

WrittenMeanwhile ==
    \A p \in Procs : IsOpen(p) => \A k \in DOMAIN file : {p, file[k]} \subseteq overlap

FlockInv == FlockTypeOK /\ OpenTogether /\ WrittenMeanwhile /\ LastCloserWins

LEMMA FlockStart == FlockInit => FlockInv
<1> SUFFICES ASSUME FlockInit PROVE FlockInv
  OBVIOUS
<1> USE DEF FlockInit
<1>1. DOMAIN file = 1 .. 0 /\ file = [k \in DOMAIN file |-> file[k]]
  OBVIOUS
<1>2. FlockTypeOK
  BY <1>1 DEF FlockTypeOK
<1> QED
  BY <1>1, <1>2 DEF FlockInv, OpenTogether, WrittenMeanwhile, LastCloserWins, IsOpen

(* The longer of the texts already there and the one written.              *)
LEMMA LongerText ==
    ASSUME NEW p \in Procs, NEW n \in {0} \cup {TextLen[q] : q \in Procs}
    PROVE  \E m \in {0} \cup {TextLen[q] : q \in Procs} : Places(p) \cup 1 .. n = 1 .. m
<1>1. TextLen[p] \in Nat /\ n \in Nat
  BY FlockAssumption
<1>2. CASE n <= TextLen[p]
  <2>1. Places(p) \cup 1 .. n = 1 .. TextLen[p]
    BY <1>1, <1>2 DEF Places
  <2> QED
    BY <2>1
<1>3. CASE n > TextLen[p]
  <2>1. Places(p) \cup 1 .. n = 1 .. n
    BY <1>1, <1>3 DEF Places
  <2> QED
    BY <2>1
<1> QED
  BY <1>1, <1>2, <1>3

LEMMA FopenStep == ASSUME FlockInv, NEW p \in Procs, Fopen(p) PROVE FlockInv'
<1>1. /\ step[p] = "open" /\ step' = [step EXCEPT ![p] = "lock"] /\ file' = <<>>
      /\ overlap' = IF Others(p) = {} THEN overlap ELSE overlap \cup {p} \cup Others(p)
      /\ owner' = owner /\ last' = last
  BY DEF Fopen, GoOn
<1>2. DOMAIN file' = 1 .. 0 /\ file' = [k \in DOMAIN file' |-> file'[k]]
  BY <1>1
<1>3. FlockTypeOK'
  BY <1>1, <1>2 DEF FlockInv, FlockTypeOK
<1>4. OpenTogether'
  BY <1>1 DEF FlockInv, FlockTypeOK, OpenTogether, IsOpen, Others
<1>5. WrittenMeanwhile' /\ LastCloserWins'
  BY <1>1, <1>2 DEF WrittenMeanwhile, LastCloserWins
<1> QED
  BY <1>3, <1>4, <1>5 DEF FlockInv

LEMMA FcloseStep == ASSUME FlockInv, NEW p \in Procs, Fclose(p) PROVE FlockInv'
<1>1. /\ step[p] = "close" /\ step' = [step EXCEPT ![p] = "exited"]
      /\ file' = Overwritten(p) /\ last' = {p} /\ owner' = owner /\ overlap' = overlap
  BY DEF Fclose, GoOn
<1>2. /\ DOMAIN file' = Places(p) \cup DOMAIN file
      /\ file' = [k \in DOMAIN file' |-> file'[k]]
      /\ \A k \in DOMAIN file' : file'[k] = IF k \in Places(p) THEN p ELSE file[k]
  BY <1>1 DEF Overwritten
<1>3. IsOpen(p)
  BY <1>1 DEF IsOpen
<1>4. FlockTypeOK'
  <2>1. PICK n \in {0} \cup {TextLen[q] : q \in Procs} : DOMAIN file = 1 .. n
    BY DEF FlockInv, FlockTypeOK
  <2>2. PICK m \in {0} \cup {TextLen[q] : q \in Procs} : Places(p) \cup 1 .. n = 1 .. m
    BY LongerText
  <2>3. DOMAIN file' = 1 .. m
    BY <1>2, <2>1, <2>2
  <2> QED
    BY <1>1, <1>2, <2>3 DEF FlockInv, FlockTypeOK
<1>5. OpenTogether'
  BY <1>1 DEF FlockInv, FlockTypeOK, OpenTogether, IsOpen
<1>6. WrittenMeanwhile'
  <2> SUFFICES ASSUME NEW q \in Procs, IsOpen(q)', NEW k \in DOMAIN file'
               PROVE  {q, file'[k]} \subseteq overlap'
    BY DEF WrittenMeanwhile
  <2>1. q # p /\ IsOpen(q)
    BY <1>1 DEF FlockInv, FlockTypeOK, IsOpen
  <2> QED
    BY <1>1, <1>2, <1>3, <2>1 DEF FlockInv, OpenTogether, WrittenMeanwhile
<1>7. LastCloserWins'
  <2>1. \A k \in DOMAIN file : {p, file[k]} \subseteq overlap
    BY <1>3 DEF FlockInv, WrittenMeanwhile
  <2>2. p \notin overlap => Len(file') = TextLen[p]
    <3> SUFFICES ASSUME p \notin overlap PROVE Len(file') = TextLen[p]
      OBVIOUS
    <3>1. DOMAIN file = {} /\ TextLen[p] \in Nat
      BY <2>1, FlockAssumption
    <3>2. file' = [k \in 1 .. TextLen[p] |-> file'[k]]
      BY <1>2, <3>1 DEF Places
    <3> QED
      BY <3>1, <3>2
  <2>3. /\ Places(p) \subseteq DOMAIN file' /\ \A k \in Places(p) : file'[k] = p
        /\ \A k \in DOMAIN file' \ Places(p) : {p, file'[k]} \subseteq overlap'
    BY <1>1, <1>2, <2>1
  <2> QED
    BY <1>1, <2>2, <2>3 DEF LastCloserWins, Places
<1> QED
  BY <1>4, <1>5, <1>6, <1>7 DEF FlockInv

(* The other steps do not write, and open nothing.                         *)
LEMMA FlockQuiet ==
    ASSUME FlockInv, UNCHANGED <<file, last, overlap>>, FlockTypeOK',
           \A q \in Procs : IsOpen(q)' => IsOpen(q)
    PROVE  FlockInv'
  BY DEF FlockInv, OpenTogether, WrittenMeanwhile, LastCloserWins, Places

LEMMA FlockStep == FlockInv /\ FlockNext => FlockInv'
<1> SUFFICES ASSUME FlockInv, NEW p \in Procs,
                    FlockProc(p) \/ FopenFails(p) \/ KillHolder(p)
             PROVE  FlockInv'
  BY DEF FlockNext
<1> USE DEF FlockInv, FlockTypeOK, GoOn, IsOpen
<1>1. CASE FopenFails(p)
  BY <1>1, FlockQuiet DEF FopenFails
<1>2. CASE Flock(p)
  BY <1>2, FlockQuiet DEF Flock
<1>3. CASE Funlock(p)
  BY <1>3, FlockQuiet DEF Funlock
<1>4. CASE KillHolder(p)
  BY <1>4, FlockQuiet DEF KillHolder
<1> QED
  BY <1>1, <1>2, <1>3, <1>4, FopenStep, FcloseStep DEF FlockProc

LEMMA FlockFrame == FlockInv /\ UNCHANGED flockVars => FlockInv'
BY DEF FlockInv, FlockTypeOK, OpenTogether, WrittenMeanwhile, LastCloserWins, IsOpen,
       Places, flockVars

-----------------------------------------------------------------------------
(* tests/safe_thread.c.                                                    *)
Within == {"load", "store", "unlock"}      \* where a thread has the lock
Stages == {"lock", "done"} \cup Within

ThreadTypeOK ==
    /\ at \in [Threads -> {"create", "init", "sleep", "exit", "none"} \cup Stages]
    /\ at["main"] \in {"create", "init", "sleep", "exit"} \cup Within \cup {"lock"}
    /\ at["child"] \in {"none"} \cup Stages
    /\ at["main"] = "create" => at["child"] = "none"
    /\ j \in [Threads -> 0 .. N] /\ reg \in [Threads -> Int]
    /\ held \in BOOLEAN /\ count \in Int /\ hit \in BOOLEAN
    /\ at["main"] \in {"create", "init"} => j["main"] = 0 /\ ~hit
    /\ at["child"] = "none" => j["child"] = 0
    /\ at["main"] \in {"sleep", "exit"} => j["main"] = N
    /\ at["child"] = "done" => j["child"] = N
    /\ \A t \in Threads : at[t] \in Within => j[t] < N

(* The rounds a thread has counted, and twice what they add up to.         *)
Counted(t) == IF at[t] = "unlock" THEN j[t] + 1 ELSE j[t]
Twice(n) == n * (n - 1)

(* If the initialisation found the lock free, the lock was always right,   *)
(* and the counter is what the rounds add up to.                           *)
Exclusive ==
    /\ held <=> at["main"] \in Within \/ at["child"] \in Within
    /\ ~(at["main"] \in Within /\ at["child"] \in Within)

CountIsRight ==
    /\ \A t \in Threads : at[t] = "store" => reg[t] = count
    /\ 2 * count = Twice(Counted("main")) - Twice(Counted("child"))

ThreadInv == ThreadTypeOK /\ (~hit => Exclusive /\ CountIsRight)

LEMMA TwiceNext ==
    ASSUME NEW n \in Int PROVE Twice(n) \in Int /\ Twice(n + 1) = Twice(n) + 2 * n
  BY DEF Twice

LEMMA OneRound ==
    ASSUME NEW m \in Int, NEW c \in Int, NEW k \in Int, 2 * k = Twice(m) - Twice(c)
    PROVE  2 * (k + m) = Twice(m + 1) - Twice(c) /\ 2 * (k - c) = Twice(m) - Twice(c + 1)
<1> DEFINE x == Twice(m)
           y == Twice(c)
<1>1. x \in Int /\ y \in Int /\ 2 * k = x - y
  BY TwiceNext
<1>2. Twice(m + 1) = x + 2 * m /\ Twice(c + 1) = y + 2 * c
  BY TwiceNext
<1> HIDE DEF x, y
<1>3. 2 * (k + m) = (x + 2 * m) - y /\ 2 * (k - c) = x - (y + 2 * c)
  BY <1>1
<1> QED
  BY <1>2, <1>3 DEF x, y

LEMMA ThreadStart == ThreadInit => ThreadInv
<1> SUFFICES ASSUME ThreadInit PROVE ThreadInv
  OBVIOUS
<1> USE ThreadAssumption DEF ThreadInit, Threads, Within, Stages
<1>1. ThreadTypeOK
  <2>1. at \in [Threads -> {"create", "init", "sleep", "exit", "none"} \cup Stages]
    OBVIOUS
  <2>2. j \in [Threads -> 0 .. N] /\ reg \in [Threads -> Int]
    OBVIOUS
  <2>3. at["main"] = "create" /\ at["child"] = "none" /\ j["main"] = 0 /\ j["child"] = 0
    OBVIOUS
  <2> QED
    BY <2>1, <2>2, <2>3 DEF ThreadTypeOK
<1>2. Exclusive
  BY DEF Exclusive
<1>3. CountIsRight
  <2>1. Counted("main") = 0 /\ Counted("child") = 0 /\ count = 0
    BY DEF Counted
  <2>2. Twice(0) = 0
    BY DEF Twice
  <2> QED
    BY <2>1, <2>2 DEF CountIsRight
<1> QED
  BY <1>1, <1>2, <1>3 DEF ThreadInv

LEMMA StoreStep == ASSUME ThreadInv, NEW t \in Threads, Store(t) PROVE ThreadInv'
<1> USE DEF ThreadInv, ThreadTypeOK, Within, Stages, Threads
<1>1. /\ at[t] = "store" /\ at' = [at EXCEPT ![t] = "unlock"] /\ count' = reg[t] + Delta(t)
      /\ UNCHANGED <<j, reg, held, hit>>
  BY DEF Store, Goto
<1>2. j \in [Threads -> Int]
  BY ThreadAssumption
<1>3. ThreadTypeOK'
  <2>1. count' \in Int
    BY <1>1, <1>2 DEF Delta
  <2> QED
    BY <1>1, <2>1
<1>4. ASSUME ~hit PROVE Exclusive' /\ CountIsRight'
  <2>1. Exclusive /\ CountIsRight
    BY <1>4
  <2>2. Exclusive'
    BY <1>1, <2>1 DEF Exclusive
  <2>3. \A u \in Threads : at'[u] # "store"
    BY <1>1, <2>1 DEF Exclusive
  <2>4. 2 * count' = Twice(Counted("main"))' - Twice(Counted("child"))'
    <3> DEFINE m == j["main"]
               c == j["child"]
    <3>1. m \in Int /\ c \in Int /\ reg[t] = count /\ count \in Int
      BY <1>1, <1>2, <2>1 DEF CountIsRight
    <3>4. CASE t = "main"
      <4>1. at["child"] # "unlock"
        BY <1>1, <2>1, <3>4 DEF Exclusive
      <4>2. Counted("main") = m /\ Counted("child") = c
        BY <1>1, <3>4, <4>1 DEF Counted
      <4>3. Counted("main")' = m + 1 /\ Counted("child")' = c
        BY <1>1, <3>4, <4>1 DEF Counted
      <4>4. 2 * count = Twice(m) - Twice(c) /\ count' = count + m
        BY <1>1, <2>1, <3>1, <3>4, <4>2 DEF CountIsRight, Delta
      <4>5. Twice(Counted("main"))' = Twice(m + 1) /\ Twice(Counted("child"))' = Twice(c)
        BY <4>3 DEF Twice
      <4> HIDE DEF m, c
      <4>6. 2 * count' = Twice(m + 1) - Twice(c)
        BY <3>1, <4>4, OneRound
      <4> QED
        BY <4>5, <4>6
    <3>5. CASE t = "child"
      <4>1. at["main"] # "unlock"
        BY <1>1, <2>1, <3>5 DEF Exclusive
      <4>2. Counted("main") = m /\ Counted("child") = c
        BY <1>1, <3>5, <4>1 DEF Counted
      <4>3. Counted("main")' = m /\ Counted("child")' = c + 1
        BY <1>1, <3>5, <4>1 DEF Counted
      <4>4. 2 * count = Twice(m) - Twice(c) /\ count' = count - c
        BY <1>1, <2>1, <3>1, <3>5, <4>2 DEF CountIsRight, Delta
      <4>5. Twice(Counted("main"))' = Twice(m) /\ Twice(Counted("child"))' = Twice(c + 1)
        BY <4>3 DEF Twice
      <4> HIDE DEF m, c
      <4>6. 2 * count' = Twice(m) - Twice(c + 1)
        BY <3>1, <4>4, OneRound
      <4> QED
        BY <4>5, <4>6
    <3> QED
      BY <3>4, <3>5
  <2> QED
    BY <2>2, <2>3, <2>4 DEF CountIsRight
<1> QED
  BY <1>1, <1>3, <1>4

(* A step that neither counts nor counts a round.                          *)
LEMMA RoundsStay ==
    ASSUME ThreadInv, ThreadTypeOK', count' = count,
           ~hit' => ~hit /\ Exclusive' /\ \A t \in Threads : at'[t] = "store" => reg'[t] = count,
           \A t \in Threads : Counted(t)' = Counted(t)
    PROVE  ThreadInv'
<1> SUFFICES ASSUME ~hit' PROVE CountIsRight'
  BY DEF ThreadInv
<1>1. Counted("main")' = Counted("main") /\ Counted("child")' = Counted("child")
  BY DEF Threads
<1>2. CountIsRight
  BY DEF ThreadInv
<1> QED
  BY <1>1, <1>2 DEF CountIsRight, Twice

LEMMA ThreadStep == ThreadInv /\ ThreadNext => ThreadInv'
<1> SUFFICES ASSUME ThreadInv, ThreadNext PROVE ThreadInv'
  OBVIOUS
<1> USE ThreadAssumption
        DEF ThreadInv, ThreadTypeOK, Within, Stages, Threads, Goto, Counted, Exclusive
<1>1. CASE Create \/ CreateFails
  BY <1>1, RoundsStay DEF Create, CreateFails, CountIsRight
<1>2. CASE InitMutex
  BY <1>2, RoundsStay DEF InitMutex, CountIsRight
<1>3. ASSUME NEW t \in Threads, Lock(t) PROVE ThreadInv'
  BY <1>3, RoundsStay DEF Lock, CountIsRight
<1>4. ASSUME NEW t \in Threads, Load(t) PROVE ThreadInv'
  BY <1>4, RoundsStay DEF Load, CountIsRight
<1>5. ASSUME NEW t \in Threads, Unlock(t) PROVE ThreadInv'
  <2>1. /\ at[t] = "unlock" /\ at' = [at EXCEPT ![t] = "lock"] /\ held' = FALSE
        /\ j' = [j EXCEPT ![t] = j[t] + 1] /\ UNCHANGED <<reg, count, hit>>
    BY <1>5 DEF Unlock
  <2>2. j[t] < N /\ j[t] + 1 \in 0 .. N
    BY <2>1
  <2>3. ThreadTypeOK'
    BY <2>1, <2>2
  <2>4. \A u \in Threads : Counted(u)' = Counted(u)
    BY <2>1
  <2>5. ~hit' => ~hit /\ Exclusive' /\ \A u \in Threads : at'[u] = "store" => reg'[u] = count
    BY <2>1 DEF CountIsRight
  <2> HIDE DEF ThreadInv, ThreadTypeOK, Exclusive, Counted
  <2> QED
    BY <2>1, <2>3, <2>4, <2>5, RoundsStay
<1>6. ASSUME NEW t \in Threads, Leave(t) PROVE ThreadInv'
  BY <1>6, RoundsStay DEF Leave, CountIsRight
<1>7. CASE ExitProcess
  BY <1>7, RoundsStay DEF ExitProcess, CountIsRight
<1> QED
  BY <1>1, <1>2, <1>3, <1>4, <1>5, <1>6, <1>7, StoreStep DEF ThreadNext, ThreadMain, Loop

LEMMA ThreadFrame == ThreadInv /\ UNCHANGED threadVars => ThreadInv'
BY DEF ThreadInv, ThreadTypeOK, Exclusive, CountIsRight, Counted, Twice, threadVars

LEMMA ThreadSafe == ThreadInv => LateInitOnlyRisk
<1> SUFFICES ASSUME ThreadInv, at["main"] \in {"sleep", "exit"}, at["child"] = "done", ~hit
             PROVE  count = 0
  BY DEF LateInitOnlyRisk
<1>1. Counted("main") = N /\ Counted("child") = N /\ count \in Int
  BY DEF ThreadInv, ThreadTypeOK, Counted
<1>2. 2 * count = Twice(N) - Twice(N) /\ Twice(N) \in Int
  BY <1>1, TwiceNext, ThreadAssumption DEF ThreadInv, CountIsRight
<1> QED
  BY <1>1, <1>2

-----------------------------------------------------------------------------
(* tests/pipe.c.                                                           *)
Bytes == Int \X Int

PipeTypeOK ==
    /\ parent \in {"fork", "close", "write", "exited", "killed"}
    /\ child \in {"none", "close", "read", "echo", "exited", "killed"}
    /\ writers \subseteq {"parent", "child"} /\ readers \subseteq {"parent", "child"}
    /\ parent = "fork" => child = "none"
    /\ parent \in {"fork", "close", "write"} => "parent" \in writers
    /\ child = "exited" => parent \in {"exited", "killed"} /\ pipe = <<>>
    /\ round \in 0 .. NumIts
    /\ pipe \in Seq(Bytes) /\ sent \in Seq(Bytes) /\ out \in Seq(Bytes)
    /\ buf \in [1 .. MsgLen -> Bytes]

(* The pipe holds whole messages, and with what the child has echoed and   *)
(* what it is about to echo they are all that was sent.                    *)
Taken == Len(out) + (IF child = "echo" THEN MsgLen ELSE 0)

NothingLost ==
    /\ Len(sent) = Taken + Len(pipe)
    /\ \E n \in Nat : Len(pipe) = n * MsgLen
    /\ \A k \in 1 .. Len(pipe) : pipe[k] = sent[Taken + k]
    /\ child = "echo" => \A k \in 1 .. MsgLen : buf[k] = sent[Len(out) + k]

Echoed ==
    /\ Len(out) <= Len(sent)
    /\ \A k \in 1 .. Len(out) : out[k] = sent[k]

PipeInv == PipeTypeOK /\ Echoed /\ (child # "killed" => NothingLost)

LEMMA NoRemainder == ASSUME NEW x \in Nat, NEW b \in Nat, x < b PROVE x % b = x
  OBVIOUS

(* No message is cut short.                                                *)
LEMMA FullMessage ==
    ASSUME NEW i \in 0 .. NumIts, i < NumIts
    PROVE  /\ Message(i) \in Seq(Bytes) /\ Len(Message(i)) = MsgLen
<1>1. FirstByte + i \in Nat \ {0} /\ FirstByte + i < ByteSize /\ ByteSize \in Nat
  BY PipeAssumption
<1>2. Length(i) = MsgLen
  BY <1>1, NoRemainder DEF Length
<1>3. Message(i) = [k \in 1 .. MsgLen |-> <<i, k>>]
  BY <1>2 DEF Message
<1>4. MsgLen \in Nat /\ \A k \in 1 .. MsgLen : <<i, k>> \in Bytes
  BY PipeAssumption DEF Bytes
<1> QED
  BY <1>3, <1>4

LEMMA PipeStart == PipeInit => PipeInv
<1> SUFFICES ASSUME PipeInit PROVE PipeInv
  OBVIOUS
<1> USE PipeAssumption DEF PipeInit
<1>1. buf \in [1 .. MsgLen -> Bytes]
  BY DEF Bytes
<1>2. PipeTypeOK
  BY <1>1 DEF PipeTypeOK
<1>3. Len(pipe) = 0 * MsgLen /\ 0 \in Nat
  OBVIOUS
<1>4. NothingLost
  BY <1>3 DEF NothingLost, Taken
<1>5. Echoed
  BY DEF Echoed
<1> QED
  BY <1>2, <1>4, <1>5 DEF PipeInv

LEMMA Appended ==
    ASSUME NEW S, NEW s \in Seq(S), NEW t \in Seq(S)
    PROVE  /\ s \o t \in Seq(S) /\ Len(s) \in Nat /\ Len(s \o t) = Len(s) + Len(t)
           /\ \A k \in 1 .. Len(s) : (s \o t)[k] = s[k]
           /\ \A k \in 1 .. Len(t) : (s \o t)[Len(s) + k] = t[k]
<1>1. s \o t \in Seq(S) /\ Len(s) \in Nat /\ Len(t) \in Nat /\ Len(s \o t) = Len(s) + Len(t)
  OBVIOUS
<1>2. \A k \in 1 .. Len(s) : (s \o t)[k] = s[k]
  OBVIOUS
<1>3. ASSUME NEW k \in 1 .. Len(t) PROVE (s \o t)[Len(s) + k] = t[k]
  <2> DEFINE i == Len(s) + k
  <2>1. i \in 1 .. Len(s) + Len(t) /\ i > Len(s) /\ i - Len(s) = k
    BY <1>1
  <2> HIDE DEF i
  <2>2. (s \o t)[i] = t[i - Len(s)]
    BY <1>1, <2>1
  <2> QED
    BY <2>1, <2>2 DEF i
<1> QED
  BY <1>1, <1>2, <1>3

LEMMA WriteStep ==
    ASSUME PipeInv, ParentWrites, readers # {}
    PROVE  PipeInv'
<1> DEFINE m == Message(round)
<1>1. /\ parent = "write" /\ round < NumIts /\ pipe' = pipe \o m /\ sent' = sent \o m
      /\ round' = round + 1 /\ UNCHANGED <<parent, writers, child, readers, buf, out>>
  BY DEF ParentWrites
<1>2. round \in 0 .. NumIts /\ NumIts \in Nat /\ MsgLen \in Nat \ {0}
  BY PipeAssumption DEF PipeInv, PipeTypeOK
<1>3. m \in Seq(Bytes) /\ Len(m) = MsgLen
  BY <1>1, <1>2, FullMessage
<1> HIDE DEF m
<1>4. /\ pipe \in Seq(Bytes) /\ sent \in Seq(Bytes) /\ out \in Seq(Bytes)
      /\ Len(pipe') = Len(pipe) + MsgLen /\ Len(sent') = Len(sent) + MsgLen
      /\ \A k \in 1 .. Len(sent) : sent'[k] = sent[k]
      /\ \A k \in 1 .. MsgLen : sent'[Len(sent) + k] = m[k]
      /\ \A k \in 1 .. Len(pipe) : pipe'[k] = pipe[k]
      /\ \A k \in 1 .. MsgLen : pipe'[Len(pipe) + k] = m[k]
  <2>1. pipe \in Seq(Bytes) /\ sent \in Seq(Bytes) /\ out \in Seq(Bytes)
    BY DEF PipeInv, PipeTypeOK
  <2>2. /\ Len(pipe') = Len(pipe) + MsgLen
        /\ \A k \in 1 .. Len(pipe) : pipe'[k] = pipe[k]
        /\ \A k \in 1 .. MsgLen : pipe'[Len(pipe) + k] = m[k]
    <3>1. /\ Len(pipe \o m) = Len(pipe) + Len(m)
          /\ \A k \in 1 .. Len(pipe) : (pipe \o m)[k] = pipe[k]
          /\ \A k \in 1 .. Len(m) : (pipe \o m)[Len(pipe) + k] = m[k]
      BY <1>3, <2>1, Appended
    <3> QED
      BY <1>1, <1>3, <3>1
  <2>3. /\ Len(sent') = Len(sent) + MsgLen
        /\ \A k \in 1 .. Len(sent) : sent'[k] = sent[k]
        /\ \A k \in 1 .. MsgLen : sent'[Len(sent) + k] = m[k]
    <3>1. /\ Len(sent \o m) = Len(sent) + Len(m)
          /\ \A k \in 1 .. Len(sent) : (sent \o m)[k] = sent[k]
          /\ \A k \in 1 .. Len(m) : (sent \o m)[Len(sent) + k] = m[k]
      BY <1>3, <2>1, Appended
    <3> QED
      BY <1>1, <1>3, <3>1
  <2> QED
    BY <2>1, <2>2, <2>3
<1>5. PipeTypeOK'
  <2>1. pipe' \in Seq(Bytes) /\ sent' \in Seq(Bytes)
    BY <1>1, <1>3, <1>4
  <2> QED
    BY <1>1, <1>2, <2>1 DEF PipeInv, PipeTypeOK
<1>6. Echoed'
  BY <1>1, <1>2, <1>4 DEF PipeInv, Echoed
<1>7. ASSUME child # "killed" PROVE NothingLost'
  <2>1. NothingLost /\ Taken' = Taken /\ Taken \in Nat
    BY <1>1, <1>2, <1>4, <1>7 DEF PipeInv, Taken
  <2> HIDE DEF Taken
  <2>0. Len(sent) = Taken + Len(pipe) /\ Len(pipe) \in Nat /\ Len(sent) \in Nat
    BY <1>4, <2>1 DEF NothingLost
  <2>2. Len(sent') = Taken' + Len(pipe')
    BY <1>2, <1>4, <2>0, <2>1
  <2>3. \E n \in Nat : Len(pipe') = n * MsgLen
    <3>1. PICK n \in Nat : Len(pipe) = n * MsgLen
      BY <2>1 DEF NothingLost
    <3>2. Len(pipe') = (n + 1) * MsgLen
      BY <1>2, <1>4, <3>1
    <3> QED
      BY <3>1, <3>2
  <2>4. ASSUME NEW k \in 1 .. Len(pipe') PROVE pipe'[k] = sent'[Taken' + k]
    <3>1. CASE k <= Len(pipe)
      <4>1. k \in 1 .. Len(pipe) /\ Taken + k \in 1 .. Len(sent)
        BY <1>4, <2>1, <3>1 DEF NothingLost
      <4> QED
        BY <1>4, <2>1, <4>1 DEF NothingLost
    <3>2. CASE k > Len(pipe)
      <4> DEFINE i == k - Len(pipe)
      <4>1. i \in 1 .. MsgLen /\ k = Len(pipe) + i /\ Taken + k = Len(sent) + i
        BY <1>2, <1>4, <2>0, <2>1, <3>2
      <4> HIDE DEF i
      <4>2. pipe'[Len(pipe) + i] = m[i] /\ sent'[Len(sent) + i] = m[i]
        BY <1>4, <4>1
      <4> QED
        BY <2>1, <4>1, <4>2
    <3> QED
      BY <1>4, <3>1, <3>2
  <2>5. child = "echo" => \A k \in 1 .. MsgLen : buf'[k] = sent'[Len(out') + k]
    <3> SUFFICES ASSUME child = "echo", NEW k \in 1 .. MsgLen PROVE buf[k] = sent'[Len(out) + k]
      BY <1>1
    <3>1. Len(out) + k \in 1 .. Len(sent)
      BY <1>2, <1>4, <2>1 DEF NothingLost, Taken
    <3> QED
      BY <1>4, <2>1, <3>1 DEF NothingLost
  <2> QED
    BY <1>1, <2>2, <2>3, <2>4, <2>5 DEF NothingLost
<1> QED
  BY <1>1, <1>5, <1>6, <1>7 DEF PipeInv

LEMMA ReadStep == ASSUME PipeInv, ChildReads PROVE PipeInv'
<1>1. /\ child = "read" /\ pipe # <<>> /\ child' = "echo"
      /\ UNCHANGED <<parent, writers, readers, sent, round, out>>
  BY DEF ChildReads
<1>2. /\ pipe \in Seq(Bytes) /\ sent \in Seq(Bytes) /\ out \in Seq(Bytes)
      /\ buf \in [1 .. MsgLen -> Bytes] /\ MsgLen \in Nat \ {0} /\ NothingLost
      /\ Taken = Len(out) /\ Taken' = Len(out) + MsgLen
  BY <1>1, PipeAssumption DEF PipeInv, PipeTypeOK, Taken
<1>3. PICK n \in Nat : Len(pipe) = n * MsgLen
  BY <1>2 DEF NothingLost
<1>4. n # 0 /\ Len(pipe) >= MsgLen /\ Len(pipe) - MsgLen = (n - 1) * MsgLen
  <2>1. Len(pipe) # 0
    BY <1>1, <1>2
  <2>2. n # 0
    BY <1>2, <1>3, <2>1
  <2>3. n - 1 \in Nat /\ (n - 1) * MsgLen \in Nat /\ n * MsgLen = (n - 1) * MsgLen + MsgLen
    BY <1>2, <2>2
  <2> QED
    BY <1>2, <1>3, <2>2, <2>3
<1>5. /\ buf' = [k \in 1 .. MsgLen |-> IF k <= MsgLen THEN pipe[k] ELSE buf[k]]
      /\ pipe' = SubSeq(pipe, MsgLen + 1, Len(pipe))
  <2>1. (IF Len(pipe) < MsgLen THEN Len(pipe) ELSE MsgLen) = MsgLen
    BY <1>2, <1>4
  <2> QED
    BY <2>1 DEF ChildReads
<1>6. /\ \A k \in 1 .. MsgLen : buf'[k] = pipe[k]
      /\ buf' \in [1 .. MsgLen -> Bytes]
      /\ pipe' \in Seq(Bytes) /\ Len(pipe') = Len(pipe) - MsgLen
      /\ \A k \in 1 .. Len(pipe') : pipe'[k] = pipe[MsgLen + k]
  BY <1>2, <1>4, <1>5
<1>7. PipeTypeOK'
  BY <1>1, <1>6 DEF PipeInv, PipeTypeOK
<1>8. Echoed'
  BY <1>1 DEF PipeInv, Echoed
<1>9. NothingLost'
  <2>1. Len(sent') = Taken' + Len(pipe')
    BY <1>1, <1>2, <1>6 DEF NothingLost
  <2>2. \E i \in Nat : Len(pipe') = i * MsgLen
    <3>1. n - 1 \in Nat /\ Len(pipe') = (n - 1) * MsgLen
      BY <1>3, <1>4, <1>6
    <3> QED
      BY <3>1
  <2>3. ASSUME NEW k \in 1 .. Len(pipe') PROVE pipe'[k] = sent'[Taken' + k]
    <3>1. MsgLen + k \in 1 .. Len(pipe) /\ Taken + (MsgLen + k) = Taken' + k
      BY <1>2, <1>6
    <3> QED
      BY <1>1, <1>2, <1>6, <3>1 DEF NothingLost
  <2>4. ASSUME NEW k \in 1 .. MsgLen PROVE buf'[k] = sent'[Len(out') + k]
    <3>1. k \in 1 .. Len(pipe)
      BY <1>2, <1>4
    <3> QED
      BY <1>1, <1>2, <1>6, <3>1 DEF NothingLost
  <2> QED
    BY <2>1, <2>2, <2>3, <2>4 DEF NothingLost
<1> QED
  BY <1>7, <1>8, <1>9 DEF PipeInv

LEMMA EchoStep == ASSUME PipeInv, ChildEchoes PROVE PipeInv'
<1>1. /\ child = "echo" /\ child' = "read" /\ out' = out \o buf
      /\ UNCHANGED <<parent, pipe, writers, readers, sent, round, buf>>
  BY DEF ChildEchoes
<1>2. /\ pipe \in Seq(Bytes) /\ sent \in Seq(Bytes) /\ out \in Seq(Bytes)
      /\ buf \in [1 .. MsgLen -> Bytes] /\ MsgLen \in Nat \ {0} /\ NothingLost /\ Echoed
      /\ Taken = Len(out) + MsgLen
  BY <1>1, PipeAssumption DEF PipeInv, PipeTypeOK, Taken
<1>3. buf \in Seq(Bytes) /\ Len(buf) = MsgLen
  BY <1>2
<1>4. /\ out' \in Seq(Bytes) /\ Len(out') = Len(out) + MsgLen
      /\ \A k \in 1 .. Len(out) : out'[k] = out[k]
      /\ \A k \in 1 .. MsgLen : out'[Len(out) + k] = buf[k]
  <2>1. /\ out \o buf \in Seq(Bytes) /\ Len(out \o buf) = Len(out) + Len(buf)
        /\ \A k \in 1 .. Len(out) : (out \o buf)[k] = out[k]
        /\ \A k \in 1 .. Len(buf) : (out \o buf)[Len(out) + k] = buf[k]
    BY <1>2, <1>3, Appended
  <2> QED
    BY <1>1, <1>3, <2>1
<1>5. PipeTypeOK'
  BY <1>1, <1>4 DEF PipeInv, PipeTypeOK
<1>6. Taken' = Taken
  BY <1>1, <1>2, <1>4 DEF Taken
<1>7. Echoed'
  <2>1. Len(out') <= Len(sent')
    BY <1>1, <1>2, <1>4 DEF NothingLost
  <2>2. ASSUME NEW k \in 1 .. Len(out') PROVE out'[k] = sent'[k]
    <3>1. CASE k <= Len(out)
      BY <1>1, <1>2, <1>4, <3>1 DEF Echoed
    <3>2. CASE k > Len(out)
      <4> DEFINE i == k - Len(out)
      <4>1. i \in 1 .. MsgLen /\ k = Len(out) + i
        BY <1>2, <1>4, <3>2
      <4> HIDE DEF i
      <4> QED
        BY <1>1, <1>2, <1>4, <4>1 DEF NothingLost
    <3> QED
      BY <1>2, <1>4, <3>1, <3>2
  <2> QED
    BY <2>1, <2>2 DEF Echoed
<1>8. NothingLost'
  BY <1>1, <1>2, <1>6 DEF NothingLost
<1> QED
  BY <1>5, <1>7, <1>8 DEF PipeInv

LEMMA PipeStep == PipeInv /\ PipeNext => PipeInv'
<1> SUFFICES ASSUME PipeInv, PipeNext PROVE PipeInv'
  OBVIOUS
<1> USE DEF PipeInv, PipeTypeOK, Echoed, NothingLost, Taken
<1>1. CASE Fork
  BY <1>1 DEF Fork
<1>2. CASE ForkFails
  BY <1>2 DEF ForkFails
<1>3. CASE ParentCloses
  BY <1>3 DEF ParentCloses
<1>4. CASE ParentWrites /\ readers = {}
  BY <1>4 DEF ParentWrites
<1>5. CASE ParentEnds
  BY <1>5 DEF ParentEnds
<1>6. CASE ChildCloses
  BY <1>6 DEF ChildCloses
<1>7. CASE ChildEnds
  BY <1>7 DEF ChildEnds
<1>8. CASE KillParent
  BY <1>8 DEF KillParent
<1>9. CASE KillChild
  BY <1>9 DEF KillChild
<1> HIDE DEF PipeInv
<1> QED
  BY <1>1, <1>2, <1>3, <1>4, <1>5, <1>6, <1>7, <1>8, <1>9, WriteStep, ReadStep, EchoStep
  DEF PipeNext, PipeParent, PipeChild

LEMMA PipeFrame == PipeInv /\ UNCHANGED pipeVars => PipeInv'
BY DEF PipeInv, PipeTypeOK, Echoed, NothingLost, Taken, pipeVars

LEMMA PipeSafe == PipeInv => EchoesWhatWasSent
<1> SUFFICES ASSUME PipeInv PROVE EchoesWhatWasSent
  OBVIOUS
<1>1. /\ out \in Seq(Bytes) /\ sent \in Seq(Bytes) /\ Echoed
      /\ child = "exited" => NothingLost /\ pipe = <<>> /\ parent \in {"exited", "killed"}
  BY DEF PipeInv, PipeTypeOK
<1>2. out = SubSeq(sent, 1, Len(out))
  BY <1>1 DEF Echoed
<1>3. child = "exited" => out = sent
  <2> SUFFICES ASSUME child = "exited" PROVE out = sent
    OBVIOUS
  <2>1. Len(sent) = Len(out)
    BY <1>1 DEF NothingLost, Taken
  <2> QED
    BY <1>1, <2>1 DEF Echoed
<1> QED
  BY <1>1, <1>2, <1>3 DEF EchoesWhatWasSent, Echoed

-----------------------------------------------------------------------------
(* The three programs with signals.                                        *)
Sigs == {"INT", "HUP", "ALRM"}

SignalTypeOK ==
    /\ pending \subseteq Sigs /\ blocked \subseteq Sigs /\ handler \subseteq Sigs
    /\ alarm \in Nat /\ nap \in {0, 1} /\ turns \in Nat /\ sends \in 0 .. MaxSends
    /\ handled \in [Sigs -> Nat]

(* The alarm is pending, or so near that it comes before n seconds of      *)
(* sleep are over.                                                         *)
Comes(n) == "ALRM" \in pending \/ (alarm > 0 /\ turns - nap + alarm <= n)

(* sigprocmask.c: the alarm comes while it is blocked, and once it is      *)
(* unblocked it is pending.                                                *)
MaskInv ==
    /\ handler = {} /\ pending \subseteq {"ALRM"}
    /\ stage \in {"start", "block", "loop", "asleep", "killed"}
    /\ stage # "asleep" => nap = 0
    /\ stage = "start" => turns = 0 /\ pending = {} /\ blocked = {} /\ alarm = 0
    /\ stage = "block" => turns = 0 /\ blocked = {} /\ Comes(AlarmTime)
    /\ stage = "loop" =>
          \/ blocked = {"ALRM"} /\ turns <= UnblockAt /\ Comes(AlarmTime)
          \/ blocked = {} /\ turns = UnblockAt + 1 /\ "ALRM" \in pending
    /\ stage = "asleep" => blocked = {"ALRM"} /\ turns <= UnblockAt + 1 /\ Comes(AlarmTime)
    /\ stage = "killed" => turns \in {0, UnblockAt + 1}

(* alarm_signal.c: the first alarm is handled and the second is not, and   *)
(* either comes while the loop runs.                                       *)
AlarmInv ==
    /\ blocked = {} /\ pending \subseteq {"ALRM"} /\ stage \in {"start", "loop", "killed"}
    /\ stage = "start" =>
          /\ turns = 0 /\ pending = {} /\ handler = {}
          /\ alarm = 0 /\ nap = 0 /\ handled["ALRM"] = 0
    /\ stage = "loop" =>
          \/ /\ handler = {"ALRM"} /\ handled["ALRM"] = 0
             /\ turns <= FirstAlarm /\ Comes(FirstAlarm)
          \/ /\ handler = {} /\ handled["ALRM"] = 1
             /\ turns <= FirstAlarm + SecondAlarm /\ Comes(FirstAlarm + SecondAlarm)
    /\ stage = "killed" => handled["ALRM"] = 1 /\ turns <= FirstAlarm + SecondAlarm

(* sigsuspend.c: INT is blocked where it waits, and each hang-up that was  *)
(* sent is handled or pending.                                             *)
SuspendInv ==
    /\ pending \subseteq {"INT", "HUP"}
    /\ stage \in {"start", "loop", "suspended", "end", "killed"}
    /\ stage = "start" => handler = {}
    /\ stage \in {"loop", "suspended", "end"} => handler = {"INT", "HUP"}
    /\ blocked = IF stage = "suspended" THEN {"INT"} ELSE {}
    /\ stage \in {"start", "killed"} => turns = 0
    /\ handled["HUP"] >= (IF stage \in {"loop", "end"} THEN turns ELSE turns - 1)
    /\ sends >= handled["HUP"] + (IF "HUP" \in pending THEN 1 ELSE 0)
    /\ stage = "end" => turns = 3 /\ pending = {}

SignalInv ==
    /\ SignalTypeOK
    /\ program = "sigprocmask" => MaskInv
    /\ program = "alarm_signal" => AlarmInv
    /\ program = "sigsuspend" => SuspendInv

LEMMA SignalStart == SignalInit => SignalInv
  BY SignalAssumption DEF SignalInit, SignalInv, SignalTypeOK, Sigs, MaskInv, AlarmInv, SuspendInv

(* Time brings an alarm nearer by as much as it shortens the sleep.        *)
LEMMA TickComes ==
    ASSUME SignalTypeOK, Tick, NEW n \in Nat, Comes(n)
    PROVE  Comes(n)'
<1>1. /\ alarm' = IF alarm > 0 THEN alarm - 1 ELSE 0
      /\ nap' = IF nap > 0 THEN nap - 1 ELSE 0
      /\ pending' = IF alarm = 1 THEN pending \cup {"ALRM"} ELSE pending
      /\ turns' = turns /\ turns \in Nat /\ alarm \in Nat /\ nap \in {0, 1}
  BY DEF Tick, SignalTypeOK
<1>2. CASE "ALRM" \in pending
  BY <1>1, <1>2 DEF Comes
<1>3. CASE alarm = 1
  BY <1>1, <1>3 DEF Comes
<1>4. CASE alarm > 1 /\ turns - nap + alarm <= n
  <2>1. alarm' > 0 /\ turns' - nap' + alarm' <= n
    BY <1>1, <1>4
  <2> QED
    BY <2>1 DEF Comes
<1> QED
  BY <1>1, <1>2, <1>3, <1>4 DEF Comes

LEMMA TickType ==
    ASSUME SignalTypeOK, Tick
    PROVE  /\ SignalTypeOK' /\ (nap = 0 => nap' = 0) /\ pending' \subseteq pending \cup {"ALRM"}
           /\ UNCHANGED <<stage, turns, blocked, handler, sends, handled>>
  BY DEF Tick, SignalTypeOK, Sigs

LEMMA MaskStep ==
    ASSUME SignalTypeOK, MaskInv, MaskChild \/ Tick \/ DeliverDeadly("ALRM")
    PROVE  SignalTypeOK' /\ MaskInv'
<1> USE SignalAssumption DEF SignalTypeOK, Sigs, MaskInv, Runs
<1>1. CASE SetAlarm
  <2>1. /\ stage = "start" /\ stage' = "block" /\ alarm' = AlarmTime /\ turns = 0 /\ nap = 0
        /\ UNCHANGED <<turns, pending, blocked, handler, nap, sends, handled>>
    BY <1>1 DEF SetAlarm
  <2>2. Comes(AlarmTime)'
    BY <2>1 DEF Comes
  <2> QED
    BY <2>1, <2>2
<1>2. CASE Block
  <2>1. /\ stage = "block" /\ stage' = "loop" /\ turns = 0 /\ nap = 0 /\ Comes(AlarmTime)
        /\ blocked' = {"ALRM"} /\ UNCHANGED <<turns, pending, handler, alarm, nap, sends, handled>>
    BY <1>2 DEF Block
  <2>2. Comes(AlarmTime)' /\ turns <= UnblockAt
    BY <2>1 DEF Comes
  <2>3. SignalTypeOK'
    BY <2>1
  <2> QED
    BY <2>1, <2>2, <2>3
<1>3. CASE Sleep
  BY <1>3 DEF Sleep, Comes
<1>4. CASE Wake
  BY <1>4 DEF Wake, Comes
<1>5. CASE LeaveLoop
  BY <1>5 DEF LeaveLoop
<1>6. CASE Tick
  <2>1. AlarmTime \in Nat
    OBVIOUS
  <2>2. Comes(AlarmTime) => Comes(AlarmTime)'
    BY <1>6, <2>1, TickComes
  <2>3. stage # "start"
    BY <1>6 DEF Tick
  <2>4. "ALRM" \in pending => "ALRM" \in pending'
    BY <1>6 DEF Tick
  <2>5. stage # "killed"
    BY <1>6 DEF Tick, Ended
  <2> QED
    BY <1>6, <2>2, <2>3, <2>4, <2>5, TickType
<1>7. CASE DeliverDeadly("ALRM")
  BY <1>7 DEF DeliverDeadly, Ended
<1> QED
  BY <1>1, <1>2, <1>3, <1>4, <1>5, <1>6, <1>7 DEF MaskChild

LEMMA AlarmStep ==
    ASSUME SignalTypeOK, AlarmInv, AlarmMain \/ Tick \/ DeliverDeadly("ALRM")
    PROVE  SignalTypeOK' /\ AlarmInv'
<1> USE SignalAssumption DEF SignalTypeOK, Sigs, AlarmInv, Runs
<1>1. CASE InstallAlarm
  BY <1>1 DEF InstallAlarm, Comes
<1>2. CASE HandleAlarm
  BY <1>2 DEF HandleAlarm, Comes, Ended
<1>3. CASE Count
  BY <1>3 DEF Count, Comes
<1>4. CASE LoopEnds
  BY <1>4 DEF LoopEnds, Comes
<1>5. CASE Tick
  <2>1. FirstAlarm \in Nat /\ FirstAlarm + SecondAlarm \in Nat
    OBVIOUS
  <2>2. /\ Comes(FirstAlarm) => Comes(FirstAlarm)'
        /\ Comes(FirstAlarm + SecondAlarm) => Comes(FirstAlarm + SecondAlarm)'
    BY <1>5, <2>1, TickComes
  <2>3. stage = "loop"
    BY <1>5 DEF Tick, Ended
  <2> QED
    BY <1>5, <2>2, <2>3, TickType
<1>6. CASE DeliverDeadly("ALRM")
  BY <1>6 DEF DeliverDeadly, Ended
<1> QED
  BY <1>1, <1>2, <1>3, <1>4, <1>5, <1>6 DEF AlarmMain

LEMMA SuspendStep ==
    ASSUME SignalTypeOK, SuspendInv, SuspendMain \/ \E s \in {"INT", "HUP"} : Send(s)
    PROVE  SignalTypeOK' /\ SuspendInv'
<1> USE SignalAssumption DEF SignalTypeOK, Sigs, SuspendInv, Runs
<1>1. CASE InstallHandlers
  BY <1>1 DEF InstallHandlers
<1>2. CASE Suspend
  BY <1>2 DEF Suspend
<1>3. CASE Finish
  BY <1>3 DEF Finish
<1>4. ASSUME NEW s \in {"INT", "HUP"}, Handle(s) PROVE SignalTypeOK' /\ SuspendInv'
  BY <1>4 DEF Handle, Ended
<1>5. ASSUME NEW s \in {"INT", "HUP"}, DeliverDeadly(s) PROVE SignalTypeOK' /\ SuspendInv'
  BY <1>5 DEF DeliverDeadly, Ended
<1>6. ASSUME NEW s \in {"INT", "HUP"}, Send(s) PROVE SignalTypeOK' /\ SuspendInv'
  BY <1>6 DEF Send, Ended
<1> QED
  BY <1>1, <1>2, <1>3, <1>4, <1>5, <1>6 DEF SuspendMain

LEMMA SignalFrame == SignalInv /\ UNCHANGED <<program, signalVars>> => SignalInv'
BY DEF SignalInv, SignalTypeOK, MaskInv, AlarmInv, SuspendInv, Comes, signalVars

-----------------------------------------------------------------------------
(* A run of any of the programs.                                           *)
IInv == program \in Programs /\ PipeInv /\ ThreadInv /\ FlockInv /\ SignalInv

LEMMA InitIInv == Init => IInv
BY PipeStart, ThreadStart, FlockStart, SignalStart DEF Init, IInv

LEMMA NextIInv == IInv /\ [Next]_vars => IInv'
<1> SUFFICES ASSUME IInv, [Next]_vars PROVE IInv'
  OBVIOUS
<1>1. CASE UNCHANGED vars
  BY <1>1, PipeFrame, ThreadFrame, FlockFrame, SignalFrame DEF IInv, vars
<1>2. CASE Pipe(PipeNext)
  BY <1>2, PipeStep, ThreadFrame, FlockFrame, SignalFrame DEF IInv, Pipe
<1>3. CASE Thread(ThreadNext)
  BY <1>3, PipeFrame, ThreadStep, FlockFrame, SignalFrame DEF IInv, Thread
<1>4. CASE Lines(FlockNext)
  BY <1>4, PipeFrame, ThreadFrame, FlockStep, SignalFrame DEF IInv, Lines
<1>5. ASSUME NEW p, SignalInv', program' = program, UNCHANGED <<pipeVars, threadVars, flockVars>>
      PROVE  IInv'
  BY <1>5, PipeFrame, ThreadFrame, FlockFrame DEF IInv
<1>6. CASE Signal("sigprocmask", MaskChild \/ Tick \/ DeliverDeadly("ALRM"))
  <2>1. /\ program = "sigprocmask"
        /\ MaskChild \/ Tick \/ DeliverDeadly("ALRM")
        /\ UNCHANGED <<program, pipeVars, threadVars, flockVars>>
    BY <1>6 DEF Signal
  <2>2. SignalInv'
    BY <2>1, MaskStep DEF IInv, SignalInv
  <2> QED
    BY <1>5, <2>1, <2>2
<1>7. CASE Signal("alarm_signal", AlarmMain \/ Tick \/ DeliverDeadly("ALRM"))
  <2>1. /\ program = "alarm_signal"
        /\ AlarmMain \/ Tick \/ DeliverDeadly("ALRM")
        /\ UNCHANGED <<program, pipeVars, threadVars, flockVars>>
    BY <1>7 DEF Signal
  <2>2. SignalInv'
    BY <2>1, AlarmStep DEF IInv, SignalInv
  <2> QED
    BY <1>5, <2>1, <2>2
<1>8. CASE Signal("sigsuspend", SuspendMain \/ \E s \in {"INT", "HUP"} : Send(s))
  <2>1. /\ program = "sigsuspend"
        /\ SuspendMain \/ \E s \in {"INT", "HUP"} : Send(s)
        /\ UNCHANGED <<program, pipeVars, threadVars, flockVars>>
    BY <1>8 DEF Signal
  <2>2. SignalInv'
    BY <2>1, SuspendStep DEF IInv, SignalInv
  <2> QED
    BY <1>5, <2>1, <2>2
<1> QED
  BY <1>1, <1>2, <1>3, <1>4, <1>6, <1>7, <1>8 DEF Next

LEMMA Invariance == Spec => []IInv
BY InitIInv, NextIInv, PTL DEF Spec

(* The variables of each program stay in their types; one process at most  *)
(* has the lock of flock.c, the one that prints.                           *)
THEOREM TypeCorrect == Spec => []TypeOK
<1>1. IInv => TypeOK
  <2> SUFFICES ASSUME IInv PROVE TypeOK
    OBVIOUS
  <2>1. /\ {writers, readers} \subseteq SUBSET {"parent", "child"}
        /\ round \in 0 .. NumIts /\ DOMAIN buf = 1 .. MsgLen
    BY DEF IInv, PipeInv, PipeTypeOK
  <2>2. /\ j \in [Threads -> 0 .. N] /\ reg \in [Threads -> Int] /\ count \in Int
        /\ held \in BOOLEAN /\ hit \in BOOLEAN
    BY DEF IInv, ThreadInv, ThreadTypeOK
  <2>3. /\ owner \subseteq Procs /\ (\A p \in Procs : owner = {p} <=> step[p] = "print")
        /\ DOMAIN file \in {1 .. n : n \in {0} \cup {TextLen[p] : p \in Procs}}
    BY DEF IInv, FlockInv, FlockTypeOK
  <2>4. /\ {pending, blocked, handler} \subseteq SUBSET {"INT", "HUP", "ALRM"}
        /\ alarm \in Nat /\ nap \in {0, 1} /\ turns \in Nat /\ sends \in 0 .. MaxSends
    BY DEF IInv, SignalInv, SignalTypeOK, Sigs
  <2> QED
    BY <2>1, <2>2, <2>3, <2>4 DEF TypeOK, IInv
<1> QED
  BY <1>1, Invariance, PTL

(* pipe.c: what the child prints is what the parent wrote, and all of it   *)
(* if it gets to its end, for as many rounds as the counted byte allows    *)
(* (pipe.c:34-46).                                                         *)
THEOREM PipeEchoes == Spec => []EchoesWhatWasSent
<1>1. IInv => EchoesWhatWasSent
  BY PipeSafe DEF IInv
<1> QED
  BY <1>1, Invariance, PTL

(* safe_thread.c: for any number of rounds the two loops cancel out unless *)
(* the late pthread_mutex_init found the lock taken (safe_thread.c:9-36).  *)
THEOREM OnlyLateInitRisks == Spec => []LateInitOnlyRisk
<1>1. IInv => LateInitOnlyRisk
  BY ThreadSafe DEF IInv
<1> QED
  BY <1>1, Invariance, PTL

(* flock.c: for any number of processes and any lengths, the file begins   *)
(* with what the last one wrote, and is only that unless runs overlapped   *)
(* (flock.c:5-18).                                                         *)
THEOREM LastCloseDecides == Spec => []LastCloserWins
<1>1. IInv => LastCloserWins
  BY DEF IInv, FlockInv
<1> QED
  BY <1>1, Invariance, PTL

(* sigprocmask.c and alarm_signal.c: for any alarms that come while the    *)
(* loops run, the process is killed at the unblocking, and by the second   *)
(* alarm (sigprocmask.c:14-27, alarm_signal.c:6-44).                       *)
THEOREM AlarmsKill == Spec => []AlarmsKillOnTime
<1>1. IInv => AlarmsKillOnTime
  <2> SUFFICES ASSUME IInv PROVE AlarmsKillOnTime
    OBVIOUS
  <2>1. program = "sigprocmask" => AlarmWaitsForUnblock
    BY SignalAssumption DEF IInv, SignalInv, SignalTypeOK, MaskInv, AlarmWaitsForUnblock
  <2>2. program = "alarm_signal" => UnreachableIsUnreachable
    BY SignalAssumption DEF IInv, SignalInv, SignalTypeOK, AlarmInv, UnreachableIsUnreachable
  <2> QED
    BY <2>1, <2>2 DEF AlarmsKillOnTime
<1> QED
  BY <1>1, Invariance, PTL

(* sigsuspend.c: hang-ups alone get it on, and it ends after three.        *)
THEOREM OnlyHangupsCount == Spec => []HangupsWake
<1>1. IInv => HangupsWake
  <2> SUFFICES ASSUME IInv, program = "sigsuspend" PROVE OnlyHangupsWake
    BY DEF HangupsWake
  <2>1. SignalTypeOK /\ SuspendInv
    BY DEF IInv, SignalInv
  <2>2. stage = "end" => sends >= 3 /\ "INT" \notin pending
    BY <2>1, SignalAssumption DEF SignalTypeOK, SuspendInv, Sigs
  <2> QED
    BY <2>1, <2>2 DEF SuspendInv, OnlyHangupsWake
<1> QED
  BY <1>1, Invariance, PTL
=============================================================================
