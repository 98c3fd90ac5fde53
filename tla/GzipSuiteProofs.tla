-------------------------- MODULE GzipSuiteProofs --------------------------
(***************************************************************************)
(* Proofs about test_gzip.c for any table of handles.                      *)
(***************************************************************************)
EXTENDS GzipSuite, FiniteSetTheorems, TLAPS

-----------------------------------------------------------------------------
(* What a test holds before each of its calls, and whether it has compared *)
(* the last of the data.                                                   *)
Things == Vars \cup Buffers
Ops == {"create", "open", "write", "look", "compare", "close", "malloc", "free"}
Calls == [op : Ops, on : Things, checked : BOOLEAN, released : SUBSET Things]
Scopes == [held : SUBSET Things, seen : BOOLEAN]

Scope(held) == [held |-> held, seen |-> FALSE]
Seen(held) == [held |-> held, seen |-> TRUE]

Gone(c) == c.released \cup (IF c.op = "close" THEN {c.on} ELSE {})

(* The call is made on what is held or free as it must be; if it fails all *)
(* that is held is released; once the data was compared nothing writes.    *)
Fits(c, s) ==
    /\ c.op \in {"create", "open"} => c.on \in Vars \ s.held
    /\ c.op \in {"write", "look", "compare", "close"} => c.on \in Vars \cap s.held
    /\ c.op = "malloc" => c.on \in Buffers \ s.held
    /\ c.op = "free" => c.on \in Buffers \cap s.held
    /\ c.op = "create" \/ c.op = "write" => c.on = "wf"
    /\ c.checked => Gone(c) = s.held
    /\ s.seen => c.on # "wf"

After(c, s) ==
    [held |-> IF c.op \in {"create", "open", "malloc"} THEN s.held \cup {c.on}
              ELSE IF c.op \in {"close", "free"} THEN s.held \ {c.on}
              ELSE s.held,
     seen |-> s.seen \/ c.op = "compare"]

Traces(calls, g, s, t) ==
    /\ calls \in Seq(Calls)
    /\ g[1] = s /\ g[Len(calls) + 1] = t
    /\ \A i \in 1 .. Len(calls) + 1 : g[i] \in Scopes
    /\ \A i \in 1 .. Len(calls) : Fits(calls[i], g[i]) /\ g[i + 1] = After(calls[i], g[i])

Leads(calls, s, t) == \E g : Traces(calls, g, s, t)

Step(c, s, t) == c \in Calls /\ s \in Scopes /\ t \in Scopes /\ Fits(c, s) /\ t = After(c, s)

Chain(calls, g, s, t) ==
    /\ calls \in Seq(Calls) /\ s \in Scopes
    /\ g[1] = s /\ g[Len(calls) + 1] = t
    /\ \A i \in 1 .. Len(calls) : Step(calls[i], g[i], g[i + 1])

LEMMA Listed ==
    ASSUME NEW c, NEW g, NEW s, NEW t, Chain(c, g, s, t)
    PROVE  Leads(c, s, t)
<1> DEFINE n == Len(c)
<1>0. /\ c \in Seq(Calls) /\ n \in Nat /\ s \in Scopes /\ g[1] = s /\ g[n + 1] = t
      /\ \A i \in 1 .. n : Step(c[i], g[i], g[i + 1])
  BY DEF Chain
<1> HIDE DEF n
<1>1. ASSUME NEW i \in 1 .. n + 1 PROVE g[i] \in Scopes
  <2>1. CASE i = 1
    BY <1>0, <2>1
  <2>2. CASE i # 1
    <3>1. i - 1 \in 1 .. n /\ (i - 1) + 1 = i
      BY <1>0, <2>2
    <3>2. Step(c[i - 1], g[i - 1], g[(i - 1) + 1])
      BY <1>0, <3>1
    <3> QED
      BY <3>1, <3>2 DEF Step
  <2> QED
    BY <2>1, <2>2
<1>2. Traces(c, g, s, t)
  BY <1>0, <1>1 DEF Traces, Step, n
<1> QED
  BY <1>2 DEF Leads

LEMMA Sequel ==
    ASSUME NEW c, NEW d, NEW s, NEW t, NEW u, Leads(c, s, t), Leads(d, t, u)
    PROVE  Leads(c \o d, s, u)
<1>1. PICK g : Traces(c, g, s, t)
  BY DEF Leads
<1>2. PICK h : Traces(d, h, t, u)
  BY DEF Leads
<1> DEFINE m == Len(c)
           n == Len(d)
           f == [i \in 1 .. m + n + 1 |-> IF i <= m THEN g[i] ELSE h[i - m]]
<1>3. /\ c \in Seq(Calls) /\ d \in Seq(Calls) /\ m \in Nat /\ n \in Nat
      /\ c \o d \in Seq(Calls) /\ Len(c \o d) = m + n
      /\ \A i \in 1 .. m + n : (c \o d)[i] = IF i <= m THEN c[i] ELSE d[i - m]
  BY <1>1, <1>2 DEF Traces
<1>4. f[1] = s
  BY <1>1, <1>2, <1>3 DEF Traces
<1>5. f[m + n + 1] = u
  BY <1>2, <1>3 DEF Traces
<1>6. ASSUME NEW i \in 1 .. m + n + 1 PROVE f[i] \in Scopes
  BY <1>1, <1>2, <1>3 DEF Traces
<1>7. ASSUME NEW i \in 1 .. m + n
      PROVE  Fits((c \o d)[i], f[i]) /\ f[i + 1] = After((c \o d)[i], f[i])
  <2>1. CASE i < m
    BY <1>1, <1>3, <2>1 DEF Traces
  <2>2. CASE i = m
    BY <1>1, <1>2, <1>3, <2>2 DEF Traces
  <2>3. CASE i > m
    <3>1. i - m \in 1 .. n /\ f[i] = h[i - m] /\ f[i + 1] = h[i - m + 1]
      BY <1>3, <2>3
    <3>2. (c \o d)[i] = d[i - m]
      BY <1>3, <2>3
    <3> QED
      BY <1>2, <3>1, <3>2 DEF Traces
  <2> QED
    BY <1>3, <2>1, <2>2, <2>3
<1>8. Traces(c \o d, f, s, u)
  BY <1>3, <1>4, <1>5, <1>6, <1>7 DEF Traces
<1> QED
  BY <1>8 DEF Leads

(* Calls that change nothing may be repeated.                              *)
Idle(calls, s) ==
    /\ calls \in Seq(Calls) /\ Len(calls) # 0 /\ s \in Scopes
    /\ \A i \in 1 .. Len(calls) : Step(calls[i], s, s)

LEMMA Repeated ==
    ASSUME NEW n \in Nat, NEW calls, NEW s, Idle(calls, s)
    PROVE  Leads(Times(n, calls), s, s)
<1> USE DEF Idle
<1> DEFINE m == n * Len(calls)
           c == Times(n, calls)
           g == [i \in 1 .. m + 1 |-> s]
<1>1. Len(calls) \in Nat \ {0} /\ m \in Nat
  OBVIOUS
<1>2. \A i \in 1 .. m : ((i - 1) % Len(calls)) + 1 \in 1 .. Len(calls)
  BY <1>1
<1>3. c = [i \in 1 .. m |-> calls[((i - 1) % Len(calls)) + 1]]
  BY DEF Times
<1>4. c \in Seq(Calls) /\ Len(c) = m /\ \A i \in 1 .. m : Step(c[i], s, s)
  BY <1>1, <1>2, <1>3
<1>5. \A i \in 1 .. m : Step(c[i], g[i], g[i + 1])
  BY <1>1, <1>4
<1>6. g[1] = s /\ g[m + 1] = s
  BY <1>1
<1> HIDE DEF c, g, m
<1>7. Chain(c, g, s, s)
  BY <1>1, <1>4, <1>5, <1>6 DEF Chain
<1> QED
  BY <1>7, Listed DEF c

-----------------------------------------------------------------------------
(* The calls the tests are made of, at what is held when they are made.    *)
LEMMA WriterCalls ==
    /\ Step(Create({}), Scope({}), Scope({"wf"}))
    /\ Step(Write({}), Scope({"wf"}), Scope({"wf"}))
    /\ Step(Unchecked("write", "wf"), Scope({"wf"}), Scope({"wf"}))
    /\ Step(CloseW, Scope({"wf"}), Scope({}))
    /\ Step(Checked("close", "wf", {}), Scope({"wf"}), Scope({}))
<1> USE DEF Step, Calls, Ops, Things, Vars, Buffers, Scopes, Scope, Fits, Gone, After,
            Checked, Unchecked
<1>1. Step(Create({}), Scope({}), Scope({"wf"}))
  BY DEF Create
<1>2. Step(Write({}), Scope({"wf"}), Scope({"wf"}))
  BY DEF Write
<1>3. Step(Unchecked("write", "wf"), Scope({"wf"}), Scope({"wf"}))
  OBVIOUS
<1>4. Step(CloseW, Scope({"wf"}), Scope({}))
  BY DEF CloseW
<1>5. Step(Checked("close", "wf", {}), Scope({"wf"}), Scope({}))
  OBVIOUS
<1> QED
  BY <1>1, <1>2, <1>3, <1>4, <1>5

LEMMA ReaderCalls ==
    /\ Step(Open({}), Scope({}), Scope({"rf"}))
    /\ Step(Look({}), Scope({"rf"}), Scope({"rf"}))
    /\ Step(Look({}), Seen({"rf"}), Seen({"rf"}))
    /\ Step(Unchecked("look", "rf"), Scope({"rf"}), Scope({"rf"}))
    /\ Step(Compare({}), Scope({"rf"}), Seen({"rf"}))
    /\ Step(CloseR, Scope({"rf"}), Scope({}))
    /\ Step(CloseR, Seen({"rf"}), Seen({}))
<1> USE DEF Step, Calls, Ops, Things, Vars, Buffers, Scopes, Scope, Seen, Fits, Gone, After,
            Checked, Unchecked
<1>1. Step(Open({}), Scope({}), Scope({"rf"}))
  BY DEF Open
<1>2. Step(Look({}), Scope({"rf"}), Scope({"rf"}))
  BY DEF Look
<1>3. Step(Look({}), Seen({"rf"}), Seen({"rf"}))
  BY DEF Look
<1>4. Step(Unchecked("look", "rf"), Scope({"rf"}), Scope({"rf"}))
  OBVIOUS
<1>5. Step(Compare({}), Scope({"rf"}), Seen({"rf"}))
  BY DEF Compare
<1>6. Step(CloseR, Scope({"rf"}), Scope({}))
  BY DEF CloseR
<1>7. Step(CloseR, Seen({"rf"}), Seen({}))
  BY DEF CloseR
<1> QED
  BY <1>1, <1>2, <1>3, <1>4, <1>5, <1>6, <1>7

LEMMA BufferCalls ==
    /\ Step(Malloc("data", {}), Scope({}), Scope({"data"}))
    /\ Step(Create({"data"}), Scope({"data"}), Scope({"data", "wf"}))
    /\ Step(Write({"data"}), Scope({"data", "wf"}), Scope({"data", "wf"}))
    /\ Step(Unchecked("write", "wf"), Scope({"data", "wf"}), Scope({"data", "wf"}))
    /\ Step(CloseW, Scope({"data", "wf"}), Scope({"data"}))
    /\ Step(Free("data"), Scope({"data"}), Scope({}))
<1> USE DEF Step, Calls, Ops, Things, Vars, Buffers, Scopes, Scope, Fits, Gone, After,
            Checked, Unchecked
<1>1. Step(Malloc("data", {}), Scope({}), Scope({"data"}))
  BY DEF Malloc
<1>2. Step(Create({"data"}), Scope({"data"}), Scope({"data", "wf"}))
  BY DEF Create
<1>3. Step(Write({"data"}), Scope({"data", "wf"}), Scope({"data", "wf"}))
  BY DEF Write
<1>4. Step(Unchecked("write", "wf"), Scope({"data", "wf"}), Scope({"data", "wf"}))
  OBVIOUS
<1>5. Step(CloseW, Scope({"data", "wf"}), Scope({"data"}))
  BY DEF CloseW
<1>6. Step(Free("data"), Scope({"data"}), Scope({}))
  BY DEF Free
<1> QED
  BY <1>1, <1>2, <1>3, <1>4, <1>5, <1>6

LEMMA LargeFileCalls ==
    /\ Step(Open({"data"}), Scope({"data"}), Scope({"data", "rf"}))
    /\ Step(Malloc("buf", {"rf", "data"}), Scope({"data", "rf"}), Scope({"data", "rf", "buf"}))
    /\ Step(Compare({"data", "buf"}), Scope({"data", "rf", "buf"}), Seen({"data", "rf", "buf"}))
    /\ Step(Look({"data", "buf"}), Seen({"data", "rf", "buf"}), Seen({"data", "rf", "buf"}))
    /\ Step(CloseR, Seen({"data", "rf", "buf"}), Seen({"data", "buf"}))
    /\ Step(Free("data"), Seen({"data", "buf"}), Seen({"buf"}))
    /\ Step(Free("buf"), Seen({"buf"}), Seen({}))
<1> USE DEF Step, Calls, Ops, Things, Vars, Buffers, Scopes, Scope, Seen, Fits, Gone, After,
            Checked, Unchecked
<1>1. Step(Open({"data"}), Scope({"data"}), Scope({"data", "rf"}))
  BY DEF Open
<1>2. Step(Malloc("buf", {"rf", "data"}), Scope({"data", "rf"}), Scope({"data", "rf", "buf"}))
  BY DEF Malloc
<1>3. Step(Compare({"data", "buf"}), Scope({"data", "rf", "buf"}), Seen({"data", "rf", "buf"}))
  BY DEF Compare
<1>4. Step(Look({"data", "buf"}), Seen({"data", "rf", "buf"}), Seen({"data", "rf", "buf"}))
  BY DEF Look
<1>5. Step(CloseR, Seen({"data", "rf", "buf"}), Seen({"data", "buf"}))
  BY DEF CloseR
<1>6. Step(Free("data"), Seen({"data", "buf"}), Seen({"buf"}))
  BY DEF Free
<1>7. Step(Free("buf"), Seen({"buf"}), Seen({}))
  BY DEF Free
<1> QED
  BY <1>1, <1>2, <1>3, <1>4, <1>5, <1>6, <1>7

-----------------------------------------------------------------------------
(* The nine tests release what they take, and the four that compare their  *)
(* data have compared it when they end.                                    *)
LEMMA BasicTest ==
    Leads(gzwrite_gzread, Scope({}), Seen({}))
<1>1. Leads(<<Create({}), Write({}), Checked("close", "wf", {}), Open({}),
              Look({}), Compare({}), CloseR>>, Scope({}), Seen({}))
  <2> DEFINE c == <<Create({}), Write({}), Checked("close", "wf", {}), Open({}),
             Look({}), Compare({}), CloseR>>
             g == <<Scope({}), Scope({"wf"}), Scope({"wf"}), Scope({}),
             Scope({"rf"}), Scope({"rf"}), Seen({"rf"}), Seen({})>>
  <2>1. Len(c) = 7 /\ c \in Seq(Calls)
    BY WriterCalls, ReaderCalls DEF Step
  <2>2. \A i \in 1 .. 7 : Step(c[i], g[i], g[i + 1])
    BY WriterCalls, ReaderCalls
  <2>3. g[1] = Scope({}) /\ g[8] = Seen({}) /\ Scope({}) \in Scopes
    BY WriterCalls, ReaderCalls DEF Step
  <2> HIDE DEF c, g
  <2>4. Chain(c, g, Scope({}), Seen({}))
    BY <2>1, <2>2, <2>3 DEF Chain
  <2> QED
    BY <2>4, Listed DEF c
<1> QED
  BY <1>1 DEF gzwrite_gzread

LEMMA Blocks ==
    /\ Leads(<<Create({})>>, Scope({}), Scope({"wf"}))
    /\ Leads(<<CloseW, Open({})>>, Scope({"wf"}), Scope({"rf"}))
    /\ Leads(WriteUnchecked, Scope({}), Scope({"rf"}))
    /\ Leads(<<CloseR>>, Scope({"rf"}), Scope({}))
<1>1. Leads(<<Create({})>>, Scope({}), Scope({"wf"}))
  <2> DEFINE c == <<Create({})>>
             g == <<Scope({}), Scope({"wf"})>>
  <2>1. Len(c) = 1 /\ c \in Seq(Calls)
    BY WriterCalls DEF Step
  <2>2. \A i \in 1 .. 1 : Step(c[i], g[i], g[i + 1])
    BY WriterCalls
  <2>3. g[1] = Scope({}) /\ g[2] = Scope({"wf"}) /\ Scope({}) \in Scopes
    BY WriterCalls DEF Step
  <2> HIDE DEF c, g
  <2>4. Chain(c, g, Scope({}), Scope({"wf"}))
    BY <2>1, <2>2, <2>3 DEF Chain
  <2> QED
    BY <2>4, Listed DEF c
<1>2. Leads(<<CloseW, Open({})>>, Scope({"wf"}), Scope({"rf"}))
  <2> DEFINE c == <<CloseW, Open({})>>
             g == <<Scope({"wf"}), Scope({}), Scope({"rf"})>>
  <2>1. Len(c) = 2 /\ c \in Seq(Calls)
    BY WriterCalls, ReaderCalls DEF Step
  <2>2. \A i \in 1 .. 2 : Step(c[i], g[i], g[i + 1])
    BY WriterCalls, ReaderCalls
  <2>3. g[1] = Scope({"wf"}) /\ g[3] = Scope({"rf"}) /\ Scope({"wf"}) \in Scopes
    BY WriterCalls, ReaderCalls DEF Step
  <2> HIDE DEF c, g
  <2>4. Chain(c, g, Scope({"wf"}), Scope({"rf"}))
    BY <2>1, <2>2, <2>3 DEF Chain
  <2> QED
    BY <2>4, Listed DEF c
<1>3. Leads(WriteUnchecked, Scope({}), Scope({"rf"}))
  <2> DEFINE c == <<Create({}), Unchecked("write", "wf"), CloseW, Open({})>>
             g == <<Scope({}), Scope({"wf"}), Scope({"wf"}), Scope({}), Scope({"rf"})>>
  <2>1. Len(c) = 4 /\ c \in Seq(Calls)
    BY WriterCalls, ReaderCalls DEF Step
  <2>2. \A i \in 1 .. 4 : Step(c[i], g[i], g[i + 1])
    BY WriterCalls, ReaderCalls
  <2>3. g[1] = Scope({}) /\ g[5] = Scope({"rf"}) /\ Scope({}) \in Scopes
    BY WriterCalls, ReaderCalls DEF Step
  <2> HIDE DEF c, g
  <2>4. Chain(c, g, Scope({}), Scope({"rf"}))
    BY <2>1, <2>2, <2>3 DEF Chain
  <2> QED
    BY <2>4, Listed DEF c, WriteUnchecked
<1>4. Leads(<<CloseR>>, Scope({"rf"}), Scope({}))
  <2> DEFINE c == <<CloseR>>
             g == <<Scope({"rf"}), Scope({})>>
  <2>1. Len(c) = 1 /\ c \in Seq(Calls)
    BY ReaderCalls DEF Step
  <2>2. \A i \in 1 .. 1 : Step(c[i], g[i], g[i + 1])
    BY ReaderCalls
  <2>3. g[1] = Scope({"rf"}) /\ g[2] = Scope({}) /\ Scope({"rf"}) \in Scopes
    BY ReaderCalls DEF Step
  <2> HIDE DEF c, g
  <2>4. Chain(c, g, Scope({"rf"}), Scope({}))
    BY <2>1, <2>2, <2>3 DEF Chain
  <2> QED
    BY <2>4, Listed DEF c
<1> QED
  BY <1>1, <1>2, <1>3, <1>4

LEMMA StringTest ==
    Leads(gzputs_gzgets, Scope({}), Seen({}))
<1>1. Leads(Times(3, <<Write({})>>), Scope({"wf"}), Scope({"wf"}))
  <2> DEFINE c == <<Write({})>>
  <2>1. Idle(c, Scope({"wf"}))
    BY WriterCalls DEF Step, Idle
  <2> HIDE DEF c
  <2>2. Leads(Times(3, c), Scope({"wf"}), Scope({"wf"}))
    BY <2>1, Repeated
  <2> QED
    BY <2>2 DEF c
<1>2. Leads(Times(2, <<Look({}), Look({})>>), Scope({"rf"}), Scope({"rf"}))
  <2> DEFINE c == <<Look({}), Look({})>>
  <2>1. Idle(c, Scope({"rf"}))
    BY ReaderCalls DEF Step, Idle
  <2> HIDE DEF c
  <2>2. Leads(Times(2, c), Scope({"rf"}), Scope({"rf"}))
    BY <2>1, Repeated
  <2> QED
    BY <2>2 DEF c
<1>3. Leads(<<Look({}), Compare({}), CloseR>>, Scope({"rf"}), Seen({}))
  <2> DEFINE c == <<Look({}), Compare({}), CloseR>>
             g == <<Scope({"rf"}), Scope({"rf"}), Seen({"rf"}), Seen({})>>
  <2>1. Len(c) = 3 /\ c \in Seq(Calls)
    BY ReaderCalls DEF Step
  <2>2. \A i \in 1 .. 3 : Step(c[i], g[i], g[i + 1])
    BY ReaderCalls
  <2>3. g[1] = Scope({"rf"}) /\ g[4] = Seen({}) /\ Scope({"rf"}) \in Scopes
    BY ReaderCalls DEF Step
  <2> HIDE DEF c, g
  <2>4. Chain(c, g, Scope({"rf"}), Seen({}))
    BY <2>1, <2>2, <2>3 DEF Chain
  <2> QED
    BY <2>4, Listed DEF c
<1> QED
  BY <1>1, <1>2, <1>3, Blocks, Sequel DEF gzputs_gzgets

LEMMA CharacterTest ==
    Leads(gzputc_gzgetc, Scope({}), Seen({}))
<1>1. Leads(Times(10, <<Write({})>>), Scope({"wf"}), Scope({"wf"}))
  <2> DEFINE c == <<Write({})>>
  <2>1. Idle(c, Scope({"wf"}))
    BY WriterCalls DEF Step, Idle
  <2> HIDE DEF c
  <2>2. Leads(Times(10, c), Scope({"wf"}), Scope({"wf"}))
    BY <2>1, Repeated
  <2> QED
    BY <2>2 DEF c
<1>2. Leads(Times(9, <<Look({})>>), Scope({"rf"}), Scope({"rf"}))
  <2> DEFINE c == <<Look({})>>
  <2>1. Idle(c, Scope({"rf"}))
    BY ReaderCalls DEF Step, Idle
  <2> HIDE DEF c
  <2>2. Leads(Times(9, c), Scope({"rf"}), Scope({"rf"}))
    BY <2>1, Repeated
  <2> QED
    BY <2>2 DEF c
<1>3. Leads(<<Compare({}), Look({}), CloseR>>, Scope({"rf"}), Seen({}))
  <2> DEFINE c == <<Compare({}), Look({}), CloseR>>
             g == <<Scope({"rf"}), Seen({"rf"}), Seen({"rf"}), Seen({})>>
  <2>1. Len(c) = 3 /\ c \in Seq(Calls)
    BY ReaderCalls DEF Step
  <2>2. \A i \in 1 .. 3 : Step(c[i], g[i], g[i + 1])
    BY ReaderCalls
  <2>3. g[1] = Scope({"rf"}) /\ g[4] = Seen({}) /\ Scope({"rf"}) \in Scopes
    BY ReaderCalls DEF Step
  <2> HIDE DEF c, g
  <2>4. Chain(c, g, Scope({"rf"}), Seen({}))
    BY <2>1, <2>2, <2>3 DEF Chain
  <2> QED
    BY <2>4, Listed DEF c
<1> QED
  BY <1>1, <1>2, <1>3, Blocks, Sequel DEF gzputc_gzgetc

LEMMA SeekTest ==
    Leads(gzseek_gztell, Scope({}), Scope({}))
<1>1. Leads(<<Unchecked("look", "rf")>>, Scope({"rf"}), Scope({"rf"}))
  <2> DEFINE c == <<Unchecked("look", "rf")>>
             g == <<Scope({"rf"}), Scope({"rf"})>>
  <2>1. Len(c) = 1 /\ c \in Seq(Calls)
    BY ReaderCalls DEF Step
  <2>2. \A i \in 1 .. 1 : Step(c[i], g[i], g[i + 1])
    BY ReaderCalls
  <2>3. g[1] = Scope({"rf"}) /\ g[2] = Scope({"rf"}) /\ Scope({"rf"}) \in Scopes
    BY ReaderCalls DEF Step
  <2> HIDE DEF c, g
  <2>4. Chain(c, g, Scope({"rf"}), Scope({"rf"}))
    BY <2>1, <2>2, <2>3 DEF Chain
  <2> QED
    BY <2>4, Listed DEF c
<1>2. Leads(Times(5, <<Look({})>>), Scope({"rf"}), Scope({"rf"}))
  <2> DEFINE c == <<Look({})>>
  <2>1. Idle(c, Scope({"rf"}))
    BY ReaderCalls DEF Step, Idle
  <2> HIDE DEF c
  <2>2. Leads(Times(5, c), Scope({"rf"}), Scope({"rf"}))
    BY <2>1, Repeated
  <2> QED
    BY <2>2 DEF c
<1> QED
  BY <1>1, <1>2, Blocks, Sequel DEF gzseek_gztell

LEMMA EofTest ==
    Leads(gzeof, Scope({}), Scope({}))
<1>1. Leads(<<Look({}), Unchecked("look", "rf"), Look({}), CloseR>>, Scope({"rf"}), Scope({}))
  <2> DEFINE c == <<Look({}), Unchecked("look", "rf"), Look({}), CloseR>>
             g == <<Scope({"rf"}), Scope({"rf"}), Scope({"rf"}), Scope({"rf"}),
             Scope({})>>
  <2>1. Len(c) = 4 /\ c \in Seq(Calls)
    BY ReaderCalls DEF Step
  <2>2. \A i \in 1 .. 4 : Step(c[i], g[i], g[i + 1])
    BY ReaderCalls
  <2>3. g[1] = Scope({"rf"}) /\ g[5] = Scope({}) /\ Scope({"rf"}) \in Scopes
    BY ReaderCalls DEF Step
  <2> HIDE DEF c, g
  <2>4. Chain(c, g, Scope({"rf"}), Scope({}))
    BY <2>1, <2>2, <2>3 DEF Chain
  <2> QED
    BY <2>4, Listed DEF c
<1> QED
  BY <1>1, Blocks, Sequel DEF gzeof

LEMMA ErrorTest ==
    Leads(gzerror, Scope({}), Scope({}))
<1>1. Leads(<<Look({}), CloseR>>, Scope({"rf"}), Scope({}))
  <2> DEFINE c == <<Look({}), CloseR>>
             g == <<Scope({"rf"}), Scope({"rf"}), Scope({})>>
  <2>1. Len(c) = 2 /\ c \in Seq(Calls)
    BY ReaderCalls DEF Step
  <2>2. \A i \in 1 .. 2 : Step(c[i], g[i], g[i + 1])
    BY ReaderCalls
  <2>3. g[1] = Scope({"rf"}) /\ g[3] = Scope({}) /\ Scope({"rf"}) \in Scopes
    BY ReaderCalls DEF Step
  <2> HIDE DEF c, g
  <2>4. Chain(c, g, Scope({"rf"}), Scope({}))
    BY <2>1, <2>2, <2>3 DEF Chain
  <2> QED
    BY <2>4, Listed DEF c
<1> QED
  BY <1>1, Blocks, Sequel DEF gzerror

LEMMA UngetTest ==
    Leads(gzungetc, Scope({}), Scope({}))
<1>1. Leads(Times(4, <<Look({})>>), Scope({"rf"}), Scope({"rf"}))
  <2> DEFINE c == <<Look({})>>
  <2>1. Idle(c, Scope({"rf"}))
    BY ReaderCalls DEF Step, Idle
  <2> HIDE DEF c
  <2>2. Leads(Times(4, c), Scope({"rf"}), Scope({"rf"}))
    BY <2>1, Repeated
  <2> QED
    BY <2>2 DEF c
<1> QED
  BY <1>1, Blocks, Sequel DEF gzungetc

LEMMA LargeFileTest ==
    Leads(large_file, Scope({}), Seen({}))
<1>1. Leads(large_file, Scope({}), Seen({}))
  <2> DEFINE c == <<Malloc("data", {}), Create({"data"}), Write({"data"}), CloseW,
             Open({"data"}), Malloc("buf", {"rf", "data"}),
             Compare({"data", "buf"}), Look({"data", "buf"}), CloseR,
             Free("data"), Free("buf")>>
             g == <<Scope({}), Scope({"data"}), Scope({"data", "wf"}),
             Scope({"data", "wf"}), Scope({"data"}), Scope({"data", "rf"}),
             Scope({"data", "rf", "buf"}), Seen({"data", "rf", "buf"}),
             Seen({"data", "rf", "buf"}), Seen({"data", "buf"}),
             Seen({"buf"}), Seen({})>>
  <2>1. Len(c) = 11 /\ c \in Seq(Calls)
    BY BufferCalls, LargeFileCalls DEF Step
  <2>2. \A i \in 1 .. 11 : Step(c[i], g[i], g[i + 1])
    BY BufferCalls, LargeFileCalls
  <2>3. g[1] = Scope({}) /\ g[12] = Seen({}) /\ Scope({}) \in Scopes
    BY BufferCalls, LargeFileCalls DEF Step
  <2> HIDE DEF c, g
  <2>4. Chain(c, g, Scope({}), Seen({}))
    BY <2>1, <2>2, <2>3 DEF Chain
  <2> QED
    BY <2>4, Listed DEF c, large_file
<1> QED
  BY <1>1

LEMMA LevelsTest ==
    Leads(compression_levels, Scope({}), Scope({}))
<1>1. Leads(<<Malloc("data", {})>>, Scope({}), Scope({"data"}))
  <2> DEFINE c == <<Malloc("data", {})>>
             g == <<Scope({}), Scope({"data"})>>
  <2>1. Len(c) = 1 /\ c \in Seq(Calls)
    BY BufferCalls DEF Step
  <2>2. \A i \in 1 .. 1 : Step(c[i], g[i], g[i + 1])
    BY BufferCalls
  <2>3. g[1] = Scope({}) /\ g[2] = Scope({"data"}) /\ Scope({}) \in Scopes
    BY BufferCalls DEF Step
  <2> HIDE DEF c, g
  <2>4. Chain(c, g, Scope({}), Scope({"data"}))
    BY <2>1, <2>2, <2>3 DEF Chain
  <2> QED
    BY <2>4, Listed DEF c
<1>2. Leads(Times(3, <<Create({"data"}), Unchecked("write", "wf"), CloseW>>), Scope({"data"}), Scope({"data"}))
  <2> DEFINE c == <<Create({"data"}), Unchecked("write", "wf"), CloseW,
             Create({"data"}), Unchecked("write", "wf"), CloseW,
             Create({"data"}), Unchecked("write", "wf"), CloseW>>
             g == <<Scope({"data"}), Scope({"data", "wf"}), Scope({"data", "wf"}),
             Scope({"data"}), Scope({"data", "wf"}), Scope({"data", "wf"}),
             Scope({"data"}), Scope({"data", "wf"}), Scope({"data", "wf"}),
             Scope({"data"})>>
  <2>1. Len(c) = 9 /\ c \in Seq(Calls)
    BY BufferCalls DEF Step
  <2>2. \A i \in 1 .. 9 : Step(c[i], g[i], g[i + 1])
    BY BufferCalls
  <2>3. g[1] = Scope({"data"}) /\ g[10] = Scope({"data"}) /\ Scope({"data"}) \in Scopes
    BY BufferCalls DEF Step
  <2>5. Times(3, <<Create({"data"}), Unchecked("write", "wf"), CloseW>>) = c
    BY DEF Times
  <2> HIDE DEF c, g
  <2>4. Chain(c, g, Scope({"data"}), Scope({"data"}))
    BY <2>1, <2>2, <2>3 DEF Chain
  <2> QED
    BY <2>4, Listed, <2>5
<1>3. Leads(<<Free("data")>>, Scope({"data"}), Scope({}))
  <2> DEFINE c == <<Free("data")>>
             g == <<Scope({"data"}), Scope({})>>
  <2>1. Len(c) = 1 /\ c \in Seq(Calls)
    BY BufferCalls DEF Step
  <2>2. \A i \in 1 .. 1 : Step(c[i], g[i], g[i + 1])
    BY BufferCalls
  <2>3. g[1] = Scope({"data"}) /\ g[2] = Scope({}) /\ Scope({"data"}) \in Scopes
    BY BufferCalls DEF Step
  <2> HIDE DEF c, g
  <2>4. Chain(c, g, Scope({"data"}), Scope({}))
    BY <2>1, <2>2, <2>3 DEF Chain
  <2> QED
    BY <2>4, Listed DEF c
<1> QED
  BY <1>1, <1>2, <1>3, Sequel DEF compression_levels

Comparing == {1, 2, 3, 8}       \* the tests that compare the last of their data
End(t) == IF t \in Comparing THEN Seen({}) ELSE Scope({})

LEMMA TestsLength == Len(Tests) = 9
  BY DEF Tests

LEMMA EveryTest ==
    ASSUME NEW t \in 1 .. Len(Tests)
    PROVE  Leads(Tests[t], Scope({}), End(t))
<1>1. t \in {1, 2, 3, 4, 5, 6, 7, 8, 9}
  BY TestsLength
<1>2. CASE t \in Comparing
  BY <1>2, BasicTest, StringTest, CharacterTest, LargeFileTest DEF Comparing, End, Tests
<1>3. CASE t \in {4, 5, 6, 7, 9}
  BY <1>3, SeekTest, EofTest, ErrorTest, UngetTest, LevelsTest DEF Comparing, End, Tests
<1> QED
  BY <1>1, <1>2, <1>3 DEF Comparing

(* The scope at each place of a test.                                      *)
ScopeOf(t) == CHOOSE g : Traces(Tests[t], g, Scope({}), End(t))

LEMMA Traced ==
    ASSUME NEW t \in 1 .. Len(Tests)
    PROVE  Traces(Tests[t], ScopeOf(t), Scope({}), End(t))
  BY EveryTest DEF Leads, ScopeOf

LEMMA ScopesBounds ==
    ASSUME NEW t \in 1 .. Len(Tests)
    PROVE  /\ Len(Tests[t]) \in Nat
           /\ ScopeOf(t)[1] = Scope({})
           /\ ScopeOf(t)[Len(Tests[t]) + 1] = End(t)
  BY Traced DEF Traces

LEMMA CallFits ==
    ASSUME NEW t \in 1 .. Len(Tests), NEW i \in 1 .. Len(Tests[t])
    PROVE  Step(Tests[t][i], ScopeOf(t)[i], ScopeOf(t)[i + 1])
<1>1. Traces(Tests[t], ScopeOf(t), Scope({}), End(t))
  BY Traced
<1>2. Len(Tests[t]) \in Nat /\ i \in 1 .. Len(Tests[t]) + 1 /\ i + 1 \in 1 .. Len(Tests[t]) + 1
  BY ScopesBounds
<1>3. Tests[t][i] \in Calls
  BY <1>1 DEF Traces
<1> QED
  BY <1>1, <1>2, <1>3 DEF Traces, Step

-----------------------------------------------------------------------------
(* The inductive invariant: the state holds what the test's place says, and *)
(* the counters follow from the tests that passed.                         *)
Holds(s) ==
    /\ heap = s.held \cap Buffers
    /\ \A v \in s.held \cap Vars : local[v] \in Handles /\ table[local[v]] = v
    /\ \A h \in Handles : table[h] # "free" => table[h] \in s.held /\ local[table[h]] = h
    /\ s.seen => file = [by |-> test, whole |-> TRUE]

Held ==
    /\ InTest => Holds(ScopeOf(test)[at])
    /\ ~InTest => Holds(Scope({}))

(* The variables the rest of the invariant is about.                       *)
Shape ==
    /\ test \in 1 .. Len(Tests) + 1
    /\ at # 0 => test <= Len(Tests) /\ at \in 1 .. Len(Tests[test]) + 1
    /\ local \in [Vars -> Handles \cup {0}]
    /\ table \in [Handles -> Vars \cup {"free"}]
    /\ file \in [by : 0 .. Len(Tests), whole : BOOLEAN]
    /\ result \in {-1, 0, 1}
    /\ result # -1 => at # 0

(* A passed test counts twice when the left side is read late.             *)
Weight(tests) == IF early THEN Cardinality(tests) ELSE 2 * Cardinality(tests)

Counted ==
    /\ early \in BOOLEAN
    /\ good \subseteq 1 .. test
    /\ test \in good <=> result = 1
    /\ total = IF at = 0 THEN test - 1 ELSE test
    /\ passed = Weight(good \ {test}) + (IF result = 1 THEN 1 ELSE 0)
    /\ IF at = 0 THEN saved \in 0 .. 2 * Len(Tests) ELSE saved = Weight(good \ {test})
    /\ exit \in {-1, 0, 1}
    /\ exit # -1 => test = Len(Tests) + 1 /\ (exit = 0 => passed = total)

IInv == Shape /\ Held /\ Counted /\ PassedMeansWhole

LEMMA InitIInv == Init => IInv
<1> SUFFICES ASSUME Init PROVE IInv
  OBVIOUS
<1> USE TestsLength DEF Init
<1>1. Shape
  <2>1. /\ local \in [Vars -> Handles \cup {0}] /\ table \in [Handles -> Vars \cup {"free"}]
        /\ file \in [by : 0 .. Len(Tests), whole : BOOLEAN]
    OBVIOUS
  <2>2. test \in 1 .. Len(Tests) + 1 /\ result \in {-1, 0, 1}
    OBVIOUS
  <2> QED
    BY <2>1, <2>2 DEF Shape
<1>2. Held
  BY DEF Held, Holds, InTest, Scope
<1>3. Counted
  <2>1. good \ {test} = {} /\ Cardinality({}) = 0
    BY FS_EmptySet
  <2>2. Weight(good \ {test}) = 0
    BY <2>1 DEF Weight
  <2> QED
    BY <2>1, <2>2 DEF Counted
<1>4. PassedMeansWhole
  BY DEF PassedMeansWhole
<1> QED
  BY <1>1, <1>2, <1>3, <1>4 DEF IInv

LEMMA Weights ==
    ASSUME Shape, Counted
    PROVE  LET earlier == good \ {test} IN
           /\ earlier \subseteq 1 .. test - 1 /\ IsFiniteSet(earlier)
           /\ Cardinality(earlier) \in 0 .. test - 1
           /\ Weight(earlier) \in 0 .. 2 * (test - 1)
<1> DEFINE earlier == good \ {test}
<1>1. test \in Nat \ {0} /\ good \subseteq 1 .. test /\ early \in BOOLEAN
  BY TestsLength DEF Shape, Counted
<1>2. earlier \subseteq 1 .. test - 1
  BY <1>1
<1>3. 1 \in Int /\ test - 1 \in Nat
  BY <1>1
<1> HIDE DEF earlier
<1>4. IsFiniteSet(1 .. test - 1) /\ Cardinality(1 .. test - 1) = test - 1
  BY <1>3, FS_Interval
<1>5. /\ IsFiniteSet(earlier) /\ Cardinality(earlier) \in Nat
      /\ Cardinality(earlier) <= test - 1
  BY <1>2, <1>4, FS_Subset, FS_CardinalityType
<1>6. Weight(earlier) \in 0 .. 2 * (test - 1)
  BY <1>1, <1>5 DEF Weight
<1> QED
  BY <1>1, <1>2, <1>5, <1>6 DEF earlier

LEMMA HereFits ==
    ASSUME Shape, InTest, at <= Len(Tests[test])
    PROVE  /\ test \in 1 .. Len(Tests) /\ at \in 1 .. Len(Tests[test])
           /\ Step(Here, ScopeOf(test)[at], ScopeOf(test)[at + 1])
<1>1. test \in 1 .. Len(Tests) /\ at # 0 /\ at \in 1 .. Len(Tests[test]) + 1
  BY TestsLength DEF Shape, InTest
<1>2. at \in 1 .. Len(Tests[test])
  BY <1>1, ScopesBounds
<1> QED
  BY <1>1, <1>2, CallFits DEF Here

(* What a call that continues leaves to prove.                             *)
LEMMA Continued ==
    ASSUME IInv, InTest, at <= Len(Tests[test]), Continues, UNCHANGED counts,
           local' \in [Vars -> Handles \cup {0}], table' \in [Handles -> Vars \cup {"free"}],
           file' \in [by : 0 .. Len(Tests), whole : BOOLEAN],
           NEW u, u = ScopeOf(test)[at + 1], Holds(u)'
    PROVE  IInv'
<1>1. /\ test \in 1 .. Len(Tests) /\ at \in 1 .. Len(Tests[test]) /\ Len(Tests[test]) \in Nat
      /\ test' = test /\ at' = at + 1 /\ result' = -1 /\ result = -1
  BY HereFits, ScopesBounds DEF IInv, Continues, InTest
<1>2. Shape'
  <2>1. at' \in 1 .. Len(Tests[test']) + 1 /\ test' <= Len(Tests)
    BY <1>1, TestsLength
  <2> QED
    BY <1>1, <2>1, TestsLength DEF Shape, IInv
<1>3. Held'
  <2>1. InTest'
    BY <1>1 DEF InTest
  <2>2. ScopeOf(test')[at'] = u
    BY <1>1
  <2> QED
    BY <2>1, <2>2 DEF Held, Holds
<1>4. Counted'
  BY <1>1, TestsLength DEF IInv, Counted, counts, Weight
<1>5. PassedMeansWhole'
  BY <1>1 DEF PassedMeansWhole
<1> QED
  BY <1>2, <1>3, <1>4, <1>5 DEF IInv

LEMMA OpenStep == ASSUME IInv, OpenSucceeds PROVE IInv'
<1> SUFFICES ASSUME NEW s, NEW u, s = ScopeOf(test)[at], u = ScopeOf(test)[at + 1]
             PROVE  IInv'
  OBVIOUS
<1>1. InTest /\ at <= Len(Tests[test]) /\ Here.op \in {"create", "open"}
  BY DEF OpenSucceeds, On
<1>2. test \in 1 .. Len(Tests) /\ Step(Here, s, u)
  BY <1>1, HereFits DEF IInv
<1>3. Holds(s)
  BY <1>1 DEF IInv, Held
<1>4. /\ Here.on \in Vars \ s.held /\ u.held = s.held \cup {Here.on} /\ u.seen = s.seen
      /\ s.held \subseteq Things /\ s.seen \in BOOLEAN
      /\ s.seen => Here.op # "create"
  BY <1>1, <1>2 DEF Step, Fits, After, Scopes
<1>5. PICK h \in Handles :
          /\ table[h] = "free"
          /\ table' = [table EXCEPT ![h] = Here.on]
          /\ local' = [local EXCEPT ![Here.on] = h]
  BY DEF OpenSucceeds
<1> DEFINE v == Here.on
<1>6. /\ v \in Vars \ s.held /\ Vars \cap Buffers = {} /\ "free" \notin Vars
      /\ u.held = s.held \cup {v} /\ u.seen = s.seen
  BY <1>4 DEF Vars, Buffers
<1>7. /\ table \in [Handles -> Vars \cup {"free"}] /\ local \in [Vars -> Handles \cup {0}]
      /\ file \in [by : 0 .. Len(Tests), whole : BOOLEAN]
  BY DEF IInv, Shape
<1>8. heap' = heap /\ Continues /\ UNCHANGED counts /\ test' = test
  BY DEF OpenSucceeds, Continues
<1>9. file' = IF Here.op = "create" THEN [by |-> test, whole |-> TRUE] ELSE file
  BY DEF OpenSucceeds
<1>10. Here.op = "create" => ~s.seen
  BY <1>4
<1> HIDE DEF v
<1>11. /\ local' \in [Vars -> Handles \cup {0}] /\ table' \in [Handles -> Vars \cup {"free"}]
       /\ local'[v] = h /\ table'[h] = v
       /\ \A w \in Vars \ {v} : local'[w] = local[w]
       /\ \A g \in Handles \ {h} : table'[g] = table[g]
  BY <1>5, <1>6, <1>7 DEF v
<1>12. file' \in [by : 0 .. Len(Tests), whole : BOOLEAN]
  BY <1>2, <1>7, <1>9, TestsLength
<1>13. Holds(u)'
  <2>1. heap' = u.held \cap Buffers
    BY <1>3, <1>6, <1>8 DEF Holds
  <2>2. ASSUME NEW w \in u.held \cap Vars
        PROVE  local'[w] \in Handles /\ table'[local'[w]] = w
    <3>1. CASE w = v
      BY <1>5, <1>11, <3>1
    <3>2. CASE w # v
      <4>1. w \in s.held \cap Vars /\ local'[w] = local[w]
        BY <1>6, <1>11, <3>2
      <4>2. local[w] \in Handles /\ table[local[w]] = w /\ w # "free"
        BY <1>3, <1>6, <4>1 DEF Holds
      <4> QED
        BY <1>5, <1>11, <4>1, <4>2
    <3> QED
      BY <3>1, <3>2
  <2>3. ASSUME NEW g \in Handles, table'[g] # "free"
        PROVE  table'[g] \in u.held /\ local'[table'[g]] = g
    <3>1. CASE g = h
      BY <1>6, <1>11, <3>1
    <3>2. CASE g # h
      <4>1. table'[g] = table[g] /\ table[g] \in s.held /\ local[table[g]] = g
        BY <1>3, <1>11, <2>3, <3>2 DEF Holds
      <4>2. table[g] \in Vars \ {v}
        BY <1>6, <1>7, <2>3, <4>1
      <4> QED
        BY <1>6, <1>11, <4>1, <4>2
    <3> QED
      BY <3>1, <3>2
  <2>4. u.seen => file' = [by |-> test', whole |-> TRUE]
    BY <1>3, <1>6, <1>8, <1>9, <1>10 DEF Holds
  <2> QED
    BY <2>1, <2>2, <2>3, <2>4 DEF Holds
<1> QED
  BY <1>1, <1>8, <1>11, <1>12, <1>13, Continued

LEMMA WriteReturnsStep == ASSUME IInv, WriteReturns PROVE IInv'
<1> SUFFICES ASSUME NEW s, NEW u, s = ScopeOf(test)[at], u = ScopeOf(test)[at + 1]
             PROVE  IInv'
  OBVIOUS
<1>1. InTest /\ at <= Len(Tests[test]) /\ Here.op \in {"write"}
  BY DEF WriteReturns, On
<1>2. test \in 1 .. Len(Tests) /\ Step(Here, s, u) /\ Holds(s)
  BY <1>1, HereFits DEF IInv, Held
<1>3. /\ table \in [Handles -> Vars \cup {"free"}] /\ local \in [Vars -> Handles \cup {0}]
      /\ file \in [by : 0 .. Len(Tests), whole : BOOLEAN]
  BY DEF IInv, Shape
<1>4. u = [held |-> s.held, seen |-> s.seen] /\ ~s.seen
  BY <1>1, <1>2 DEF Step, Fits, After, Scopes
<1>5. Continues /\ UNCHANGED <<local, table, heap, counts>>
  BY DEF WriteReturns
<1>6. file' \in [by : 0 .. Len(Tests), whole : BOOLEAN]
  BY <1>3 DEF WriteReturns
<1>7. Holds(u)'
  BY <1>2, <1>4, <1>5 DEF Holds
<1> QED
  BY <1>1, <1>3, <1>5, <1>6, <1>7, Continued

LEMMA ReadSucceedsStep == ASSUME IInv, ReadSucceeds PROVE IInv'
<1> SUFFICES ASSUME NEW s, NEW u, s = ScopeOf(test)[at], u = ScopeOf(test)[at + 1]
             PROVE  IInv'
  OBVIOUS
<1>1. InTest /\ at <= Len(Tests[test]) /\ Here.op \in {"look", "compare"}
  BY DEF ReadSucceeds, On
<1>2. test \in 1 .. Len(Tests) /\ Step(Here, s, u) /\ Holds(s)
  BY <1>1, HereFits DEF IInv, Held
<1>3. /\ table \in [Handles -> Vars \cup {"free"}] /\ local \in [Vars -> Handles \cup {0}]
      /\ file \in [by : 0 .. Len(Tests), whole : BOOLEAN]
  BY DEF IInv, Shape
<1>4. u = [held |-> s.held, seen |-> s.seen \/ Here.op = "compare"] /\ s.seen \in BOOLEAN
  BY <1>1, <1>2 DEF Step, After, Scopes
<1>5. Continues /\ UNCHANGED <<local, table, heap, file, counts>> /\ test' = test
  BY DEF ReadSucceeds, Continues
<1>6. Here.op = "compare" => file = [by |-> test, whole |-> TRUE]
  BY <1>1, <1>3 DEF ReadSucceeds, On
<1>7. Holds(u)'
  BY <1>2, <1>4, <1>5, <1>6 DEF Holds
<1> QED
  BY <1>1, <1>3, <1>5, <1>7, Continued

LEMMA CloseReturnsStep == ASSUME IInv, CloseReturns PROVE IInv'
<1> SUFFICES ASSUME NEW s, NEW u, s = ScopeOf(test)[at], u = ScopeOf(test)[at + 1]
             PROVE  IInv'
  OBVIOUS
<1>1. InTest /\ at <= Len(Tests[test]) /\ Here.op \in {"close"}
  BY DEF CloseReturns, On
<1>2. test \in 1 .. Len(Tests) /\ Step(Here, s, u) /\ Holds(s)
  BY <1>1, HereFits DEF IInv, Held
<1>3. /\ table \in [Handles -> Vars \cup {"free"}] /\ local \in [Vars -> Handles \cup {0}]
      /\ file \in [by : 0 .. Len(Tests), whole : BOOLEAN]
  BY DEF IInv, Shape
<1> DEFINE v == Here.on
<1>4. /\ v \in Vars \cap s.held /\ u.held = s.held \ {v} /\ u.seen = s.seen
      /\ s.seen => v # "wf"
  BY <1>1, <1>2 DEF Step, Fits, After, Scopes
<1>5. /\ Continues /\ UNCHANGED <<local, heap, counts>> /\ test' = test
      /\ table' = [table EXCEPT ![local[v]] = "free"]
  BY DEF CloseReturns, Continues
<1>6. /\ file' \in [by : 0 .. Len(Tests), whole : BOOLEAN]
      /\ v # "wf" => file' = file
  BY <1>3 DEF CloseReturns
<1> HIDE DEF v
<1>7. local[v] \in Handles /\ table[local[v]] = v
  BY <1>2, <1>4 DEF Holds
<1>8. /\ table' \in [Handles -> Vars \cup {"free"}] /\ table'[local[v]] = "free"
      /\ \A h \in Handles \ {local[v]} : table'[h] = table[h]
  BY <1>3, <1>5, <1>7
<1>9. Holds(u)'
  <2>1. heap' = u.held \cap Buffers
    BY <1>2, <1>4, <1>5 DEF Holds, Vars, Buffers
  <2>2. ASSUME NEW w \in u.held \cap Vars
        PROVE  local'[w] \in Handles /\ table'[local'[w]] = w
    <3>1. w # v /\ local[w] \in Handles /\ table[local[w]] = w
      BY <1>2, <1>4 DEF Holds
    <3> QED
      BY <1>5, <1>7, <1>8, <3>1
  <2>3. ASSUME NEW h \in Handles, table'[h] # "free"
        PROVE  table'[h] \in u.held /\ local'[table'[h]] = h
    <3>1. h # local[v] /\ table'[h] = table[h]
      BY <1>8, <2>3
    <3>2. table[h] \in s.held /\ local[table[h]] = h
      BY <1>2, <2>3, <3>1 DEF Holds
    <3> QED
      BY <1>4, <1>5, <3>1, <3>2
  <2>4. u.seen => file' = [by |-> test', whole |-> TRUE]
    BY <1>2, <1>4, <1>5, <1>6 DEF Holds
  <2> QED
    BY <2>1, <2>2, <2>3, <2>4 DEF Holds
<1> QED
  BY <1>1, <1>3, <1>5, <1>6, <1>8, <1>9, Continued

LEMMA AllocateStep == ASSUME IInv, Allocate PROVE IInv'
<1> SUFFICES ASSUME NEW s, NEW u, s = ScopeOf(test)[at], u = ScopeOf(test)[at + 1]
             PROVE  IInv'
  OBVIOUS
<1>1. InTest /\ at <= Len(Tests[test]) /\ Here.op \in {"malloc"}
  BY DEF Allocate, On
<1>2. test \in 1 .. Len(Tests) /\ Step(Here, s, u) /\ Holds(s)
  BY <1>1, HereFits DEF IInv, Held
<1>3. /\ table \in [Handles -> Vars \cup {"free"}] /\ local \in [Vars -> Handles \cup {0}]
      /\ file \in [by : 0 .. Len(Tests), whole : BOOLEAN]
  BY DEF IInv, Shape
<1>4. /\ Here.on \in Buffers /\ u.held = s.held \cup {Here.on} /\ u.seen = s.seen
      /\ s.held \subseteq Things
  BY <1>1, <1>2 DEF Step, Fits, After, Scopes
<1>5. /\ Continues /\ UNCHANGED <<local, table, file, counts>> /\ test' = test
      /\ heap' = heap \cup {Here.on}
  BY DEF Allocate, Continues
<1>6. heap' = u.held \cap Buffers /\ u.held \cap Vars = s.held \cap Vars
  BY <1>2, <1>4, <1>5 DEF Holds, Vars, Buffers
<1>7. Holds(u)'
  BY <1>2, <1>3, <1>4, <1>5, <1>6 DEF Holds
<1> QED
  BY <1>1, <1>3, <1>5, <1>7, Continued

LEMMA FreeReturnsStep == ASSUME IInv, FreeReturns PROVE IInv'
<1> SUFFICES ASSUME NEW s, NEW u, s = ScopeOf(test)[at], u = ScopeOf(test)[at + 1]
             PROVE  IInv'
  OBVIOUS
<1>1. InTest /\ at <= Len(Tests[test]) /\ Here.op \in {"free"}
  BY DEF FreeReturns, On
<1>2. test \in 1 .. Len(Tests) /\ Step(Here, s, u) /\ Holds(s)
  BY <1>1, HereFits DEF IInv, Held
<1>3. /\ table \in [Handles -> Vars \cup {"free"}] /\ local \in [Vars -> Handles \cup {0}]
      /\ file \in [by : 0 .. Len(Tests), whole : BOOLEAN]
  BY DEF IInv, Shape
<1>4. /\ Here.on \in Buffers /\ u.held = s.held \ {Here.on} /\ u.seen = s.seen
      /\ s.held \subseteq Things
  BY <1>1, <1>2 DEF Step, Fits, After, Scopes
<1>5. /\ Continues /\ UNCHANGED <<local, table, file, counts>> /\ test' = test
      /\ heap' = heap \ {Here.on}
  BY DEF FreeReturns, Continues
<1>6. heap' = u.held \cap Buffers /\ u.held \cap Vars = s.held \cap Vars
  BY <1>2, <1>4, <1>5 DEF Holds, Vars, Buffers
<1>7. Holds(u)'
  BY <1>2, <1>3, <1>4, <1>5, <1>6 DEF Holds
<1> QED
  BY <1>1, <1>3, <1>5, <1>7, Continued

LEMMA FailsStep == ASSUME IInv, Fails PROVE IInv'
<1> SUFFICES ASSUME NEW s, s = ScopeOf(test)[at] PROVE IInv'
  OBVIOUS
<1>1. InTest /\ at <= Len(Tests[test]) /\ Here.checked
  BY DEF Fails
<1>2. test \in 1 .. Len(Tests) /\ Step(Here, s, ScopeOf(test)[at + 1]) /\ Holds(s)
  BY <1>1, HereFits DEF IInv, Held
<1>3. Here.released \cup (IF Here.op = "close" THEN {Here.on} ELSE {}) = s.held
  BY <1>1, <1>2 DEF Step, Fits, Gone
<1>4. /\ table' = [h \in Handles |->
                      IF \E v \in s.held \cap Vars : local[v] = h THEN "free" ELSE table[h]]
      /\ heap' = heap \ s.held
      /\ file' \in {file, [by |-> test, whole |-> FALSE]}
      /\ result' = 0 /\ UNCHANGED <<test, at, local, counts>>
  BY <1>3 DEF Fails
<1>5. /\ table \in [Handles -> Vars \cup {"free"}] /\ local \in [Vars -> Handles \cup {0}]
      /\ file \in [by : 0 .. Len(Tests), whole : BOOLEAN] /\ at # 0 /\ result = -1
  BY <1>1 DEF IInv, Shape, InTest
<1>6. ASSUME NEW h \in Handles PROVE table'[h] = "free"
  <2>1. CASE table[h] = "free"
    BY <1>4, <2>1
  <2>2. CASE table[h] # "free"
    BY <1>2, <1>4, <1>5, <2>2 DEF Holds
  <2> QED
    BY <2>1, <2>2
<1>7. heap' = {}
  BY <1>2, <1>4 DEF Holds
<1>8. Shape'
  <2>1. table' \in [Handles -> Vars \cup {"free"}]
    BY <1>4, <1>5
  <2>2. [by |-> test, whole |-> FALSE] \in [by : 0 .. Len(Tests), whole : BOOLEAN]
    BY <1>2, TestsLength
  <2>3. file' \in [by : 0 .. Len(Tests), whole : BOOLEAN]
    BY <1>4, <1>5, <2>2
  <2> QED
    BY <1>4, <1>5, <2>1, <2>3 DEF IInv, Shape
<1>9. Held'
  BY <1>4, <1>6, <1>7 DEF Held, Holds, Scope, InTest
<1>10. Counted'
  BY <1>4, <1>5 DEF IInv, Counted, counts, Weight
<1>11. PassedMeansWhole'
  BY <1>4 DEF PassedMeansWhole
<1> QED
  BY <1>8, <1>9, <1>10, <1>11 DEF IInv

LEMMA PassesStep == ASSUME IInv, Passes PROVE IInv'
<1>1. /\ test \in 1 .. Len(Tests) /\ at = Len(Tests[test]) + 1 /\ at # 0
      /\ result = -1 /\ InTest
  BY TestsLength DEF Passes, InTest, IInv, Shape
<1>2. /\ result' = 1 /\ passed' = passed + 1 /\ good' = good \cup {test}
      /\ UNCHANGED <<test, at, local, table, heap, file, total, early, saved, exit>>
  BY DEF Passes
<1>3. Holds(End(test))
  BY <1>1, ScopesBounds DEF IInv, Held
<1>4. Shape'
  BY <1>1, <1>2 DEF IInv, Shape
<1>5. Held'
  BY <1>2, <1>3 DEF Held, Holds, InTest, End, Scope, Seen
<1>6. Counted'
  <2>1. good' \ {test'} = good \ {test} /\ test' \in good' /\ good' \subseteq 1 .. test'
    BY <1>1, <1>2 DEF IInv, Counted
  <2>2. Weight(good \ {test})' = Weight(good \ {test})
    BY <1>2, <2>1 DEF Weight
  <2>3. passed = Weight(good \ {test}) + 0
    BY <1>1 DEF IInv, Counted
  <2>4. passed' = Weight(good \ {test})' + 1
    <3> DEFINE w == Weight(good \ {test})
    <3>1. w \in Int
      BY Weights DEF IInv
    <3> HIDE DEF w
    <3>2. passed' = w + 1
      BY <1>2, <2>3, <3>1 DEF w
    <3> QED
      BY <2>2, <3>2 DEF w
  <2> QED
    BY <1>1, <1>2, <2>1, <2>2, <2>4 DEF IInv, Counted
<1>7. PassedMeansWhole'
  <2>1. test \in Comparing => file = [by |-> test, whole |-> TRUE]
    BY <1>3 DEF Holds, End, Seen
  <2> QED
    BY <1>2, <2>1 DEF PassedMeansWhole, Comparing
<1> QED
  BY <1>4, <1>5, <1>6, <1>7 DEF IInv

LEMMA CallStep == ASSUME IInv, Call PROVE IInv'
<1>1. /\ test \in 1 .. Len(Tests) /\ at = 0 /\ at' = 1 /\ result = -1
      /\ saved' = passed /\ total' = total + 1
      /\ UNCHANGED <<test, local, table, heap, file, result, passed, early, exit, good>>
  BY TestsLength DEF Call, IInv, Shape
<1>2. Len(Tests[test]) \in Nat /\ ScopeOf(test)[1] = Scope({})
  BY <1>1, ScopesBounds
<1>3. Shape'
  BY <1>1, <1>2, TestsLength DEF IInv, Shape
<1>4. Held'
  <2>1. Holds(Scope({})) /\ InTest'
    BY <1>1 DEF IInv, Held, InTest
  <2> QED
    BY <1>1, <1>2, <2>1 DEF Held, Holds, Scope
<1>5. Counted'
  <2>1. passed = Weight(good \ {test}) + 0 /\ Weight(good \ {test}) \in Int
    BY <1>1, Weights DEF IInv, Counted
  <2>2. Weight(good \ {test})' = Weight(good \ {test})
    BY <1>1 DEF Weight
  <2>3. passed' = Weight(good \ {test})' + 0 /\ saved' = Weight(good \ {test})'
    BY <1>1, <2>1, <2>2
  <2>4. total' = test'
    BY <1>1 DEF IInv, Counted
  <2> QED
    BY <1>1, <2>3, <2>4 DEF IInv, Counted
<1>6. PassedMeansWhole'
  BY <1>1 DEF PassedMeansWhole
<1> QED
  BY <1>3, <1>4, <1>5, <1>6 DEF IInv

LEMMA CountStep == ASSUME IInv, Count PROVE IInv'
<1>1. /\ result \in {0, 1} /\ test \in 1 .. Len(Tests) /\ at # 0
      /\ passed' = (IF early THEN saved ELSE passed) + result
      /\ test' = test + 1 /\ at' = 0 /\ result' = -1 /\ local' = [v \in Vars |-> 0]
      /\ UNCHANGED <<table, heap, file, total, early, saved, exit, good>>
  BY TestsLength DEF Count, IInv, Shape
<1>2. Shape'
  BY <1>1, TestsLength DEF IInv, Shape
<1>3. Held'
  <2>1. Holds(Scope({})) /\ ~InTest'
    BY <1>1 DEF IInv, Held, InTest
  <2> QED
    BY <1>1, <2>1 DEF IInv, Shape, Held, Holds, Scope
<1>4. Counted'
  <2> DEFINE earlier == good \ {test}
             n == Cardinality(earlier)
  <2>1. /\ early \in BOOLEAN /\ good \subseteq 1 .. test /\ total = test
        /\ saved = Weight(earlier) /\ saved \in 0 .. 2 * Len(Tests)
        /\ passed = saved + (IF result = 1 THEN 1 ELSE 0)
        /\ test \in good <=> result = 1
        /\ exit \in {-1, 0, 1} /\ exit = -1
    <3>1. Weight(earlier) \in 0 .. 2 * (test - 1)
      BY Weights DEF IInv
    <3>2. saved = Weight(earlier)
      BY <1>1 DEF IInv, Counted
    <3>3. saved \in 0 .. 2 * Len(Tests)
      BY <1>1, <3>1, <3>2, TestsLength
    <3> QED
      BY <1>1, <3>2, <3>3, TestsLength DEF IInv, Counted
  <2>2. test + 1 \notin good /\ good \ {test + 1} = good /\ good \subseteq 1 .. test + 1
    BY <1>1, <2>1
  <2>3. IsFiniteSet(earlier) /\ n \in Nat
    BY <1>1, Weights DEF IInv
  <2>4. saved = IF early THEN n ELSE 2 * n
    BY <2>1 DEF Weight
  <2>5. Weight(good \ {test})' = IF early THEN Cardinality(good) ELSE 2 * Cardinality(good)
    BY <1>1, <2>2 DEF Weight
  <2>6. Cardinality(good) = n + result
    <3>1. CASE result = 0
      <4>1. good = earlier
        BY <2>1, <3>1
      <4> HIDE DEF earlier
      <4> QED
        BY <2>3, <3>1, <4>1
    <3>2. CASE result = 1
      <4>1. good = earlier \cup {test} /\ test \notin earlier
        BY <2>1, <3>2
      <4> HIDE DEF earlier
      <4> QED
        BY <2>3, <3>2, <4>1, FS_AddElement
    <3> QED
      BY <1>1, <3>1, <3>2
  <2> HIDE DEF n
  <2>7. passed' = IF early THEN n + result ELSE 2 * (n + result)
    BY <1>1, <2>1, <2>3, <2>4
  <2>8. passed' = Weight(good \ {test})' + 0
    BY <1>1, <2>3, <2>5, <2>6, <2>7
  <2> QED
    BY <1>1, <2>1, <2>2, <2>8, TestsLength DEF Counted
<1>5. PassedMeansWhole'
  BY <1>1 DEF PassedMeansWhole
<1> QED
  BY <1>2, <1>3, <1>4, <1>5 DEF IInv

LEMMA ExitStep == ASSUME IInv, Exit PROVE IInv'
<1>1. /\ test = Len(Tests) + 1 /\ exit' = IF passed = total THEN 0 ELSE 1
      /\ file' = [by |-> 0, whole |-> FALSE] /\ at = 0 /\ result = -1
      /\ UNCHANGED <<test, at, local, table, heap, result, passed, total, early, saved, good>>
  BY TestsLength DEF Exit, IInv, Shape
<1>2. Shape'
  BY <1>1, TestsLength DEF IInv, Shape
<1>3. Held'
  BY <1>1 DEF IInv, Held, Holds, Scope, InTest
<1>4. Counted'
  BY <1>1 DEF IInv, Counted, Weight
<1>5. PassedMeansWhole'
  BY <1>1 DEF PassedMeansWhole
<1> QED
  BY <1>2, <1>3, <1>4, <1>5 DEF IInv

LEMMA NextIInv == IInv /\ [Next]_vars => IInv'
<1> SUFFICES ASSUME IInv, [Next]_vars PROVE IInv'
  OBVIOUS
<1>1. CASE UNCHANGED vars
  BY <1>1 DEF IInv, Shape, Held, Holds, InTest, Counted, Weight, PassedMeansWhole, vars
<1> QED
  BY <1>1, CallStep, OpenStep, WriteReturnsStep, ReadSucceedsStep, CloseReturnsStep,
     AllocateStep, FreeReturnsStep, FailsStep, PassesStep, CountStep, ExitStep
  DEF Next

-----------------------------------------------------------------------------
(* The variables stay in their types, the counters within twice the tests  *)
(* (test_gzip.c:14-22, 479-497).                                           *)
THEOREM TypeCorrect == Spec => []TypeOK
<1>1. IInv => TypeOK
  <2> SUFFICES ASSUME IInv PROVE TypeOK
    OBVIOUS
  <2>1. test \in 1 .. Len(Tests) + 1 /\ Len(Tests) = 9
    BY TestsLength DEF IInv, Shape
  <2>2. heap \subseteq Buffers
    BY DEF IInv, Held, Holds
  <2>3. passed \in 0 .. 2 * Len(Tests) /\ saved \in 0 .. 2 * Len(Tests)
    <3>1. Weight(good \ {test}) \in 0 .. 2 * (test - 1)
      BY Weights DEF IInv
    <3>2. CASE at = 0
      BY <2>1, <3>1, <3>2 DEF IInv, Counted, Shape
    <3>3. CASE at # 0
      <4>1. test <= 9
        BY <2>1, <3>3 DEF IInv, Shape
      <4> QED
        BY <2>1, <3>1, <3>3, <4>1 DEF IInv, Counted
    <3> QED
      BY <3>2, <3>3
  <2>4. total \in 0 .. Len(Tests)
    BY <2>1 DEF IInv, Counted, Shape
  <2>5. good \subseteq 1 .. Len(Tests)
    <3>1. test = Len(Tests) + 1 => test \notin good
      BY <2>1 DEF IInv, Counted, Shape
    <3> QED
      BY <2>1, <3>1 DEF IInv, Counted
  <2> QED
    BY <2>2, <2>3, <2>4, <2>5 DEF TypeOK, IInv, Shape, Counted
<1> QED
  BY <1>1, InitIInv, NextIInv, PTL DEF Spec

(* Whichever call fails, a test returns with every handle closed and every *)
(* buffer freed (test_gzip.c:24-476), however many handles the host has.   *)
THEOREM TestsReleaseAll == Spec => []NothingLeaks
<1>1. IInv => NothingLeaks
  BY DEF IInv, Held, Holds, Scope, InTest, NothingLeaks
<1> QED
  BY <1>1, InitIInv, NextIInv, PTL DEF Spec

(* The tests that read all of their data back pass only if none of it was  *)
(* lost, whichever of the unchecked calls lose some.                       *)
THEOREM ReadersSeeAll == Spec => []PassedMeansWhole
<1>1. IInv => PassedMeansWhole
  BY DEF IInv
<1> QED
  BY <1>1, InitIInv, NextIInv, PTL DEF Spec

(* In either order of evaluation of tests_passed += test() the exit status *)
(* is 0 only if every test passed (test_gzip.c:482-497).                   *)
THEOREM ZeroMeansAll == Spec => []ExitZeroMeansAllPassed
<1>1. IInv => ExitZeroMeansAllPassed
  <2> SUFFICES ASSUME IInv, exit = 0 PROVE good = 1 .. Len(Tests)
    BY DEF ExitZeroMeansAllPassed
  <2> DEFINE earlier == good \ {test}
             n == Cardinality(earlier)
  <2>1. test = 10 /\ at = 0 /\ result = -1 /\ passed = total /\ total = 9 /\ early \in BOOLEAN
    BY TestsLength DEF IInv, Counted, Shape
  <2>2. earlier = good /\ earlier \in SUBSET (1 .. 9) /\ n \in Nat /\ passed = Weight(earlier) + 0
    BY <2>1, Weights DEF IInv, Counted
  <2> HIDE DEF earlier
  <2>3. 9 = IF early THEN n ELSE 2 * n
    BY <2>1, <2>2 DEF Weight
  <2>4. n = 9
    <3> HIDE DEF n
    <3> QED
      BY <2>1, <2>2, <2>3
  <2>5. IsFiniteSet(1 .. 9) /\ Cardinality(1 .. 9) = 9
    <3> DEFINE m == 9
    <3>1. 1 \in Int /\ m \in Int /\ 1 <= m
      OBVIOUS
    <3> HIDE DEF m
    <3>2. IsFiniteSet(1 .. m) /\ Cardinality(1 .. m) = m
      BY <3>1, FS_Interval
    <3> QED
      BY <3>2 DEF m
  <2>6. earlier = 1 .. 9
    BY <2>2, <2>4, <2>5, FS_Subset
  <2> QED
    BY <2>2, <2>6, TestsLength
<1> QED
  BY <1>1, InitIInv, NextIInv, PTL DEF Spec

=============================================================================
