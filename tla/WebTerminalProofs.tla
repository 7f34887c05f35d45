------------------------- MODULE WebTerminalProofs -------------------------
(***************************************************************************)
(* Theorems about the parts of the web terminal, for any number of outputs *)
(* and commands, command requests, sources of a transfer, and savers: first*)
(* the shell, then the desktop, the terminal over HTTP, the transfers of   *)
(* files, the saves, and what follows for all of them together.            *)
(***************************************************************************)
EXTENDS WebTerminal, Integers, TLAPS

------------------------------------------------------------------------------
(***************************************************************************)
(* The shell.  The transcript and the audits can be compared with what the *)
(* shell wrote only through what each thread still has in its hands: the   *)
(* output the reader is about to record, the audit the handler is about to *)
(* create.  The invariant says where every output is in between.           *)
(***************************************************************************)

AtMost(s, n) == \A i \in DOMAIN s : s[i] <= n
Clean == fate \cap {"tangled", "unaudited"} = {}
\* The outputs that may have been kept: not yet the one the reader is about to record.
HeardSoFar == IF reader.pc = "record" THEN screen.received - 1 ELSE screen.received
\* The handler is about to create the audit of a command.
Creating == handler.pc \in {"save", "reset", "create"}
\* Commands with no output yet.
Fresh(c) == \/ c > handler.command
            \/ audit.pending # 0 /\ c > audit.pending
            \/ Creating /\ c = handler.command

\* What the shell has written, what the browser was shown and where the threads are.
TermFlow ==
    /\ screen.transcript = 1..screen.received /\ screen.shown \subseteq screen.transcript
    /\ reader.pc \in {"record", "save", "reset", "show"}
         => reader.output = screen.received /\ screen.received > 0
    /\ handler.pc \in {"join", "lastSave", "lastReset", "close", "over"} => socket # "open"
    /\ handler.pc \in {"connect", "setup"} => reader.pc = "none"
    /\ handler.pc = "connect" => ~audit.on

\* Once the reader has ended the transcript grows no more; a closed socket shows no more.
TermJoined ==
    /\ handler.pc \in {"lastSave", "lastReset", "close"} /\ "late" \notin fate
         => reader.pc \in {"none", "over"}
    /\ rows.session = "closed" =>
         /\ handler.pc = "over" /\ screen.shown \subseteq rows.transcript
         /\ "late" \notin fate => /\ reader.pc \in {"none", "over"}
                                  /\ screen.transcript \subseteq rows.transcript

\* Nothing is kept that was not heard, and audits are created in their order.
AuditBounds ==
    /\ \A c \in Commands : AtMost(rows.outputs[c], HeardSoFar)
    /\ AtMost(audit.chunks, HeardSoFar)
    /\ audit.pending <= handler.command
    /\ Creating => audit.pending < handler.command

StoredInOrder ==
    \A c \in Commands :
      /\ Rising(rows.outputs[c])
      /\ \A d \in (c + 1)..MaxCommands : Before(rows.outputs[c], rows.outputs[d])
FreshEmpty == \A c \in Commands : Fresh(c) => rows.outputs[c] = <<>>
ChunksLast == Rising(audit.chunks) /\ \A c \in Commands : Before(rows.outputs[c], audit.chunks)

\* What is stored is in order, and what is collected comes after it, except
\* between saving and forgetting it.
AuditOrder == Clean => StoredInOrder /\ FreshEmpty /\ (Flushing = {} => ChunksLast)

TermInv == TermTypeOK /\ TermFlow /\ TermJoined /\ AuditBounds /\ AuditOrder
----------------------------------------------------------------------------
(* Sequences of outputs. *)

LEMMA ConcatOutputs ==
  ASSUME NEW s \in Seq(Outputs), NEW t \in Seq(Outputs)
  PROVE  /\ s \o t \in Seq(Outputs)
         /\ \A n \in Nat : AtMost(s, n) /\ AtMost(t, n) => AtMost(s \o t, n)
         /\ Rising(s) /\ Rising(t) /\ Before(s, t) => Rising(s \o t)
         /\ \A u \in Seq(Outputs) : Before(u, s) /\ Before(u, t) => Before(u, s \o t)
<1> USE TerminalAssumption DEF Outputs
<1>1. /\ s \o t \in Seq(Outputs) /\ DOMAIN (s \o t) = 1..(Len(s) + Len(t))
      /\ DOMAIN s = 1..Len(s) /\ DOMAIN t = 1..Len(t) /\ Len(s) \in Nat /\ Len(t) \in Nat
  OBVIOUS
<1>2. \A i \in 1..Len(s) : (s \o t)[i] = s[i] OBVIOUS
<1>3. \A i \in (Len(s) + 1)..(Len(s) + Len(t)) :
        (s \o t)[i] = t[i - Len(s)] /\ i - Len(s) \in DOMAIN t
  OBVIOUS
<1>4. \A i \in DOMAIN (s \o t) : i \in 1..Len(s) \/ i \in (Len(s) + 1)..(Len(s) + Len(t))
  BY <1>1
<1>5. \A n \in Nat : AtMost(s, n) /\ AtMost(t, n) => AtMost(s \o t, n)
  BY <1>1, <1>2, <1>3, <1>4 DEF AtMost
<1>6. ASSUME Rising(s), Rising(t), Before(s, t) PROVE Rising(s \o t)
  <2> SUFFICES ASSUME NEW i \in DOMAIN (s \o t), NEW j \in DOMAIN (s \o t), i < j
               PROVE  (s \o t)[i] < (s \o t)[j]
    BY DEF Rising
  <2>1. CASE i \in 1..Len(s) /\ j \in 1..Len(s) BY <2>1, <1>1, <1>2, <1>6 DEF Rising
  <2>2. CASE i \in 1..Len(s) /\ j \notin 1..Len(s)
    BY <2>2, <1>1, <1>2, <1>3, <1>4, <1>6 DEF Before
  <2>3. CASE i \notin 1..Len(s)
    <3>1. i - Len(s) \in DOMAIN t /\ j - Len(s) \in DOMAIN t /\ i - Len(s) < j - Len(s)
          /\ (s \o t)[i] = t[i - Len(s)] /\ (s \o t)[j] = t[j - Len(s)]
      BY <2>3, <1>1, <1>3, <1>4
    <3> QED BY <3>1, <1>6 DEF Rising
  <2> QED BY <2>1, <2>2, <2>3
<1>7. \A u \in Seq(Outputs) : Before(u, s) /\ Before(u, t) => Before(u, s \o t)
  BY <1>1, <1>2, <1>3, <1>4 DEF Before
<1> QED BY <1>1, <1>5, <1>6, <1>7

LEMMA EmptyOutputs ==
  /\ <<>> \in Seq(Outputs) /\ Rising(<<>>) /\ \A n : AtMost(<<>>, n)
  /\ \A u : Before(u, <<>>) /\ Before(<<>>, u)
BY DEF Rising, AtMost, Before

\* An output after all that was heard is collected last.
LEMMA AppendOutput ==
  ASSUME NEW s \in Seq(Outputs), NEW n \in Outputs, AtMost(s, n - 1)
  PROVE  /\ Append(s, n) \in Seq(Outputs) /\ AtMost(Append(s, n), n)
         /\ Rising(s) => Rising(Append(s, n))
         /\ \A u \in Seq(Outputs) : Before(u, s) /\ AtMost(u, n - 1) => Before(u, Append(s, n))
<1> USE TerminalAssumption DEF Outputs
<1>1. /\ Append(s, n) \in Seq(Outputs) /\ DOMAIN Append(s, n) = 1..(Len(s) + 1)
      /\ DOMAIN s = 1..Len(s) /\ Len(s) \in Nat /\ n \in Nat
  OBVIOUS
<1>2. \A i \in 1..Len(s) : Append(s, n)[i] = s[i] /\ s[i] \in Nat OBVIOUS
<1>3. Append(s, n)[Len(s) + 1] = n OBVIOUS
<1>4. \A i \in DOMAIN Append(s, n) : i \in 1..Len(s) \/ i = Len(s) + 1 BY <1>1
<1>5. AtMost(Append(s, n), n) BY <1>1, <1>2, <1>3, <1>4 DEF AtMost
<1>6. Rising(s) => Rising(Append(s, n))
  <2> SUFFICES ASSUME Rising(s), NEW i \in DOMAIN Append(s, n), NEW j \in DOMAIN Append(s, n), i < j
               PROVE  Append(s, n)[i] < Append(s, n)[j]
    BY DEF Rising
  <2>1. CASE j \in 1..Len(s) BY <2>1, <1>1, <1>2 DEF Rising
  <2>2. CASE j = Len(s) + 1
    <3>1. i \in 1..Len(s) BY <2>2, <1>1
    <3> QED BY <3>1, <2>2, <1>1, <1>2, <1>3 DEF AtMost
  <2> QED BY <2>1, <2>2, <1>4
<1>7. ASSUME NEW u \in Seq(Outputs), Before(u, s), AtMost(u, n - 1) PROVE Before(u, Append(s, n))
  <2>1. \A i \in DOMAIN u : u[i] \in Nat /\ u[i] <= n - 1 BY <1>7 DEF AtMost
  <2> QED BY <2>1, <1>7, <1>1, <1>2, <1>3, <1>4 DEF Before
<1> QED BY <1>1, <1>5, <1>6, <1>7
----------------------------------------------------------------------------
(* The inductive invariant. *)

LEMMA TermInvInit == ASSUME TermInit PROVE TermInv
<1> USE TerminalAssumption DEF TermInit
<1>1. TermTypeOK BY EmptyOutputs DEF TermTypeOK, HandlerPC, ReaderPC
<1>2. TermFlow BY DEF TermFlow
<1>3. TermJoined BY DEF TermJoined
<1>4. AuditBounds BY EmptyOutputs DEF AuditBounds, Creating
<1>5. AuditOrder BY EmptyOutputs DEF AuditOrder, StoredInOrder, FreshEmpty, ChunksLast
<1> QED BY <1>1, <1>2, <1>3, <1>4, <1>5 DEF TermInv

LEMMA FlushingMeans ==
  /\ Flushing = {} <=> handler.pc \notin {"reset", "lastReset"} /\ reader.pc # "reset"
  /\ (Flushing = {})' <=> handler'.pc \notin {"reset", "lastReset"} /\ reader'.pc # "reset"
BY DEF Flushing

\* Steps that neither store nor collect output keep the order of the audit.
LEMMA OrderKept ==
  ASSUME TermTypeOK, AuditBounds, AuditOrder,
         audit'.chunks = audit.chunks, audit'.pending = audit.pending, rows'.outputs = rows.outputs,
         handler'.command = handler.command, Creating' => Creating,
         HeardSoFar' \in Int, HeardSoFar <= HeardSoFar', Flushing' = {} => Flushing = {}, fate \subseteq fate'
  PROVE  AuditBounds' /\ AuditOrder'
<1>1. /\ audit.chunks \in Seq(Outputs) /\ \A c \in Commands : rows.outputs[c] \in Seq(Outputs)
      /\ HeardSoFar \in Int
  BY DEF TermTypeOK, HeardSoFar
<1>2. \A s \in Seq(Outputs) : AtMost(s, HeardSoFar) => AtMost(s, HeardSoFar')
  <2> TAKE s \in Seq(Outputs)
  <2>1. \A i \in DOMAIN s : s[i] \in Int BY TerminalAssumption DEF Outputs
  <2> QED BY <2>1, <1>1 DEF AtMost
<1>3. AuditBounds' BY <1>1, <1>2 DEF AuditBounds
<1>4. Clean' => Clean BY DEF Clean
<1>5. \A c \in Commands : Fresh(c)' => Fresh(c) BY DEF Fresh
<1>6. AuditOrder'
  BY <1>4, <1>5 DEF AuditOrder, StoredInOrder, FreshEmpty, ChunksLast
<1> QED BY <1>3, <1>6

\* Saving the collected output: it goes to the end of the pending command's.
LEMMA FlushKeeps ==
  ASSUME TermTypeOK, AuditBounds
  PROVE  LET after == Flush(rows.outputs) IN
         /\ after \in [Commands -> Seq(Outputs)]
         /\ \A c \in Commands : AtMost(after[c], HeardSoFar)
         /\ \A c \in Commands : Fresh(c) /\ rows.outputs[c] = <<>> => after[c] = <<>>
         /\ StoredInOrder /\ FreshEmpty /\ ChunksLast =>
              \A c \in Commands : /\ Rising(after[c])
                                  /\ \A d \in (c + 1)..MaxCommands : Before(after[c], after[d])
         /\ ~Collected => after = rows.outputs
<1> DEFINE after == Flush(rows.outputs)
           p == audit.pending
<1>1. /\ rows.outputs \in [Commands -> Seq(Outputs)] /\ audit.chunks \in Seq(Outputs)
      /\ p \in 0..MaxCommands /\ HeardSoFar \in Int /\ handler.command \in 0..MaxCommands
  BY TerminalAssumption DEF TermTypeOK, HeardSoFar
<1>2. CASE ~Collected BY <1>1, <1>2 DEF Flush, AuditBounds, StoredInOrder
<1>3. CASE Collected
  <2>1. p \in Commands /\ audit.chunks # <<>>
    BY <1>3, <1>1, TerminalAssumption DEF Collected, Commands
  <2>2. after = [rows.outputs EXCEPT ![p] = rows.outputs[p] \o audit.chunks]
    BY <1>3 DEF Flush
  <2>3. rows.outputs[p] \in Seq(Outputs) BY <1>1, <2>1
  <2>4. rows.outputs[p] \o audit.chunks \in Seq(Outputs) BY <2>3, <1>1, ConcatOutputs
  <2>5. /\ after \in [Commands -> Seq(Outputs)] /\ after[p] = rows.outputs[p] \o audit.chunks
        /\ \A c \in Commands \ {p} : after[c] = rows.outputs[c]
    BY <2>1, <2>2, <2>4, <1>1
  <2>6. HeardSoFar \in Nat
    <3>1. Len(audit.chunks) \in Nat /\ Len(audit.chunks) # 0 BY <2>1, <1>1
    <3>2. 1 \in DOMAIN audit.chunks BY <3>1, <1>1
    <3>3. audit.chunks[1] \in Outputs BY <3>2, <1>1
    <3>4. audit.chunks[1] <= HeardSoFar BY <3>2 DEF AuditBounds, AtMost
    <3> QED BY <3>3, <3>4, <1>1, TerminalAssumption DEF Outputs
  <2>7. AtMost(after[p], HeardSoFar) BY <2>1, <2>3, <2>5, <2>6, <1>1, ConcatOutputs DEF AuditBounds
  <2>8. \A c \in Commands : AtMost(after[c], HeardSoFar) BY <2>5, <2>7 DEF AuditBounds
  <2>9. ~Fresh(p)
    BY <2>1, <1>1, TerminalAssumption DEF Fresh, AuditBounds, Commands
  <2>10. \A c \in Commands : Fresh(c) /\ rows.outputs[c] = <<>> => after[c] = <<>>
    BY <2>5, <2>9
  <2>11. ASSUME StoredInOrder, FreshEmpty, ChunksLast, NEW c \in Commands
         PROVE  /\ Rising(after[c])
                /\ \A d \in (c + 1)..MaxCommands : Before(after[c], after[d])
    <3>1. \A x \in Commands : Rising(rows.outputs[x]) /\ Before(rows.outputs[x], audit.chunks)
      BY <2>11 DEF StoredInOrder, ChunksLast
    <3>2. Rising(after[c])
      <4>1. CASE c = p
        BY <4>1, <2>1, <2>3, <2>5, <2>11, <3>1, <1>1, ConcatOutputs DEF ChunksLast
      <4>2. CASE c # p BY <4>2, <2>5, <3>1
      <4> QED BY <4>1, <4>2
    <3>3. ASSUME NEW d \in (c + 1)..MaxCommands PROVE Before(after[c], after[d])
      <4>1. d \in Commands /\ d # c /\ d > c BY TerminalAssumption DEF Commands
      <4>2. Before(rows.outputs[c], rows.outputs[d]) BY <2>11, <3>3 DEF StoredInOrder
      <4>3. CASE d = p
        BY <4>1, <4>2, <4>3, <3>1, <2>1, <2>3, <2>5, <1>1, ConcatOutputs
      <4>4. CASE c = p
        <5>1. rows.outputs[d] = <<>>
          BY <4>1, <4>4, <2>1, <2>11, <1>1, TerminalAssumption DEF FreshEmpty, Fresh, Commands
        <5>2. after[d] = <<>> BY <5>1, <4>1, <4>4, <2>5
        <5> QED BY <5>2, EmptyOutputs
      <4>5. CASE c # p /\ d # p BY <4>1, <4>2, <4>5, <2>5
      <4> QED BY <4>3, <4>4, <4>5
    <3> QED BY <3>2, <3>3
  <2> QED BY <1>3, <2>5, <2>8, <2>10, <2>11
<1> QED BY <1>2, <1>3

LEMMA QuietHandlerKeeps ==
  ASSUME TermInv, Refuse \/ StartReader \/ SetupRaises \/ SendCommand \/ Disconnect \/ JoinReader \/ CloseSession
  PROVE  TermInv'
<1> USE TerminalAssumption DEF TermInv, HandlerAt, ReaderAt, Alive, Shut
<1>1. ASSUME Refuse PROVE TermInv'
  <2> USE <1>1 DEF Refuse
  <2>1. TermTypeOK' BY DEF TermTypeOK, HandlerPC, ReaderPC, Outputs
  <2>2. TermFlow' BY DEF TermTypeOK, HandlerPC, ReaderPC, TermFlow
  <2>3. TermJoined' BY DEF TermTypeOK, HandlerPC, ReaderPC, TermFlow, TermJoined
  <2>4. AuditBounds' /\ AuditOrder'
    <3>1. /\ audit'.chunks = audit.chunks /\ audit'.pending = audit.pending
          /\ rows'.outputs = rows.outputs /\ handler'.command = handler.command /\ fate \subseteq fate'
      BY DEF TermTypeOK, HandlerPC, ReaderPC
    <3>2. (Creating' => Creating) /\ (Flushing' = {} => Flushing = {}) BY FlushingMeans DEF Creating, TermTypeOK, HandlerPC, ReaderPC
    <3>3. HeardSoFar' \in Int /\ HeardSoFar <= HeardSoFar' BY <2>1 DEF HeardSoFar, TermTypeOK, HandlerPC, ReaderPC
    <3> QED BY <3>1, <3>2, <3>3, OrderKept
  <2> QED BY <2>1, <2>2, <2>3, <2>4
<1>2. ASSUME StartReader PROVE TermInv'
  <2> USE <1>2 DEF StartReader
  <2>0. /\ handler.pc = "setup" /\ handler' = [handler EXCEPT !.pc = "live"]
        /\ handler'.pc = "live" /\ reader.pc = "none" /\ reader'.pc = "loop"
    BY DEF TermTypeOK, TermFlow
  <2>1. TermTypeOK' BY <2>0 DEF TermTypeOK, HandlerPC, ReaderPC, Outputs
  <2>2. TermFlow' BY <2>0 DEF TermTypeOK, HandlerPC, ReaderPC, TermFlow
  <2>3. TermJoined' BY DEF TermTypeOK, HandlerPC, ReaderPC, TermFlow, TermJoined
  <2>4. AuditBounds' /\ AuditOrder'
    <3>1. /\ audit'.chunks = audit.chunks /\ audit'.pending = audit.pending
          /\ rows'.outputs = rows.outputs /\ handler'.command = handler.command /\ fate \subseteq fate'
      BY DEF TermTypeOK, HandlerPC, ReaderPC
    <3>2. (Creating' => Creating) /\ (Flushing' = {} => Flushing = {}) BY <2>0, FlushingMeans DEF Creating, TermTypeOK, HandlerPC, ReaderPC
    <3>3. HeardSoFar' \in Int /\ HeardSoFar <= HeardSoFar' BY <2>0, <2>1 DEF HeardSoFar, TermTypeOK, HandlerPC, ReaderPC
    <3> QED BY <3>1, <3>2, <3>3, OrderKept
  <2> QED BY <2>1, <2>2, <2>3, <2>4
<1>3. ASSUME SetupRaises PROVE TermInv'
  <2> USE <1>3 DEF SetupRaises
  <2>1. TermTypeOK' BY DEF TermTypeOK, HandlerPC, ReaderPC, Outputs
  <2>2. TermFlow' BY DEF TermTypeOK, HandlerPC, ReaderPC, TermFlow
  <2>3. TermJoined' BY DEF TermTypeOK, HandlerPC, ReaderPC, TermFlow, TermJoined
  <2>4. AuditBounds' /\ AuditOrder'
    <3>1. /\ audit'.chunks = audit.chunks /\ audit'.pending = audit.pending
          /\ rows'.outputs = rows.outputs /\ handler'.command = handler.command /\ fate \subseteq fate'
      BY DEF TermTypeOK, HandlerPC, ReaderPC
    <3>2. (Creating' => Creating) /\ (Flushing' = {} => Flushing = {}) BY FlushingMeans DEF Creating, TermTypeOK, HandlerPC, ReaderPC
    <3>3. HeardSoFar' \in Int /\ HeardSoFar <= HeardSoFar' BY <2>1 DEF HeardSoFar, TermTypeOK, HandlerPC, ReaderPC
    <3> QED BY <3>1, <3>2, <3>3, OrderKept
  <2> QED BY <2>1, <2>2, <2>3, <2>4
<1>4. ASSUME SendCommand PROVE TermInv'
  <2> USE <1>4 DEF SendCommand
  <2>1. TermTypeOK' BY DEF TermTypeOK, HandlerPC, ReaderPC, Outputs
  <2>2. TermFlow' BY DEF TermTypeOK, HandlerPC, ReaderPC, TermFlow
  <2>3. TermJoined' BY DEF TermTypeOK, HandlerPC, ReaderPC, TermFlow, TermJoined
  <2>4. AuditBounds' /\ AuditOrder'
    <3>1. /\ audit'.chunks = audit.chunks /\ audit'.pending = audit.pending
          /\ rows'.outputs = rows.outputs /\ handler'.command = handler.command /\ fate \subseteq fate'
      BY DEF TermTypeOK, HandlerPC, ReaderPC
    <3>2. (Creating' => Creating) /\ (Flushing' = {} => Flushing = {}) BY FlushingMeans DEF Creating, TermTypeOK, HandlerPC, ReaderPC
    <3>3. HeardSoFar' \in Int /\ HeardSoFar <= HeardSoFar' BY <2>1 DEF HeardSoFar, TermTypeOK, HandlerPC, ReaderPC
    <3> QED BY <3>1, <3>2, <3>3, OrderKept
  <2> QED BY <2>1, <2>2, <2>3, <2>4
<1>5. ASSUME Disconnect PROVE TermInv'
  <2> USE <1>5 DEF Disconnect
  <2>1. TermTypeOK' BY DEF TermTypeOK, HandlerPC, ReaderPC, Outputs
  <2>2. TermFlow' BY DEF TermTypeOK, HandlerPC, ReaderPC, TermFlow
  <2>3. TermJoined' BY DEF TermTypeOK, HandlerPC, ReaderPC, TermFlow, TermJoined
  <2>4. AuditBounds' /\ AuditOrder'
    <3>1. /\ audit'.chunks = audit.chunks /\ audit'.pending = audit.pending
          /\ rows'.outputs = rows.outputs /\ handler'.command = handler.command /\ fate \subseteq fate'
      BY DEF TermTypeOK, HandlerPC, ReaderPC
    <3>2. (Creating' => Creating) /\ (Flushing' = {} => Flushing = {}) BY FlushingMeans DEF Creating, TermTypeOK, HandlerPC, ReaderPC
    <3>3. HeardSoFar' \in Int /\ HeardSoFar <= HeardSoFar' BY <2>1 DEF HeardSoFar, TermTypeOK, HandlerPC, ReaderPC
    <3> QED BY <3>1, <3>2, <3>3, OrderKept
  <2> QED BY <2>1, <2>2, <2>3, <2>4
<1>6. ASSUME JoinReader PROVE TermInv'
  <2> USE <1>6 DEF JoinReader
  <2>0. /\ handler' \in [pc : HandlerPC, command : 0..MaxCommands]
        /\ fate' \subseteq {"late", "tangled", "unaudited", "abandoned", "killed", "cleared"}
    BY DEF TermTypeOK, HandlerPC
  <2>1. TermTypeOK' BY <2>0 DEF TermTypeOK, HandlerPC, ReaderPC, Outputs
  <2>2. TermFlow' BY <2>0 DEF TermTypeOK, HandlerPC, ReaderPC, TermFlow
  <2>3. TermJoined' BY DEF TermTypeOK, HandlerPC, ReaderPC, TermFlow, TermJoined
  <2>4. AuditBounds' /\ AuditOrder'
    <3>1. /\ audit'.chunks = audit.chunks /\ audit'.pending = audit.pending
          /\ rows'.outputs = rows.outputs /\ handler'.command = handler.command /\ fate \subseteq fate'
      BY DEF TermTypeOK, HandlerPC, ReaderPC
    <3>2. (Creating' => Creating) /\ (Flushing' = {} => Flushing = {}) BY <2>0, FlushingMeans DEF Creating, TermTypeOK, HandlerPC, ReaderPC
    <3>3. HeardSoFar' \in Int /\ HeardSoFar <= HeardSoFar' BY <2>0, <2>1 DEF HeardSoFar, TermTypeOK, HandlerPC, ReaderPC
    <3> QED BY <3>1, <3>2, <3>3, OrderKept
  <2> QED BY <2>1, <2>2, <2>3, <2>4
<1>7. ASSUME CloseSession PROVE TermInv'
  <2> USE <1>7 DEF CloseSession
  <2>0. rows' \in [session : {"none", "connected", "closed"}, transcript : SUBSET Outputs,
                     outputs : [Commands -> Seq(Outputs)]]
    BY DEF TermTypeOK
  <2>9. handler' \in [pc : HandlerPC, command : 0..MaxCommands] BY DEF TermTypeOK, HandlerPC
  <2>1. TermTypeOK' BY <2>0, <2>9 DEF TermTypeOK, HandlerPC, ReaderPC, Outputs
  <2>2. TermFlow' BY <2>0, <2>9 DEF TermTypeOK, HandlerPC, ReaderPC, TermFlow
  <2>3. TermJoined' BY DEF TermTypeOK, HandlerPC, ReaderPC, TermFlow, TermJoined
  <2>4. AuditBounds' /\ AuditOrder'
    <3>1. /\ audit'.chunks = audit.chunks /\ audit'.pending = audit.pending
          /\ rows'.outputs = rows.outputs /\ handler'.command = handler.command /\ fate \subseteq fate'
      BY DEF TermTypeOK, HandlerPC, ReaderPC
    <3>2. (Creating' => Creating) /\ (Flushing' = {} => Flushing = {}) BY <2>0, <2>9, FlushingMeans DEF Creating, TermTypeOK, HandlerPC, ReaderPC
    <3>3. HeardSoFar' \in Int /\ HeardSoFar <= HeardSoFar' BY <2>0, <2>9, <2>1 DEF HeardSoFar, TermTypeOK, HandlerPC, ReaderPC
    <3> QED BY <3>1, <3>2, <3>3, OrderKept
  <2> QED BY <2>1, <2>2, <2>3, <2>4
<1> QED BY <1>1, <1>2, <1>3, <1>4, <1>5, <1>6, <1>7

LEMMA QuietReaderKeeps ==
  ASSUME TermInv, TakeTurn \/ ReadOutput \/ ReadNothing \/ ShowOutput \/ NoticeEnd \/ StopReader
  PROVE  TermInv'
<1> USE TerminalAssumption DEF TermInv, HandlerAt, ReaderAt, Alive, Shut
<1>1. ASSUME TakeTurn PROVE TermInv'
  <2> USE <1>1 DEF TakeTurn
  <2>0. reader' \in [pc : ReaderPC, output : 0..MaxOutputs, stop : BOOLEAN]
    BY DEF TermTypeOK, ReaderPC
  <2>1. TermTypeOK' BY <2>0 DEF TermTypeOK, HandlerPC, ReaderPC, Outputs
  <2>2. TermFlow' BY <2>0 DEF TermTypeOK, HandlerPC, ReaderPC, TermFlow
  <2>3. TermJoined' BY DEF TermTypeOK, HandlerPC, ReaderPC, TermFlow, TermJoined
  <2>4. AuditBounds' /\ AuditOrder'
    <3>1. /\ audit'.chunks = audit.chunks /\ audit'.pending = audit.pending
          /\ rows'.outputs = rows.outputs /\ handler'.command = handler.command /\ fate \subseteq fate'
      BY DEF TermTypeOK, HandlerPC, ReaderPC
    <3>2. (Creating' => Creating) /\ (Flushing' = {} => Flushing = {}) BY <2>0, FlushingMeans DEF Creating, TermTypeOK, HandlerPC, ReaderPC
    <3>3. HeardSoFar' \in Int /\ HeardSoFar <= HeardSoFar' BY <2>0, <2>1 DEF HeardSoFar, TermTypeOK, HandlerPC, ReaderPC
    <3> QED BY <3>1, <3>2, <3>3, OrderKept
  <2> QED BY <2>1, <2>2, <2>3, <2>4
<1>2. ASSUME ReadOutput PROVE TermInv'
  <2> USE <1>2 DEF ReadOutput
  <2>0. /\ reader' \in [pc : ReaderPC, output : 0..MaxOutputs, stop : BOOLEAN]
        /\ screen' \in [received : 0..MaxOutputs, alternate : BOOLEAN, shown : SUBSET Outputs,
                         transcript : SUBSET Outputs]
    <3>1. screen.received \in 0..MaxOutputs /\ screen.received + 1 \in 1..MaxOutputs
      BY DEF TermTypeOK
    <3>2. screen.transcript \cup {screen.received + 1} \in SUBSET Outputs
      BY <3>1 DEF TermTypeOK, Outputs
    <3>3. reader' \in [pc : ReaderPC, output : 0..MaxOutputs, stop : BOOLEAN]
      <4>1. reader' = [reader EXCEPT !.pc = "record", !.output = screen.received + 1] OBVIOUS
      <4>2. reader \in [pc : ReaderPC, output : 0..MaxOutputs, stop : BOOLEAN] BY DEF TermTypeOK
      <4>3. screen.received + 1 \in 0..MaxOutputs BY <3>1
      <4> QED BY <4>1, <4>2, <4>3 DEF ReaderPC
    <3>4. screen.received + 1 \in 0..MaxOutputs BY <3>1
    <3>5. screen' = [screen EXCEPT !.received = screen.received + 1,
                                  !.transcript = screen.transcript \cup {screen.received + 1}]
      OBVIOUS
    <3>6. screen' \in [received : 0..MaxOutputs, alternate : BOOLEAN, shown : SUBSET Outputs,
                         transcript : SUBSET Outputs]
      BY <3>2, <3>4, <3>5 DEF TermTypeOK
    <3> QED BY <3>3, <3>6
  <2>1. TermTypeOK' BY <2>0 DEF TermTypeOK, HandlerPC, ReaderPC, Outputs
  <2>2. TermFlow' BY <2>0 DEF TermTypeOK, HandlerPC, ReaderPC, TermFlow
  <2>3. TermJoined' BY DEF TermTypeOK, HandlerPC, ReaderPC, TermFlow, TermJoined
  <2>4. AuditBounds' /\ AuditOrder'
    <3>1. /\ audit'.chunks = audit.chunks /\ audit'.pending = audit.pending
          /\ rows'.outputs = rows.outputs /\ handler'.command = handler.command /\ fate \subseteq fate'
      BY DEF TermTypeOK, HandlerPC, ReaderPC
    <3>2. (Creating' => Creating) /\ (Flushing' = {} => Flushing = {}) BY <2>0, FlushingMeans DEF Creating, TermTypeOK, HandlerPC, ReaderPC
    <3>3. HeardSoFar' \in Int /\ HeardSoFar <= HeardSoFar' BY <2>0, <2>1 DEF HeardSoFar, TermTypeOK, HandlerPC, ReaderPC
    <3> QED BY <3>1, <3>2, <3>3, OrderKept
  <2> QED BY <2>1, <2>2, <2>3, <2>4
<1>3. ASSUME ReadNothing PROVE TermInv'
  <2> USE <1>3 DEF ReadNothing
  <2>1. TermTypeOK' BY DEF TermTypeOK, HandlerPC, ReaderPC, Outputs
  <2>2. TermFlow' BY DEF TermTypeOK, HandlerPC, ReaderPC, TermFlow
  <2>3. TermJoined' BY DEF TermTypeOK, HandlerPC, ReaderPC, TermFlow, TermJoined
  <2>4. AuditBounds' /\ AuditOrder'
    <3>1. /\ audit'.chunks = audit.chunks /\ audit'.pending = audit.pending
          /\ rows'.outputs = rows.outputs /\ handler'.command = handler.command /\ fate \subseteq fate'
      BY DEF TermTypeOK, HandlerPC, ReaderPC
    <3>2. (Creating' => Creating) /\ (Flushing' = {} => Flushing = {}) BY FlushingMeans DEF Creating, TermTypeOK, HandlerPC, ReaderPC
    <3>3. HeardSoFar' \in Int /\ HeardSoFar <= HeardSoFar' BY <2>1 DEF HeardSoFar, TermTypeOK, HandlerPC, ReaderPC
    <3> QED BY <3>1, <3>2, <3>3, OrderKept
  <2> QED BY <2>1, <2>2, <2>3, <2>4
<1>4. ASSUME ShowOutput PROVE TermInv'
  <2> USE <1>4 DEF ShowOutput
  <2>0. /\ reader' \in [pc : ReaderPC, output : 0..MaxOutputs, stop : BOOLEAN]
        /\ screen' \in [received : 0..MaxOutputs, alternate : BOOLEAN, shown : SUBSET Outputs,
                         transcript : SUBSET Outputs]
        /\ screen'.received = screen.received /\ screen'.transcript = screen.transcript
        /\ screen'.shown \subseteq screen.shown \cup {screen.received}
        /\ socket # "open" => screen' = screen
        /\ reader'.pc = "loop" /\ reader.pc = "show" /\ reader.output = screen.received
        /\ screen.received \in screen.transcript
    <3>1. reader.output = screen.received /\ screen.received \in 1..MaxOutputs
      BY DEF TermTypeOK, TermFlow
    <3>2. screen.received \in 1..screen.received BY <3>1
    <3>3. reader' \in [pc : ReaderPC, output : 0..MaxOutputs, stop : BOOLEAN] /\ reader'.pc = "loop"
      <4>1. reader' = [reader EXCEPT !.pc = "loop"] \/ reader' = [reader EXCEPT !.pc = "loop", !.stop = TRUE]
        OBVIOUS
      <4>2. reader \in [pc : ReaderPC, output : 0..MaxOutputs, stop : BOOLEAN] BY DEF TermTypeOK
      <4>3. \A r \in [pc : ReaderPC, output : 0..MaxOutputs, stop : BOOLEAN] :
              /\ [r EXCEPT !.pc = "loop"] \in [pc : ReaderPC, output : 0..MaxOutputs, stop : BOOLEAN]
              /\ [r EXCEPT !.pc = "loop", !.stop = TRUE] \in
                   [pc : ReaderPC, output : 0..MaxOutputs, stop : BOOLEAN]
        BY DEF ReaderPC
      <4>4. CASE reader' = [reader EXCEPT !.pc = "loop"] BY <4>2, <4>3, <4>4
      <4>5. CASE reader' = [reader EXCEPT !.pc = "loop", !.stop = TRUE] BY <4>2, <4>3, <4>5
      <4> QED BY <4>1, <4>4, <4>5
    <3>4. CASE socket = "open"
      <4>1. screen.shown \cup {reader.output} \in SUBSET Outputs BY <3>1 DEF TermTypeOK, Outputs
      <4>2. screen' = [screen EXCEPT !.shown = screen.shown \cup {reader.output}] BY <3>4
      <4>3. screen' \in [received : 0..MaxOutputs, alternate : BOOLEAN, shown : SUBSET Outputs,
                         transcript : SUBSET Outputs]
        BY <4>1, <4>2 DEF TermTypeOK
      <4> QED BY <3>1, <3>2, <3>3, <3>4, <4>2, <4>3 DEF TermTypeOK, TermFlow
    <3>5. CASE socket # "open"
      <4>1. screen' = screen BY <3>5
      <4> QED BY <3>1, <3>2, <3>3, <3>5, <4>1 DEF TermTypeOK, TermFlow
    <3> QED BY <3>4, <3>5
  <2>1. TermTypeOK' BY <2>0 DEF TermTypeOK, HandlerPC, ReaderPC, Outputs
  <2>2. TermFlow' BY <2>0 DEF TermTypeOK, HandlerPC, ReaderPC, TermFlow
  <2>3. TermJoined' BY DEF TermTypeOK, HandlerPC, ReaderPC, TermFlow, TermJoined
  <2>4. AuditBounds' /\ AuditOrder'
    <3>1. /\ audit'.chunks = audit.chunks /\ audit'.pending = audit.pending
          /\ rows'.outputs = rows.outputs /\ handler'.command = handler.command /\ fate \subseteq fate'
      BY DEF TermTypeOK, HandlerPC, ReaderPC
    <3>2. (Creating' => Creating) /\ (Flushing' = {} => Flushing = {}) BY <2>0, FlushingMeans DEF Creating, TermTypeOK, HandlerPC, ReaderPC
    <3>3. HeardSoFar' \in Int /\ HeardSoFar <= HeardSoFar' BY <2>0, <2>1 DEF HeardSoFar, TermTypeOK, HandlerPC, ReaderPC
    <3> QED BY <3>1, <3>2, <3>3, OrderKept
  <2> QED BY <2>1, <2>2, <2>3, <2>4
<1>5. ASSUME NoticeEnd PROVE TermInv'
  <2> USE <1>5 DEF NoticeEnd
  <2>1. TermTypeOK' BY DEF TermTypeOK, HandlerPC, ReaderPC, Outputs
  <2>2. TermFlow' BY DEF TermTypeOK, HandlerPC, ReaderPC, TermFlow
  <2>3. TermJoined' BY DEF TermTypeOK, HandlerPC, ReaderPC, TermFlow, TermJoined
  <2>4. AuditBounds' /\ AuditOrder'
    <3>1. /\ audit'.chunks = audit.chunks /\ audit'.pending = audit.pending
          /\ rows'.outputs = rows.outputs /\ handler'.command = handler.command /\ fate \subseteq fate'
      BY DEF TermTypeOK, HandlerPC, ReaderPC
    <3>2. (Creating' => Creating) /\ (Flushing' = {} => Flushing = {}) BY FlushingMeans DEF Creating, TermTypeOK, HandlerPC, ReaderPC
    <3>3. HeardSoFar' \in Int /\ HeardSoFar <= HeardSoFar' BY <2>1 DEF HeardSoFar, TermTypeOK, HandlerPC, ReaderPC
    <3> QED BY <3>1, <3>2, <3>3, OrderKept
  <2> QED BY <2>1, <2>2, <2>3, <2>4
<1>6. ASSUME StopReader PROVE TermInv'
  <2> USE <1>6 DEF StopReader
  <2>1. TermTypeOK' BY DEF TermTypeOK, HandlerPC, ReaderPC, Outputs
  <2>2. TermFlow' BY DEF TermTypeOK, HandlerPC, ReaderPC, TermFlow
  <2>3. TermJoined' BY DEF TermTypeOK, HandlerPC, ReaderPC, TermFlow, TermJoined
  <2>4. AuditBounds' /\ AuditOrder'
    <3>1. /\ audit'.chunks = audit.chunks /\ audit'.pending = audit.pending
          /\ rows'.outputs = rows.outputs /\ handler'.command = handler.command /\ fate \subseteq fate'
      BY DEF TermTypeOK, HandlerPC, ReaderPC
    <3>2. (Creating' => Creating) /\ (Flushing' = {} => Flushing = {}) BY FlushingMeans DEF Creating, TermTypeOK, HandlerPC, ReaderPC
    <3>3. HeardSoFar' \in Int /\ HeardSoFar <= HeardSoFar' BY <2>1 DEF HeardSoFar, TermTypeOK, HandlerPC, ReaderPC
    <3> QED BY <3>1, <3>2, <3>3, OrderKept
  <2> QED BY <2>1, <2>2, <2>3, <2>4
<1> QED BY <1>1, <1>2, <1>3, <1>4, <1>5, <1>6

LEMMA QuietAroundKeeps ==
  ASSUME TermInv, RejectInput \/ IdleTimeout \/ BrowserLeaves \/ Logout \/ ChannelEnds \/ ServerStops
  PROVE  TermInv'
<1> USE TerminalAssumption DEF TermInv, HandlerAt, ReaderAt, Alive, Shut
<1>1. ASSUME RejectInput PROVE TermInv'
  <2> USE <1>1 DEF RejectInput
  <2>1. TermTypeOK' BY DEF TermTypeOK, HandlerPC, ReaderPC, Outputs
  <2>2. TermFlow' BY DEF TermTypeOK, HandlerPC, ReaderPC, TermFlow
  <2>3. TermJoined' BY DEF TermTypeOK, HandlerPC, ReaderPC, TermFlow, TermJoined
  <2>4. AuditBounds' /\ AuditOrder'
    <3>1. /\ audit'.chunks = audit.chunks /\ audit'.pending = audit.pending
          /\ rows'.outputs = rows.outputs /\ handler'.command = handler.command /\ fate \subseteq fate'
      BY DEF TermTypeOK, HandlerPC, ReaderPC
    <3>2. (Creating' => Creating) /\ (Flushing' = {} => Flushing = {}) BY FlushingMeans DEF Creating, TermTypeOK, HandlerPC, ReaderPC
    <3>3. HeardSoFar' \in Int /\ HeardSoFar <= HeardSoFar' BY <2>1 DEF HeardSoFar, TermTypeOK, HandlerPC, ReaderPC
    <3> QED BY <3>1, <3>2, <3>3, OrderKept
  <2> QED BY <2>1, <2>2, <2>3, <2>4
<1>2. ASSUME IdleTimeout PROVE TermInv'
  <2> USE <1>2 DEF IdleTimeout
  <2>1. TermTypeOK' BY DEF TermTypeOK, HandlerPC, ReaderPC, Outputs
  <2>2. TermFlow' BY DEF TermTypeOK, HandlerPC, ReaderPC, TermFlow
  <2>3. TermJoined' BY DEF TermTypeOK, HandlerPC, ReaderPC, TermFlow, TermJoined
  <2>4. AuditBounds' /\ AuditOrder'
    <3>1. /\ audit'.chunks = audit.chunks /\ audit'.pending = audit.pending
          /\ rows'.outputs = rows.outputs /\ handler'.command = handler.command /\ fate \subseteq fate'
      BY DEF TermTypeOK, HandlerPC, ReaderPC
    <3>2. (Creating' => Creating) /\ (Flushing' = {} => Flushing = {}) BY FlushingMeans DEF Creating, TermTypeOK, HandlerPC, ReaderPC
    <3>3. HeardSoFar' \in Int /\ HeardSoFar <= HeardSoFar' BY <2>1 DEF HeardSoFar, TermTypeOK, HandlerPC, ReaderPC
    <3> QED BY <3>1, <3>2, <3>3, OrderKept
  <2> QED BY <2>1, <2>2, <2>3, <2>4
<1>3. ASSUME BrowserLeaves PROVE TermInv'
  <2> USE <1>3 DEF BrowserLeaves
  <2>1. TermTypeOK' BY DEF TermTypeOK, HandlerPC, ReaderPC, Outputs
  <2>2. TermFlow' BY DEF TermTypeOK, HandlerPC, ReaderPC, TermFlow
  <2>3. TermJoined' BY DEF TermTypeOK, HandlerPC, ReaderPC, TermFlow, TermJoined
  <2>4. AuditBounds' /\ AuditOrder'
    <3>1. /\ audit'.chunks = audit.chunks /\ audit'.pending = audit.pending
          /\ rows'.outputs = rows.outputs /\ handler'.command = handler.command /\ fate \subseteq fate'
      BY DEF TermTypeOK, HandlerPC, ReaderPC
    <3>2. (Creating' => Creating) /\ (Flushing' = {} => Flushing = {}) BY FlushingMeans DEF Creating, TermTypeOK, HandlerPC, ReaderPC
    <3>3. HeardSoFar' \in Int /\ HeardSoFar <= HeardSoFar' BY <2>1 DEF HeardSoFar, TermTypeOK, HandlerPC, ReaderPC
    <3> QED BY <3>1, <3>2, <3>3, OrderKept
  <2> QED BY <2>1, <2>2, <2>3, <2>4
<1>4. ASSUME Logout PROVE TermInv'
  <2> USE <1>4 DEF Logout
  <2>0. /\ login' \in BOOLEAN
        /\ UNCHANGED <<socket, conn, handler, reader, audit, rows, screen, fate>>
    OBVIOUS
  <2>1. TermTypeOK' BY <2>0 DEF TermTypeOK, HandlerPC, ReaderPC, Outputs
  <2>2. TermFlow' BY <2>0 DEF TermTypeOK, HandlerPC, ReaderPC, TermFlow
  <2>3. TermJoined' BY DEF TermTypeOK, HandlerPC, ReaderPC, TermFlow, TermJoined
  <2>4. AuditBounds' /\ AuditOrder'
    <3>1. /\ audit'.chunks = audit.chunks /\ audit'.pending = audit.pending
          /\ rows'.outputs = rows.outputs /\ handler'.command = handler.command /\ fate \subseteq fate'
      BY DEF TermTypeOK, HandlerPC, ReaderPC
    <3>2. (Creating' => Creating) /\ (Flushing' = {} => Flushing = {}) BY <2>0, FlushingMeans DEF Creating, TermTypeOK, HandlerPC, ReaderPC
    <3>3. HeardSoFar' \in Int /\ HeardSoFar <= HeardSoFar' BY <2>0, <2>1 DEF HeardSoFar, TermTypeOK, HandlerPC, ReaderPC
    <3> QED BY <3>1, <3>2, <3>3, OrderKept
  <2> QED BY <2>1, <2>2, <2>3, <2>4
<1>5. ASSUME ChannelEnds PROVE TermInv'
  <2> USE <1>5 DEF ChannelEnds
  <2>1. TermTypeOK' BY DEF TermTypeOK, HandlerPC, ReaderPC, Outputs
  <2>2. TermFlow' BY DEF TermTypeOK, HandlerPC, ReaderPC, TermFlow
  <2>3. TermJoined' BY DEF TermTypeOK, HandlerPC, ReaderPC, TermFlow, TermJoined
  <2>4. AuditBounds' /\ AuditOrder'
    <3>1. /\ audit'.chunks = audit.chunks /\ audit'.pending = audit.pending
          /\ rows'.outputs = rows.outputs /\ handler'.command = handler.command /\ fate \subseteq fate'
      BY DEF TermTypeOK, HandlerPC, ReaderPC
    <3>2. (Creating' => Creating) /\ (Flushing' = {} => Flushing = {}) BY FlushingMeans DEF Creating, TermTypeOK, HandlerPC, ReaderPC
    <3>3. HeardSoFar' \in Int /\ HeardSoFar <= HeardSoFar' BY <2>1 DEF HeardSoFar, TermTypeOK, HandlerPC, ReaderPC
    <3> QED BY <3>1, <3>2, <3>3, OrderKept
  <2> QED BY <2>1, <2>2, <2>3, <2>4
<1>6. ASSUME ServerStops PROVE TermInv'
  <2> USE <1>6 DEF ServerStops
  <2>1. TermTypeOK' BY DEF TermTypeOK, HandlerPC, ReaderPC, Outputs
  <2>2. TermFlow' BY DEF TermTypeOK, HandlerPC, ReaderPC, TermFlow
  <2>3. TermJoined' BY DEF TermTypeOK, HandlerPC, ReaderPC, TermFlow, TermJoined
  <2>4. AuditBounds' /\ AuditOrder'
    <3>1. /\ audit'.chunks = audit.chunks /\ audit'.pending = audit.pending
          /\ rows'.outputs = rows.outputs /\ handler'.command = handler.command /\ fate \subseteq fate'
      BY DEF TermTypeOK, HandlerPC, ReaderPC
    <3>2. (Creating' => Creating) /\ (Flushing' = {} => Flushing = {}) BY FlushingMeans DEF Creating, TermTypeOK, HandlerPC, ReaderPC
    <3>3. HeardSoFar' \in Int /\ HeardSoFar <= HeardSoFar' BY <2>1 DEF HeardSoFar, TermTypeOK, HandlerPC, ReaderPC
    <3> QED BY <3>1, <3>2, <3>3, OrderKept
  <2> QED BY <2>1, <2>2, <2>3, <2>4
<1> QED BY <1>1, <1>2, <1>3, <1>4, <1>5, <1>6

LEMMA OpenKeeps == ASSUME TermInv, Open PROVE TermInv'
<1> USE DEF TermInv, Open, HandlerAt, Alive
<1>1. PICK on \in BOOLEAN : /\ audit' = [audit EXCEPT !.on = on]
                            /\ rows' = [rows EXCEPT !.session = IF on THEN "connected" ELSE "none"]
  OBVIOUS
<1>2. /\ handler' = [handler EXCEPT !.pc = "setup"] /\ handler.pc = "connect" /\ ~audit.on
      /\ UNCHANGED <<socket, login, reader, screen, fate>> /\ conn' = "open" /\ reader.pc = "none"
  BY DEF TermFlow
<1>3. /\ audit' \in [on : BOOLEAN, pending : 0..MaxCommands, chunks : Seq(Outputs)]
      /\ audit'.pending = audit.pending /\ audit'.chunks = audit.chunks
  BY <1>1 DEF TermTypeOK
<1>4. /\ rows' \in [session : {"none", "connected", "closed"}, transcript : SUBSET Outputs,
                    outputs : [Commands -> Seq(Outputs)]]
      /\ rows'.session # "closed" /\ rows'.outputs = rows.outputs
  BY <1>1 DEF TermTypeOK
<1>5. handler' \in [pc : HandlerPC, command : 0..MaxCommands]
      /\ handler'.pc = "setup" /\ handler'.command = handler.command
  BY <1>2 DEF TermTypeOK, HandlerPC
<1>6. TermTypeOK' BY <1>2, <1>3, <1>4, <1>5 DEF TermTypeOK
<1>7. TermFlow' BY <1>2, <1>5 DEF TermFlow
<1>8. TermJoined' BY <1>4, <1>5 DEF TermJoined
<1>9. AuditBounds' /\ AuditOrder'
  <2>1. (Creating' => Creating) /\ (Flushing' = {} => Flushing = {})
    BY <1>2, <1>5, FlushingMeans DEF Creating
  <2>2. HeardSoFar' = HeardSoFar /\ HeardSoFar \in Int BY <1>2 DEF HeardSoFar, TermTypeOK
  <2>3. HeardSoFar' \in Int /\ HeardSoFar <= HeardSoFar' BY <2>2
  <2> QED BY <1>2, <1>3, <1>4, <1>5, <2>1, <2>3, OrderKept
<1> QED BY <1>6, <1>7, <1>8, <1>9

\* A command's audit is to be created: it comes after every one there is.
LEMMA EnterKeeps == ASSUME TermInv, EnterCommand PROVE TermInv'
<1> USE TerminalAssumption DEF TermInv, EnterCommand, HandlerAt, Alive
<1>1. /\ handler.pc = "live" /\ handler.command \in 0..MaxCommands
      /\ handler.command + 1 \in 0..MaxCommands
      /\ handler' \in [pc : HandlerPC, command : 0..MaxCommands]
      /\ handler'.pc \in {"save", "send"} /\ handler'.command = handler.command + 1
  BY DEF TermTypeOK, HandlerPC
<1>2. UNCHANGED <<socket, login, conn, reader, audit, rows, screen, fate>> OBVIOUS
<1>3. TermTypeOK' BY <1>1, <1>2 DEF TermTypeOK
<1>4. TermFlow' BY <1>1, <1>2 DEF TermFlow
<1>5. TermJoined' BY <1>1, <1>2 DEF TermJoined
<1>6. AuditBounds'
  <2>1. audit.pending \in 0..MaxCommands /\ audit.pending <= handler.command
    BY DEF TermTypeOK, AuditBounds
  <2> QED BY <1>1, <1>2, <2>1 DEF AuditBounds, HeardSoFar
<1>7. AuditOrder'
  <2>1. Clean' => Clean BY <1>2 DEF Clean
  <2>2. \A c \in Commands : Fresh(c)' => Fresh(c)
    BY <1>1, <1>2 DEF Fresh, Commands, Creating
  <2>3. Flushing' = {} => Flushing = {} BY <1>1, <1>2, FlushingMeans
  <2> QED BY <1>2, <2>1, <2>2, <2>3 DEF AuditOrder, StoredInOrder, FreshEmpty, ChunksLast
<1> QED BY <1>3, <1>4, <1>5, <1>6, <1>7

\* Saving by either thread: the collected output is stored, and is to be forgotten
\* unless there was none.
LEMMA SaveKeeps ==
  ASSUME TermTypeOK, AuditBounds, AuditOrder, NEW t \in {"handler", "reader"},
         rows' = [rows EXCEPT !.outputs = Flush(rows.outputs)], audit' = audit,
         handler'.command = handler.command, Creating' => Creating, HeardSoFar' = HeardSoFar,
         fate' = Tangle(t), t \notin Flushing, Flushing' = {} => ~Collected /\ Flushing = {},
         ~audit.on => ~Collected
  PROVE  /\ rows' \in [session : {"none", "connected", "closed"}, transcript : SUBSET Outputs,
                       outputs : [Commands -> Seq(Outputs)]]
         /\ rows'.session = rows.session /\ rows'.transcript = rows.transcript
         /\ AuditBounds' /\ AuditOrder'
<1>1. /\ rows \in [session : {"none", "connected", "closed"}, transcript : SUBSET Outputs,
                   outputs : [Commands -> Seq(Outputs)]]
  BY DEF TermTypeOK
<1>2. rows'.outputs = Flush(rows.outputs) /\ rows'.session = rows.session
      /\ rows'.transcript = rows.transcript
  BY <1>1
<1>3. Flush(rows.outputs) \in [Commands -> Seq(Outputs)] BY FlushKeeps
<1>4. rows' \in [session : {"none", "connected", "closed"}, transcript : SUBSET Outputs,
                 outputs : [Commands -> Seq(Outputs)]]
  BY <1>1, <1>3
<1>5. AuditBounds' BY <1>2, FlushKeeps DEF AuditBounds
<1>6. ASSUME Clean' PROVE StoredInOrder' /\ FreshEmpty' /\ (Flushing' = {} => ChunksLast')
  <2>1. fate \subseteq fate' /\ Clean BY <1>6 DEF Tangle, Clean
  <2>2. StoredInOrder /\ FreshEmpty BY <2>1 DEF AuditOrder
  <2>3. \A c \in Commands : Fresh(c)' => Fresh(c) BY DEF Fresh
  <2>4. \A c \in Commands : Fresh(c) /\ rows.outputs[c] = <<>> => Flush(rows.outputs)[c] = <<>>
    BY FlushKeeps
  <2>5. FreshEmpty' BY <1>2, <2>2, <2>3, <2>4 DEF FreshEmpty
  <2>6. CASE ~Collected
    <3>1. Flush(rows.outputs) = rows.outputs BY <2>6, FlushKeeps
    <3> QED BY <1>2, <2>1, <2>2, <2>5, <3>1 DEF StoredInOrder, ChunksLast, AuditOrder
  <2>7. CASE Collected
    <3>1. Flushing = {}
      <4>1. Flushing \ {t} = {} BY <2>7, <1>6 DEF Tangle, Clean
      <4> QED BY <4>1
    <3>2. ChunksLast BY <2>1, <3>1 DEF AuditOrder
    <3>3. \A c \in Commands :
            /\ Rising(Flush(rows.outputs)[c])
            /\ \A d \in (c + 1)..MaxCommands : Before(Flush(rows.outputs)[c], Flush(rows.outputs)[d])
      BY <2>2, <3>2, FlushKeeps
    <3>4. StoredInOrder' BY <1>2, <3>3 DEF StoredInOrder
    <3> QED BY <2>5, <2>7, <3>4
  <2> QED BY <2>6, <2>7
<1> QED BY <1>2, <1>4, <1>5, <1>6 DEF AuditOrder

LEMMA SaveOutputKeeps == ASSUME TermInv, SaveOutput PROVE TermInv'
<1> USE DEF TermInv, SaveOutput, HandlerAt, Alive
<1>1. /\ handler' = [handler EXCEPT !.pc = IF ~Collected THEN Onward
                                           ELSE IF handler.pc = "save" THEN "reset" ELSE "lastReset"]
      /\ handler.pc \in {"save", "lastSave"} /\ rows' = [rows EXCEPT !.outputs = Flush(rows.outputs)]
      /\ fate' = Tangle("handler") /\ audit' = audit
      /\ UNCHANGED <<socket, login, conn, reader, audit, screen>>
  OBVIOUS
<1>2. /\ handler' \in [pc : HandlerPC, command : 0..MaxCommands] /\ handler'.command = handler.command
      /\ handler.pc = "save" => handler'.pc \in {"create", "reset"}
      /\ handler.pc = "lastSave" => handler'.pc \in {"close", "lastReset"}
      /\ Collected => handler'.pc \in {"reset", "lastReset"}
  BY <1>1 DEF TermTypeOK, HandlerPC, Onward
<1>3. "handler" \notin Flushing BY <1>1 DEF Flushing
<1>4. (Flushing' = {} => ~Collected /\ Flushing = {}) /\ (Creating' => Creating)
  BY <1>1, <1>2, FlushingMeans DEF Creating
<1>5. ~audit.on => ~Collected BY DEF Collected, TermTypeOK
<1>6. HeardSoFar' = HeardSoFar BY <1>1 DEF HeardSoFar
<1>7. /\ rows' \in [session : {"none", "connected", "closed"}, transcript : SUBSET Outputs,
                    outputs : [Commands -> Seq(Outputs)]]
      /\ rows'.session = rows.session /\ rows'.transcript = rows.transcript
      /\ AuditBounds' /\ AuditOrder'
  BY <1>1, <1>2, <1>3, <1>4, <1>5, <1>6, SaveKeeps
<1>8. fate' \subseteq fate \cup {"tangled"} /\ fate \subseteq fate' BY <1>1 DEF Tangle
<1>9. TermTypeOK'
  <2>1. /\ audit' \in [on : BOOLEAN, pending : 0..MaxCommands, chunks : Seq(Outputs)]
        /\ audit'.pending = 0 => audit'.chunks = <<>>
        /\ ~audit'.on => audit'.pending = 0
    BY <1>1 DEF TermTypeOK
  <2>2. fate' \subseteq {"late", "tangled", "unaudited", "abandoned", "killed", "cleared"}
    BY <1>8 DEF TermTypeOK
  <2>3. /\ socket' \in {"open", "closed", "left"} /\ login' \in BOOLEAN
        /\ conn' \in {"none", "open", "ended", "closed"}
    BY <1>1 DEF TermTypeOK
  <2>4. /\ handler' \in [pc : HandlerPC, command : 0..MaxCommands]
        /\ reader' \in [pc : ReaderPC, output : 0..MaxOutputs, stop : BOOLEAN]
        /\ screen' \in [received : 0..MaxOutputs, alternate : BOOLEAN, shown : SUBSET Outputs,
                        transcript : SUBSET Outputs]
    BY <1>1, <1>2 DEF TermTypeOK
  <2> QED BY <1>7, <2>1, <2>2, <2>3, <2>4 DEF TermTypeOK
<1>10. TermFlow' BY <1>1, <1>2 DEF TermFlow
<1>11. TermJoined' BY <1>1, <1>2, <1>7, <1>8 DEF TermJoined
<1> QED BY <1>7, <1>9, <1>10, <1>11

LEMMA SaveByReaderKeeps == ASSUME TermInv, SaveByReader PROVE TermInv'
<1> USE DEF TermInv, SaveByReader, ReaderAt, Alive
<1>1. /\ reader' = [reader EXCEPT !.pc = IF Collected THEN "reset" ELSE "show"]
      /\ reader.pc = "save" /\ rows' = [rows EXCEPT !.outputs = Flush(rows.outputs)]
      /\ fate' = Tangle("reader") /\ UNCHANGED <<socket, login, conn, handler, audit, screen>>
  OBVIOUS
<1>2. /\ reader' \in [pc : ReaderPC, output : 0..MaxOutputs, stop : BOOLEAN]
      /\ reader'.pc \in {"reset", "show"} /\ (Collected => reader'.pc = "reset")
      /\ reader'.output = reader.output
  BY <1>1 DEF TermTypeOK, ReaderPC
<1>3. "reader" \notin Flushing BY <1>1 DEF Flushing
<1>4. (Flushing' = {} => ~Collected /\ Flushing = {}) /\ (Creating' => Creating)
  BY <1>1, <1>2, FlushingMeans DEF Creating
<1>5. ~audit.on => ~Collected BY DEF Collected, TermTypeOK
<1>6. HeardSoFar' = HeardSoFar BY <1>1, <1>2 DEF HeardSoFar
<1>7. /\ rows' \in [session : {"none", "connected", "closed"}, transcript : SUBSET Outputs,
                    outputs : [Commands -> Seq(Outputs)]]
      /\ rows'.session = rows.session /\ rows'.transcript = rows.transcript
      /\ AuditBounds' /\ AuditOrder'
  BY <1>1, <1>3, <1>4, <1>5, <1>6, SaveKeeps
<1>8. fate' \subseteq fate \cup {"tangled"} /\ fate \subseteq fate' BY <1>1 DEF Tangle
<1>9. TermTypeOK'
  <2>1. /\ audit' \in [on : BOOLEAN, pending : 0..MaxCommands, chunks : Seq(Outputs)]
        /\ audit'.pending = 0 => audit'.chunks = <<>>
        /\ ~audit'.on => audit'.pending = 0
    BY <1>1 DEF TermTypeOK
  <2>2. fate' \subseteq {"late", "tangled", "unaudited", "abandoned", "killed", "cleared"}
    BY <1>8 DEF TermTypeOK
  <2>3. /\ socket' \in {"open", "closed", "left"} /\ login' \in BOOLEAN
        /\ conn' \in {"none", "open", "ended", "closed"}
    BY <1>1 DEF TermTypeOK
  <2>4. /\ handler' \in [pc : HandlerPC, command : 0..MaxCommands]
        /\ reader' \in [pc : ReaderPC, output : 0..MaxOutputs, stop : BOOLEAN]
        /\ screen' \in [received : 0..MaxOutputs, alternate : BOOLEAN, shown : SUBSET Outputs,
                        transcript : SUBSET Outputs]
    BY <1>1, <1>2 DEF TermTypeOK
  <2> QED BY <1>7, <2>1, <2>2, <2>3, <2>4 DEF TermTypeOK
<1>10. TermFlow' BY <1>1, <1>2 DEF TermFlow
<1>11. TermJoined' BY <1>1, <1>2, <1>7, <1>8 DEF TermJoined
<1> QED BY <1>7, <1>9, <1>10, <1>11

\* Forgetting what was collected.
LEMMA ForgetKeeps ==
  ASSUME TermTypeOK, AuditBounds, AuditOrder,
         audit'.chunks = <<>>, audit'.pending \in {0, audit.pending},
         rows'.outputs = rows.outputs, handler'.command = handler.command, Creating' => Creating,
         HeardSoFar' = HeardSoFar \/ HeardSoFar' = HeardSoFar + 1, fate \subseteq fate'
  PROVE  AuditBounds' /\ AuditOrder'
<1>1. /\ \A c \in Commands : rows.outputs[c] \in Seq(Outputs)
      /\ HeardSoFar \in Int /\ audit.pending \in Nat /\ handler.command \in Nat
  BY TerminalAssumption DEF TermTypeOK, HeardSoFar
<1>2. \A s \in Seq(Outputs) : AtMost(s, HeardSoFar) => AtMost(s, HeardSoFar')
  <2> TAKE s \in Seq(Outputs)
  <2>1. \A i \in DOMAIN s : s[i] \in Int BY TerminalAssumption DEF Outputs
  <2> QED BY <2>1, <1>1 DEF AtMost
<1>3. AuditBounds' BY <1>1, <1>2, EmptyOutputs DEF AuditBounds
<1>4. Clean' => Clean BY DEF Clean
<1>5. \A c \in Commands : Fresh(c)' => Fresh(c) BY DEF Fresh
<1>6. ChunksLast' BY EmptyOutputs DEF ChunksLast
<1>7. AuditOrder' BY <1>4, <1>5, <1>6 DEF AuditOrder, StoredInOrder, FreshEmpty
<1> QED BY <1>3, <1>7

LEMMA TangleGrows ==
  ASSUME NEW t PROVE fate \subseteq Tangle(t) /\ Tangle(t) \subseteq fate \cup {"tangled"}
BY DEF Tangle

LEMMA ResetOutputKeeps == ASSUME TermInv, ResetOutput PROVE TermInv'
<1>1. /\ audit' = [audit EXCEPT !.chunks = <<>>] /\ handler.pc \in {"reset", "lastReset"}
      /\ handler' = [handler EXCEPT !.pc = Onward] /\ fate' = Tangle("handler")
      /\ UNCHANGED <<socket, login, conn, reader, rows, screen>>
  BY DEF ResetOutput, HandlerAt
<1>2. TermTypeOK /\ TermFlow /\ TermJoined /\ AuditBounds /\ AuditOrder BY DEF TermInv
<1>3. /\ handler' \in [pc : HandlerPC, command : 0..MaxCommands] /\ handler'.command = handler.command
      /\ handler.pc = "reset" => handler'.pc = "create"
      /\ handler.pc = "lastReset" => handler'.pc = "close"
  BY <1>1, <1>2 DEF TermTypeOK, HandlerPC, Onward
<1>4. /\ audit' \in [on : BOOLEAN, pending : 0..MaxCommands, chunks : Seq(Outputs)]
      /\ audit'.chunks = <<>> /\ audit'.pending = audit.pending /\ audit'.on = audit.on
  BY <1>1, <1>2, EmptyOutputs DEF TermTypeOK
<1>5. fate' \subseteq fate \cup {"tangled"} /\ fate \subseteq fate' BY <1>1, TangleGrows
<1>6. TermTypeOK' BY <1>1, <1>2, <1>3, <1>4, <1>5 DEF TermTypeOK
<1>7. TermFlow' BY <1>1, <1>2, <1>3 DEF TermFlow
<1>8. TermJoined' BY <1>1, <1>2, <1>3, <1>5 DEF TermJoined
<1>9. HeardSoFar' = HeardSoFar /\ (Creating' => Creating) BY <1>1, <1>3 DEF HeardSoFar, Creating
<1>10. AuditBounds' /\ AuditOrder' BY <1>1, <1>2, <1>3, <1>4, <1>5, <1>9, ForgetKeeps
<1> QED BY <1>6, <1>7, <1>8, <1>10 DEF TermInv

LEMMA ResetByReaderKeeps == ASSUME TermInv, ResetByReader PROVE TermInv'
<1>1. /\ audit' = [audit EXCEPT !.chunks = <<>>] /\ reader.pc = "reset"
      /\ reader' = [reader EXCEPT !.pc = "show"] /\ fate' = Tangle("reader")
      /\ UNCHANGED <<socket, login, conn, handler, rows, screen>>
  BY DEF ResetByReader, ReaderAt
<1>2. TermTypeOK /\ TermFlow /\ TermJoined /\ AuditBounds /\ AuditOrder BY DEF TermInv
<1>3. /\ reader' \in [pc : ReaderPC, output : 0..MaxOutputs, stop : BOOLEAN]
      /\ reader'.pc = "show" /\ reader'.output = reader.output
  BY <1>1, <1>2 DEF TermTypeOK, ReaderPC
<1>4. /\ audit' \in [on : BOOLEAN, pending : 0..MaxCommands, chunks : Seq(Outputs)]
      /\ audit'.chunks = <<>> /\ audit'.pending = audit.pending /\ audit'.on = audit.on
  BY <1>1, <1>2, EmptyOutputs DEF TermTypeOK
<1>5. fate' \subseteq fate \cup {"tangled"} /\ fate \subseteq fate' BY <1>1, TangleGrows
<1>6. TermTypeOK' BY <1>1, <1>2, <1>3, <1>4, <1>5 DEF TermTypeOK
<1>7. TermFlow' BY <1>1, <1>2, <1>3 DEF TermFlow
<1>8. TermJoined' BY <1>1, <1>2, <1>3, <1>5 DEF TermJoined
<1>9. HeardSoFar' = HeardSoFar /\ (Creating' => Creating) BY <1>1, <1>3 DEF HeardSoFar, Creating
<1>10. AuditBounds' /\ AuditOrder' BY <1>1, <1>2, <1>4, <1>5, <1>9, ForgetKeeps
<1> QED BY <1>6, <1>7, <1>8, <1>10 DEF TermInv

LEMMA DisableKeeps == ASSUME TermInv, DisableAudit PROVE TermInv'
<1>1. /\ audit' = NoAudit /\ fate' = fate \cup {"unaudited"}
      /\ UNCHANGED <<socket, login, conn, handler, reader, rows, screen>>
  BY DEF DisableAudit
<1>2. TermTypeOK /\ TermFlow /\ TermJoined /\ AuditBounds /\ AuditOrder BY DEF TermInv
<1>3. /\ audit' \in [on : BOOLEAN, pending : 0..MaxCommands, chunks : Seq(Outputs)]
      /\ audit'.chunks = <<>> /\ audit'.pending = 0 /\ audit'.on = FALSE
  BY <1>1, EmptyOutputs, TerminalAssumption DEF NoAudit
<1>4. TermTypeOK' BY <1>1, <1>2, <1>3 DEF TermTypeOK
<1>5. TermFlow' BY <1>1, <1>2, <1>3 DEF TermFlow
<1>6. TermJoined' BY <1>1, <1>2 DEF TermJoined
<1>7. HeardSoFar' = HeardSoFar /\ (Creating' => Creating) BY <1>1 DEF HeardSoFar, Creating
<1>8. AuditBounds' /\ AuditOrder' BY <1>1, <1>2, <1>3, <1>7, ForgetKeeps
<1> QED BY <1>4, <1>5, <1>6, <1>8 DEF TermInv

LEMMA CreateKeeps == ASSUME TermInv, CreateAudit PROVE TermInv'
<1>1. /\ handler' = [handler EXCEPT !.pc = "send"] /\ handler.pc = "create"
      /\ UNCHANGED <<socket, login, conn, reader, rows, screen>>
      /\ \/ /\ audit' = [audit EXCEPT !.pending = IF audit.on THEN handler.command ELSE 0]
            /\ fate' = fate
         \/ /\ audit' = [audit EXCEPT !.pending = 0, !.chunks = <<>>]
            /\ fate' = Tangle("handler") \/ fate' = fate \cup {"cleared"}
  BY DEF CreateAudit, HandlerAt
<1>2. TermTypeOK /\ TermFlow /\ TermJoined /\ AuditBounds /\ AuditOrder BY DEF TermInv
<1>3. /\ handler' \in [pc : HandlerPC, command : 0..MaxCommands] /\ handler'.command = handler.command
      /\ handler'.pc = "send"
  BY <1>1, <1>2 DEF TermTypeOK, HandlerPC
<1>4. fate' \subseteq fate \cup {"tangled", "cleared"} /\ fate \subseteq fate' BY <1>1, TangleGrows
<1>5. TermFlow' BY <1>1, <1>2, <1>3 DEF TermFlow
<1>6. TermJoined' BY <1>1, <1>2, <1>3, <1>4 DEF TermJoined
<1>7. HeardSoFar' = HeardSoFar /\ ~Creating' /\ Creating BY <1>1, <1>3 DEF HeardSoFar, Creating
<1>8. CASE audit' = [audit EXCEPT !.pending = 0, !.chunks = <<>>]
  <2>1. /\ audit' \in [on : BOOLEAN, pending : 0..MaxCommands, chunks : Seq(Outputs)]
        /\ audit'.chunks = <<>> /\ audit'.pending = 0 /\ audit'.on = audit.on
    <3>1. 0 \in 0..MaxCommands BY TerminalAssumption
    <3>2. audit \in [on : BOOLEAN, pending : 0..MaxCommands, chunks : Seq(Outputs)]
      BY <1>2 DEF TermTypeOK
    <3>3. audit' = [audit EXCEPT !.pending = 0, !.chunks = <<>>] BY <1>8
    <3>4. <<>> \in Seq(Outputs) BY EmptyOutputs
    <3> QED BY <3>1, <3>2, <3>3, <3>4
  <2>2. TermTypeOK' BY <1>1, <1>2, <1>3, <1>4, <2>1 DEF TermTypeOK
  <2>3. AuditBounds' /\ AuditOrder' BY <1>1, <1>2, <1>3, <1>4, <1>7, <2>1, ForgetKeeps
  <2> QED BY <1>5, <1>6, <2>2, <2>3 DEF TermInv
<1>9. CASE /\ audit' = [audit EXCEPT !.pending = IF audit.on THEN handler.command ELSE 0]
           /\ fate' = fate
  <2>1. handler.command \in 1..MaxCommands
    BY <1>2, <1>7, TerminalAssumption DEF AuditBounds, TermTypeOK
  <2>2. /\ audit' \in [on : BOOLEAN, pending : 0..MaxCommands, chunks : Seq(Outputs)]
        /\ audit'.chunks = audit.chunks /\ audit'.pending \in {0, handler.command}
        /\ audit'.on = audit.on /\ audit.on => audit'.pending = handler.command
        /\ ~audit.on => audit'.pending = 0
    BY <1>2, <1>9, <2>1, TerminalAssumption DEF TermTypeOK
  <2>3. TermTypeOK' BY <1>1, <1>2, <1>3, <1>9, <2>1, <2>2 DEF TermTypeOK
  <2>4. AuditBounds' BY <1>1, <1>2, <1>3, <1>7, <2>1, <2>2 DEF AuditBounds
  <2>5. Clean' => Clean BY <1>9 DEF Clean
  <2>6. \A c \in Commands : Fresh(c)' => Fresh(c) BY <1>3, <1>7, <2>2 DEF Fresh
  <2>7. Flushing' = {} => Flushing = {} BY <1>1, <1>3, FlushingMeans
  <2>8. AuditOrder'
    BY <1>1, <1>2, <2>2, <2>5, <2>6, <2>7 DEF AuditOrder, StoredInOrder, FreshEmpty, ChunksLast
  <2> QED BY <1>5, <1>6, <2>3, <2>4, <2>8 DEF TermInv
<1> QED BY <1>1, <1>8, <1>9

LEMMA RecordKeeps == ASSUME TermInv, RecordOutput PROVE TermInv'
<1> DEFINE cleared == /\ \E next \in BOOLEAN : screen' = [screen EXCEPT !.alternate = next]
                      /\ audit' = [audit EXCEPT !.pending = 0, !.chunks = <<>>]
                      /\ fate' = Tangle("reader") \/ fate' = fate \cup {"cleared"}
                      /\ reader' = [reader EXCEPT !.pc = "show"]
           skipped == /\ audit.pending = 0 /\ audit' = audit /\ fate' = fate /\ screen' = screen
                      /\ reader' = [reader EXCEPT !.pc = "show"]
           added == /\ audit.pending # 0 /\ fate' = Tangle("reader") /\ screen' = screen
                    /\ audit' = [audit EXCEPT !.chunks = Append(audit.chunks, reader.output)]
                    /\ \/ reader' = [reader EXCEPT !.pc = "save"]
                       \/ reader' = [reader EXCEPT !.pc = "show"]
<1>1. /\ reader.pc = "record" /\ UNCHANGED <<socket, login, conn, handler, rows>>
      /\ cleared \/ skipped \/ added
  BY DEF RecordOutput, ReaderAt
<1>2. TermTypeOK /\ TermFlow /\ TermJoined /\ AuditBounds /\ AuditOrder BY DEF TermInv
<1>3. /\ reader' \in [pc : ReaderPC, output : 0..MaxOutputs, stop : BOOLEAN]
      /\ reader'.pc \in {"show", "save"} /\ reader'.output = reader.output
  <2>1. reader \in [pc : ReaderPC, output : 0..MaxOutputs, stop : BOOLEAN] BY <1>2 DEF TermTypeOK
  <2>2. reader' = [reader EXCEPT !.pc = "save"] \/ reader' = [reader EXCEPT !.pc = "show"] BY <1>1
  <2> QED BY <2>1, <2>2 DEF ReaderPC
<1>4. fate' \subseteq fate \cup {"tangled", "cleared"} /\ fate \subseteq fate' BY <1>1, TangleGrows
<1>5. /\ screen' \in [received : 0..MaxOutputs, alternate : BOOLEAN, shown : SUBSET Outputs,
                      transcript : SUBSET Outputs]
      /\ screen'.received = screen.received /\ screen'.shown = screen.shown
      /\ screen'.transcript = screen.transcript
  <2>1. screen \in [received : 0..MaxOutputs, alternate : BOOLEAN, shown : SUBSET Outputs,
                    transcript : SUBSET Outputs]
    BY <1>2 DEF TermTypeOK
  <2>2. screen' = screen \/ \E next \in BOOLEAN : screen' = [screen EXCEPT !.alternate = next]
    BY <1>1
  <2> QED BY <2>1, <2>2
<1>6. screen.received \in Outputs /\ reader.output = screen.received /\ HeardSoFar = screen.received - 1
      /\ HeardSoFar' = screen.received /\ HeardSoFar' = HeardSoFar + 1 /\ (Creating' => Creating)
  BY <1>1, <1>2, <1>3, <1>5, TerminalAssumption DEF HeardSoFar, TermFlow, TermTypeOK, Outputs, Creating
<1>7. TermFlow' BY <1>1, <1>2, <1>3, <1>5 DEF TermFlow
<1>8. TermJoined' BY <1>1, <1>2, <1>3, <1>4, <1>5 DEF TermJoined
<1>9. ASSUME audit' \in [on : BOOLEAN, pending : 0..MaxCommands, chunks : Seq(Outputs)],
             audit'.on = audit.on, audit'.pending \in {0, audit.pending},
             audit'.pending = 0 => audit'.chunks = <<>>
      PROVE  TermTypeOK'
  BY <1>1, <1>2, <1>3, <1>4, <1>5, <1>9 DEF TermTypeOK
<1>10. CASE cleared
  <2>1. /\ audit' \in [on : BOOLEAN, pending : 0..MaxCommands, chunks : Seq(Outputs)]
        /\ audit'.chunks = <<>> /\ audit'.pending = 0 /\ audit'.on = audit.on
    <3>1. 0 \in 0..MaxCommands BY TerminalAssumption
    <3>2. audit \in [on : BOOLEAN, pending : 0..MaxCommands, chunks : Seq(Outputs)]
      BY <1>2 DEF TermTypeOK
    <3>3. audit' = [audit EXCEPT !.pending = 0, !.chunks = <<>>] BY <1>10
    <3>4. <<>> \in Seq(Outputs) BY EmptyOutputs
    <3> QED BY <3>1, <3>2, <3>3, <3>4
  <2>2. AuditBounds' /\ AuditOrder' BY <1>1, <1>2, <1>4, <1>6, <2>1, ForgetKeeps
  <2> QED BY <1>7, <1>8, <1>9, <2>1, <2>2 DEF TermInv
<1>11. CASE skipped
  <2>1. audit' = audit /\ TermTypeOK' BY <1>2, <1>9, <1>11 DEF TermTypeOK
  <2>2. audit'.chunks = <<>> /\ audit'.pending = audit.pending BY <1>2, <1>11 DEF TermTypeOK
  <2>3. AuditBounds' /\ AuditOrder' BY <1>1, <1>2, <1>4, <1>6, <2>2, ForgetKeeps
  <2> QED BY <1>7, <1>8, <2>1, <2>3 DEF TermInv
<1>12. CASE added
  <2>1. audit.chunks \in Seq(Outputs) /\ AtMost(audit.chunks, screen.received - 1)
    BY <1>2, <1>6 DEF TermTypeOK, AuditBounds
  <2>2. /\ audit'.chunks = Append(audit.chunks, screen.received)
        /\ audit' \in [on : BOOLEAN, pending : 0..MaxCommands, chunks : Seq(Outputs)]
        /\ audit'.pending = audit.pending /\ audit'.on = audit.on
    BY <1>2, <1>6, <1>12, <2>1, AppendOutput DEF TermTypeOK
  <2>3. TermTypeOK' BY <1>9, <1>12, <2>2
  <2>4. \A c \in Commands : rows.outputs[c] \in Seq(Outputs) /\ AtMost(rows.outputs[c], screen.received - 1)
    BY <1>2, <1>6 DEF TermTypeOK, AuditBounds
  <2>5. \A c \in Commands : AtMost(rows.outputs[c], screen.received)
    <3> SUFFICES ASSUME NEW c \in Commands, NEW i \in DOMAIN rows.outputs[c]
                 PROVE  rows.outputs[c][i] <= screen.received
      BY DEF AtMost
    <3>1. rows.outputs[c][i] \in Outputs /\ rows.outputs[c][i] <= screen.received - 1
      BY <2>4 DEF AtMost
    <3> QED BY <3>1, <1>6, TerminalAssumption DEF Outputs
  <2>6. AuditBounds'
    BY <1>1, <1>2, <1>6, <2>1, <2>2, <2>5, AppendOutput DEF AuditBounds
  <2>7. Clean' => Clean BY <1>4 DEF Clean
  <2>8. \A c \in Commands : Fresh(c)' => Fresh(c) BY <1>1, <1>6, <2>2 DEF Fresh
  <2>9. Flushing' = {} => Flushing = {} BY <1>1, <1>3, FlushingMeans
  <2>10. ChunksLast => ChunksLast'
    <3> SUFFICES ASSUME ChunksLast PROVE ChunksLast' OBVIOUS
    <3>1. Rising(audit'.chunks) BY <1>6, <2>1, <2>2, AppendOutput DEF ChunksLast
    <3>2. \A c \in Commands : Before(rows.outputs[c], audit'.chunks)
      BY <1>6, <2>1, <2>2, <2>4, AppendOutput DEF ChunksLast
    <3> QED BY <1>1, <3>1, <3>2 DEF ChunksLast
  <2>11. AuditOrder'
    BY <1>1, <1>2, <2>7, <2>8, <2>9, <2>10 DEF AuditOrder, StoredInOrder, FreshEmpty
  <2> QED BY <1>7, <1>8, <2>3, <2>6, <2>11 DEF TermInv
<1> QED BY <1>1, <1>10, <1>11, <1>12

LEMMA TermInvStep == ASSUME TermInv, [TermNext]_termVars PROVE TermInv'
<1>1. CASE HandlerStep
  BY <1>1, QuietHandlerKeeps, OpenKeeps, SaveOutputKeeps, ResetOutputKeeps, CreateKeeps DEF HandlerStep
<1>2. CASE ReaderStep
  BY <1>2, QuietReaderKeeps, RecordKeeps, SaveByReaderKeeps, ResetByReaderKeeps DEF ReaderStep
<1>3. CASE Around BY <1>3, QuietAroundKeeps, EnterKeeps, DisableKeeps DEF Around
<1>4. CASE UNCHANGED termVars
  <2>1. /\ TermTypeOK' /\ TermFlow' /\ TermJoined'
    BY <1>4 DEF termVars, TermInv, TermTypeOK, TermFlow, TermJoined
  <2>2. HeardSoFar' = HeardSoFar /\ HeardSoFar \in Int /\ (Creating' => Creating)
    BY <1>4 DEF termVars, HeardSoFar, Creating, TermInv, TermTypeOK
  <2>3. Flushing' = {} => Flushing = {} BY <1>4, FlushingMeans DEF termVars
  <2>4. HeardSoFar' \in Int /\ HeardSoFar <= HeardSoFar' BY <2>2
  <2>5. AuditBounds' /\ AuditOrder' BY <1>4, <2>2, <2>3, <2>4, OrderKept DEF termVars, TermInv
  <2> QED BY <2>1, <2>5 DEF TermInv
<1> QED BY <1>1, <1>2, <1>3, <1>4 DEF TermNext

\* Every variable of an SSH terminal keeps its type; no output is collected
\* without a pending command.
THEOREM TermTypeCorrect == TermSpec => []TermTypeOK
<1>1. TermInv => TermTypeOK BY DEF TermInv
<1> QED BY <1>1, TermInvInit, TermInvStep, PTL DEF TermSpec

\* The transcript _close_session stores holds all that the browser was shown, and
\* all the shell wrote unless the reader outlived the join.
THEOREM TranscriptsComplete == TermSpec => []TranscriptComplete
<1>1. TermInv => TranscriptComplete
  BY DEF TermInv, TermFlow, TermJoined, TranscriptComplete
<1> QED BY <1>1, TermInvInit, TermInvStep, PTL DEF TermSpec

\* What _flush_pending_audit_output stores is stored once and in the order it came,
\* for any number of outputs and commands.
THEOREM OutputsInOrder == TermSpec => []OutputAuditedInOrder
<1>1. TermInv => OutputAuditedInOrder
  BY DEF TermInv, AuditOrder, StoredInOrder, ChunksLast, OutputAuditedInOrder, Clean
<1> QED BY <1>1, TermInvInit, TermInvStep, PTL DEF TermSpec
------------------------------------------------------------------------------
(***************************************************************************)
(* The desktop.  A recording can be found because the row, the file and the*)
(* reader agree at every step of both threads and of the removal command.  *)
(***************************************************************************)

\* The row is there once a desktop was asked for, and the reader once guacd answered.
DeskBegun ==
    /\ deskHandler \in {"handshake", "saveError", "close", "mark", "saveClose"}
         => deskRow.object # "none"
    /\ guacd # "none" \/ deskReader.pc # "none" => deskRow.object # "none"
    /\ deskHandler = "connect" => deskRow.object = "none"
    /\ deskHandler \in {"connect", "handshake"} => deskReader.pc = "none"

\* Past the join the reader has ended, or it is noted that it had not; so what it
\* finds wrong is on the row before the row is closed.
DeskJoined ==
    "late" \notin deskFate =>
      /\ deskHandler \in {"close", "mark", "saveClose"} => deskReader.pc \in {"none", "over"}
      /\ deskHandler = "mark" => deskRow.object # "error"
      /\ deskRow.stored = "error" => deskRow.object = "error"

\* The removal command takes up what is past its retention, and no recording
\* begins in a desktop that old.
RecordingKept ==
    /\ recording.file => recording.row \/ RowGone
    /\ deskHandler = "connect" => ~recording.file
    /\ recording.asked => recording.row \/ recording.old \/ RowGone
    /\ cleaner # "idle" => recording.old
    /\ cleaner = "clear" => ~recording.file
    /\ recording.old => deskHandler \notin {"connect", "handshake"}

DeskInv == DeskTypeOK /\ DeskBegun /\ DeskJoined /\ RecordingKept

LEMMA DeskInvInit == ASSUME DeskInit PROVE DeskInv
BY DEF DeskInit, DeskInv, DeskTypeOK, RowStatus, RowGone, DeskBegun, DeskJoined, RecordingKept

RecordingRecords == [asked : BOOLEAN, row : BOOLEAN, file : BOOLEAN, old : BOOLEAN]

\* The records keep their types when a field takes a value of its own.
LEMMA DeskRecords ==
  /\ \A r \in RecordingRecords :
       /\ [r EXCEPT !.row = FALSE] \in RecordingRecords
       /\ \A b \in BOOLEAN : [r EXCEPT !.file = b] \in RecordingRecords
       /\ \A b \in BOOLEAN : [r EXCEPT !.asked = b, !.row = b] \in RecordingRecords
       /\ [r EXCEPT !.old = TRUE] \in RecordingRecords
  /\ \A r \in [pc : {"none", "loop", "recv", "end", "saveError", "shut", "over"},
               part : BOOLEAN, stop : BOOLEAN] :
       /\ [r EXCEPT !.stop = TRUE] \in
            [pc : {"none", "loop", "recv", "end", "saveError", "shut", "over"},
             part : BOOLEAN, stop : BOOLEAN]
       /\ \A b \in BOOLEAN, p \in {"loop", "end"} : [r EXCEPT !.pc = p, !.part = b] \in
            [pc : {"none", "loop", "recv", "end", "saveError", "shut", "over"},
             part : BOOLEAN, stop : BOOLEAN]
BY DEF RecordingRecords

LEMMA DeskHandlerKeeps == ASSUME DeskInv, DeskHandlerStep PROVE DeskInv'
<1>1. ASSUME RefuseDesk PROVE DeskInv'
  <2> USE <1>1 DEF RefuseDesk, DeskInv, DeskTypeOK, RowStatus, RowGone, DeskAt, DeskReads, DeskAlive, DeskShut, Elsewhere
  <2>1. DeskTypeOK' BY DEF DeskBegun
  <2>2. DeskBegun' BY DEF DeskBegun
  <2>3. DeskJoined' BY DEF DeskJoined
  <2>4. RecordingKept' BY DEF RecordingKept
  <2> QED BY <2>1, <2>2, <2>3, <2>4
<1>2. ASSUME CreateDesk PROVE DeskInv'
  <2> USE <1>2 DEF CreateDesk, DeskInv, DeskTypeOK, RowStatus, RowGone, DeskAt, DeskReads, DeskAlive, DeskShut, Elsewhere
  <2>1. DeskTypeOK' BY DEF DeskBegun
  <2>2. DeskBegun' BY DEF DeskBegun
  <2>3. DeskJoined' BY DEF DeskJoined
  <2>4. RecordingKept' BY DEF RecordingKept
  <2> QED BY <2>1, <2>2, <2>3, <2>4
<1>3. ASSUME Handshake PROVE DeskInv'
  <2> USE <1>3 DEF Handshake, DeskInv, DeskTypeOK, RowStatus, RowGone, DeskAt, DeskReads, DeskAlive, DeskShut, Elsewhere
  <2>1. DeskTypeOK' BY DEF DeskBegun
  <2>2. DeskBegun' BY DEF DeskBegun
  <2>3. DeskJoined' BY DEF DeskJoined
  <2>4. RecordingKept'
    <3>1. recording'.row = recording.row /\ recording'.file = recording.asked /\ recording'.old = recording.old
          /\ recording'.asked = recording.asked
      OBVIOUS
    <3> QED BY <3>1 DEF RecordingKept
  <2> QED BY <2>1, <2>2, <2>3, <2>4
<1>4. ASSUME HandshakeFails PROVE DeskInv'
  <2> USE <1>4 DEF HandshakeFails, DeskInv, DeskTypeOK, RowStatus, RowGone, DeskAt, DeskReads, DeskAlive, DeskShut, Elsewhere
  <2>1. DeskTypeOK' BY DEF DeskBegun
  <2>2. DeskBegun' BY DEF DeskBegun
  <2>3. DeskJoined' BY DEF DeskJoined
  <2>4. RecordingKept' BY DEF RecordingKept
  <2> QED BY <2>1, <2>2, <2>3, <2>4
<1>5. ASSUME HandshakeRaises PROVE DeskInv'
  <2> USE <1>5 DEF HandshakeRaises, DeskInv, DeskTypeOK, RowStatus, RowGone, DeskAt, DeskReads, DeskAlive, DeskShut, Elsewhere
  <2>1. DeskTypeOK' BY DEF DeskBegun
  <2>2. DeskBegun' BY DEF DeskBegun
  <2>3. DeskJoined' BY DEF DeskJoined
  <2>4. RecordingKept' BY DEF RecordingKept
  <2> QED BY <2>1, <2>2, <2>3, <2>4
<1>6. ASSUME SaveDeskError PROVE DeskInv'
  <2> USE <1>6 DEF SaveDeskError, DeskInv, DeskTypeOK, RowStatus, RowGone, DeskAt, DeskReads, DeskAlive, DeskShut, Elsewhere
  <2>1. DeskTypeOK' BY DEF DeskBegun
  <2>2. DeskBegun' BY DEF DeskBegun
  <2>3. DeskJoined' BY DEF DeskJoined
  <2>4. RecordingKept' BY DEF RecordingKept
  <2> QED BY <2>1, <2>2, <2>3, <2>4
<1>7. ASSUME DisconnectDesk PROVE DeskInv'
  <2> USE <1>7 DEF DisconnectDesk, DeskInv, DeskTypeOK, RowStatus, RowGone, DeskAt, DeskReads, DeskAlive, DeskShut, Elsewhere
  <2>1. DeskTypeOK'
    <3>1. deskReader' \in [pc : {"none", "loop", "recv", "end", "saveError", "shut", "over"},
                           part : BOOLEAN, stop : BOOLEAN]
      BY DeskRecords
    <3> QED BY <3>1
  <2>2. DeskBegun' BY DEF DeskBegun
  <2>3. DeskJoined' BY DEF DeskJoined
  <2>4. RecordingKept' BY DEF RecordingKept
  <2> QED BY <2>1, <2>2, <2>3, <2>4
<1>8. ASSUME JoinDesk PROVE DeskInv'
  <2> USE <1>8 DEF JoinDesk, DeskInv, DeskTypeOK, RowStatus, RowGone, DeskAt, DeskReads, DeskAlive, DeskShut, Elsewhere
  <2>1. DeskTypeOK' BY DEF DeskBegun
  <2>2. DeskBegun' BY DEF DeskBegun
  <2>3. DeskJoined' BY DEF DeskJoined
  <2>4. RecordingKept' BY DEF RecordingKept
  <2> QED BY <2>1, <2>2, <2>3, <2>4
<1>9. ASSUME CloseDesk PROVE DeskInv'
  <2> USE <1>9 DEF CloseDesk, DeskInv, DeskTypeOK, RowStatus, RowGone, DeskAt, DeskReads, DeskAlive, DeskShut, Elsewhere
  <2>1. DeskTypeOK' BY DEF DeskBegun
  <2>2. DeskBegun' BY DEF DeskBegun
  <2>3. DeskJoined' BY DEF DeskJoined
  <2>4. RecordingKept' BY DEF RecordingKept
  <2> QED BY <2>1, <2>2, <2>3, <2>4
<1>10. ASSUME MarkClosed PROVE DeskInv'
  <2> USE <1>10 DEF MarkClosed, DeskInv, DeskTypeOK, RowStatus, RowGone, DeskAt, DeskReads, DeskAlive, DeskShut, Elsewhere
  <2>1. DeskTypeOK' BY DEF DeskBegun
  <2>2. DeskBegun' BY DEF DeskBegun
  <2>3. DeskJoined' BY DEF DeskJoined
  <2>4. RecordingKept' BY DEF RecordingKept
  <2> QED BY <2>1, <2>2, <2>3, <2>4
<1>11. ASSUME SaveClose PROVE DeskInv'
  <2> USE <1>11 DEF SaveClose, DeskInv, DeskTypeOK, RowStatus, RowGone, DeskAt, DeskReads, DeskAlive, DeskShut, Elsewhere
  <2>1. DeskTypeOK' BY DEF DeskBegun
  <2>2. DeskBegun' BY DEF DeskBegun
  <2>3. DeskJoined' BY DEF DeskJoined
  <2>4. RecordingKept' BY DEF RecordingKept
  <2> QED BY <2>1, <2>2, <2>3, <2>4
<1>12. ASSUME SaveDeskFails PROVE DeskInv'
  <2> USE <1>12 DEF SaveDeskFails, DeskInv, DeskTypeOK, RowStatus, RowGone, DeskAt, DeskReads, DeskAlive, DeskShut, Elsewhere
  <2>1. DeskTypeOK' BY DEF DeskBegun
  <2>2. DeskBegun' BY DEF DeskBegun
  <2>3. DeskJoined' BY DEF DeskJoined
  <2>4. RecordingKept' BY DEF RecordingKept
  <2> QED BY <2>1, <2>2, <2>3, <2>4
<1> QED BY <1>1, <1>2, <1>3, <1>4, <1>5, <1>6, <1>7, <1>8, <1>9, <1>10, <1>11, <1>12 DEF DeskHandlerStep

LEMMA DeskReaderKeeps == ASSUME DeskInv, DeskReaderStep PROVE DeskInv'
<1>1. ASSUME DeskTurn PROVE DeskInv'
  <2> USE <1>1 DEF DeskTurn, DeskInv, DeskTypeOK, RowStatus, RowGone, DeskAt, DeskReads, DeskAlive, DeskShut, Elsewhere
  <2>1. DeskTypeOK' BY DEF DeskBegun
  <2>2. DeskBegun' BY DEF DeskBegun
  <2>3. DeskJoined' BY DEF DeskJoined
  <2>4. RecordingKept' BY DEF RecordingKept
  <2> QED BY <2>1, <2>2, <2>3, <2>4
<1>2. ASSUME Forward PROVE DeskInv'
  <2> USE <1>2 DEF Forward, DeskInv, DeskTypeOK, RowStatus, RowGone, DeskAt, DeskReads, DeskAlive, DeskShut, Elsewhere
  <2>1. DeskTypeOK'
    <3>1. deskReader' \in [pc : {"none", "loop", "recv", "end", "saveError", "shut", "over"},
                           part : BOOLEAN, stop : BOOLEAN]
      <4>1. PICK b \in BOOLEAN : deskReader' = [deskReader EXCEPT !.pc = "loop", !.part = b] OBVIOUS
      <4> QED BY <4>1, DeskRecords
    <3> QED BY <3>1
  <2>2. DeskBegun' BY DEF DeskBegun
  <2>3. DeskJoined' BY DEF DeskJoined
  <2>4. RecordingKept' BY DEF RecordingKept
  <2> QED BY <2>1, <2>2, <2>3, <2>4
<1>3. ASSUME StopForwarding PROVE DeskInv'
  <2> USE <1>3 DEF StopForwarding, DeskInv, DeskTypeOK, RowStatus, RowGone, DeskAt, DeskReads, DeskAlive, DeskShut, Elsewhere
  <2>1. DeskTypeOK'
    <3>1. deskReader' \in [pc : {"none", "loop", "recv", "end", "saveError", "shut", "over"},
                           part : BOOLEAN, stop : BOOLEAN]
      <4>1. PICK b \in BOOLEAN : deskReader' = [deskReader EXCEPT !.pc = "end", !.part = b] OBVIOUS
      <4> QED BY <4>1, DeskRecords
    <3> QED BY <3>1
  <2>2. DeskBegun' BY DEF DeskBegun
  <2>3. DeskJoined' BY DEF DeskJoined
  <2>4. RecordingKept' BY DEF RecordingKept
  <2> QED BY <2>1, <2>2, <2>3, <2>4
<1>4. ASSUME ReaderRaises PROVE DeskInv'
  <2> USE <1>4 DEF ReaderRaises, DeskInv, DeskTypeOK, RowStatus, RowGone, DeskAt, DeskReads, DeskAlive, DeskShut, Elsewhere
  <2>1. DeskTypeOK' BY DEF DeskBegun
  <2>2. DeskBegun' BY DEF DeskBegun
  <2>3. DeskJoined' BY DEF DeskJoined
  <2>4. RecordingKept' BY DEF RecordingKept
  <2> QED BY <2>1, <2>2, <2>3, <2>4
<1>5. ASSUME MarkIncomplete PROVE DeskInv'
  <2> USE <1>5 DEF MarkIncomplete, DeskInv, DeskTypeOK, RowStatus, RowGone, DeskAt, DeskReads, DeskAlive, DeskShut, Elsewhere
  <2>1. DeskTypeOK' BY DEF DeskBegun
  <2>2. DeskBegun' BY DEF DeskBegun
  <2>3. DeskJoined' BY DEF DeskJoined
  <2>4. RecordingKept' BY DEF RecordingKept
  <2> QED BY <2>1, <2>2, <2>3, <2>4
<1>6. ASSUME SaveIncomplete PROVE DeskInv'
  <2> USE <1>6 DEF SaveIncomplete, DeskInv, DeskTypeOK, RowStatus, RowGone, DeskAt, DeskReads, DeskAlive, DeskShut, Elsewhere
  <2>1. DeskTypeOK' BY DEF DeskBegun
  <2>2. DeskBegun' BY DEF DeskBegun
  <2>3. DeskJoined' BY DEF DeskJoined
  <2>4. RecordingKept' BY DEF RecordingKept
  <2> QED BY <2>1, <2>2, <2>3, <2>4
<1>7. ASSUME ShutDesk PROVE DeskInv'
  <2> USE <1>7 DEF ShutDesk, DeskInv, DeskTypeOK, RowStatus, RowGone, DeskAt, DeskReads, DeskAlive, DeskShut, Elsewhere
  <2>1. DeskTypeOK' BY DEF DeskBegun
  <2>2. DeskBegun' BY DEF DeskBegun
  <2>3. DeskJoined' BY DEF DeskJoined
  <2>4. RecordingKept' BY DEF RecordingKept
  <2> QED BY <2>1, <2>2, <2>3, <2>4
<1>8. ASSUME SaveIncompleteFails PROVE DeskInv'
  <2> USE <1>8 DEF SaveIncompleteFails, DeskInv, DeskTypeOK, RowStatus, RowGone, DeskAt, DeskReads, DeskAlive, DeskShut, Elsewhere
  <2>1. DeskTypeOK' BY DEF DeskBegun
  <2>2. DeskBegun' BY DEF DeskBegun
  <2>3. DeskJoined' BY DEF DeskJoined
  <2>4. RecordingKept' BY DEF RecordingKept
  <2> QED BY <2>1, <2>2, <2>3, <2>4
<1> QED BY <1>1, <1>2, <1>3, <1>4, <1>5, <1>6, <1>7, <1>8 DEF DeskReaderStep

LEMMA DeskAroundKeeps == ASSUME DeskInv, DeskAround PROVE DeskInv'
<1>1. ASSUME SendFails PROVE DeskInv'
  <2> USE <1>1 DEF SendFails, DeskInv, DeskTypeOK, RowStatus, RowGone, DeskAt, DeskReads, DeskAlive, DeskShut, Elsewhere
  <2>1. DeskTypeOK' BY DEF DeskBegun
  <2>2. DeskBegun' BY DEF DeskBegun
  <2>3. DeskJoined' BY DEF DeskJoined
  <2>4. RecordingKept' BY DEF RecordingKept
  <2> QED BY <2>1, <2>2, <2>3, <2>4
<1>2. ASSUME SelectExpired PROVE DeskInv'
  <2> USE <1>2 DEF SelectExpired, DeskInv, DeskTypeOK, RowStatus, RowGone, DeskAt, DeskReads, DeskAlive, DeskShut, Elsewhere
  <2>1. DeskTypeOK' BY DEF DeskBegun
  <2>2. DeskBegun' BY DEF DeskBegun
  <2>3. DeskJoined' BY DEF DeskJoined
  <2>4. RecordingKept' BY DEF RecordingKept
  <2> QED BY <2>1, <2>2, <2>3, <2>4
<1>3. ASSUME Unlink PROVE DeskInv'
  <2> USE <1>3 DEF Unlink, DeskInv, DeskTypeOK, RowStatus, RowGone, DeskAt, DeskReads, DeskAlive, DeskShut, Elsewhere
  <2>1. DeskTypeOK'
    <3>1. recording' \in [asked : BOOLEAN, row : BOOLEAN, file : BOOLEAN, old : BOOLEAN]
      BY DeskRecords
    <3> QED BY <3>1
  <2>2. DeskBegun' BY DEF DeskBegun
  <2>3. DeskJoined' BY DEF DeskJoined
  <2>4. RecordingKept' BY DEF RecordingKept
  <2> QED BY <2>1, <2>2, <2>3, <2>4
<1>4. ASSUME ForgetRecording PROVE DeskInv'
  <2> USE <1>4 DEF ForgetRecording, DeskInv, DeskTypeOK, RowStatus, RowGone, DeskAt, DeskReads, DeskAlive, DeskShut, Elsewhere
  <2>1. DeskTypeOK'
    <3>1. recording' \in [asked : BOOLEAN, row : BOOLEAN, file : BOOLEAN, old : BOOLEAN]
      BY DeskRecords
    <3> QED BY <3>1
  <2>2. DeskBegun' BY DEF DeskBegun
  <2>3. DeskJoined' BY DEF DeskJoined
  <2>4. RecordingKept' BY DEF RecordingKept
  <2> QED BY <2>1, <2>2, <2>3, <2>4
<1>5. ASSUME CleanerStops PROVE DeskInv'
  <2> USE <1>5 DEF CleanerStops, DeskInv, DeskTypeOK, RowStatus, RowGone, DeskAt, DeskReads, DeskAlive, DeskShut, Elsewhere
  <2>1. DeskTypeOK' BY DEF DeskBegun
  <2>2. DeskBegun' BY DEF DeskBegun
  <2>3. DeskJoined' BY DEF DeskJoined
  <2>4. RecordingKept' BY DEF RecordingKept
  <2> QED BY <2>1, <2>2, <2>3, <2>4
<1>6. ASSUME Expire PROVE DeskInv'
  <2> USE <1>6 DEF Expire, DeskInv, DeskTypeOK, RowStatus, RowGone, DeskAt, DeskReads, DeskAlive, DeskShut, Elsewhere
  <2>1. DeskTypeOK'
    <3>1. recording' \in [asked : BOOLEAN, row : BOOLEAN, file : BOOLEAN, old : BOOLEAN]
      BY DeskRecords
    <3> QED BY <3>1
  <2>2. DeskBegun' BY DEF DeskBegun
  <2>3. DeskJoined' BY DEF DeskJoined
  <2>4. RecordingKept' BY DEF RecordingKept
  <2> QED BY <2>1, <2>2, <2>3, <2>4
<1>7. ASSUME DeskLeaves PROVE DeskInv'
  <2> USE <1>7 DEF DeskLeaves, DeskInv, DeskTypeOK, RowStatus, RowGone, DeskAt, DeskReads, DeskAlive, DeskShut, Elsewhere
  <2>1. DeskTypeOK' BY DEF DeskBegun
  <2>2. DeskBegun' BY DEF DeskBegun
  <2>3. DeskJoined' BY DEF DeskJoined
  <2>4. RecordingKept' BY DEF RecordingKept
  <2> QED BY <2>1, <2>2, <2>3, <2>4
<1>8. ASSUME DeskLogout PROVE DeskInv'
  <2> USE <1>8 DEF DeskLogout, DeskInv, DeskTypeOK, RowStatus, RowGone, DeskAt, DeskReads, DeskAlive, DeskShut, Elsewhere
  <2>1. DeskTypeOK'
    <3>1. deskLogin' \in BOOLEAN OBVIOUS
    <3>2. UNCHANGED <<deskSocket, guacd, deskHandler, deskReader, deskRow, recording, cleaner, deskFate>>
      OBVIOUS
    <3> QED BY <3>1, <3>2
  <2>2. DeskBegun' BY DEF DeskBegun
  <2>3. DeskJoined' BY DEF DeskJoined
  <2>4. RecordingKept' BY DEF RecordingKept
  <2> QED BY <2>1, <2>2, <2>3, <2>4
<1>9. ASSUME GuacdEnds PROVE DeskInv'
  <2> USE <1>9 DEF GuacdEnds, DeskInv, DeskTypeOK, RowStatus, RowGone, DeskAt, DeskReads, DeskAlive, DeskShut, Elsewhere
  <2>1. DeskTypeOK' BY DEF DeskBegun
  <2>2. DeskBegun' BY DEF DeskBegun
  <2>3. DeskJoined' BY DEF DeskJoined
  <2>4. RecordingKept' BY DEF RecordingKept
  <2> QED BY <2>1, <2>2, <2>3, <2>4
<1>10. ASSUME DeskStops PROVE DeskInv'
  <2> USE <1>10 DEF DeskStops, DeskInv, DeskTypeOK, RowStatus, RowGone, DeskAt, DeskReads, DeskAlive, DeskShut, Elsewhere
  <2>1. DeskTypeOK' BY DEF DeskBegun
  <2>2. DeskBegun' BY DEF DeskBegun
  <2>3. DeskJoined' BY DEF DeskJoined
  <2>4. RecordingKept' BY DEF RecordingKept
  <2> QED BY <2>1, <2>2, <2>3, <2>4
<1>11. ASSUME DeleteDesk PROVE DeskInv'
  <2> USE <1>11 DEF DeleteDesk, DeskInv, DeskTypeOK, RowStatus, RowGone, DeskAt, DeskReads, DeskAlive, DeskShut, Elsewhere
  <2>1. DeskTypeOK'
    <3>1. recording \in RecordingRecords BY DEF RecordingRecords
    <3>2. recording' = [recording EXCEPT !.row = FALSE] OBVIOUS
    <3>3. recording' \in RecordingRecords BY ONLY <3>1, <3>2, DeskRecords
    <3> QED BY <3>3 DEF RecordingRecords, DeskBegun
  <2>2. DeskBegun' BY DEF DeskBegun
  <2>3. DeskJoined' BY DEF DeskJoined
  <2>4. RecordingKept' BY DEF RecordingKept
  <2> QED BY <2>1, <2>2, <2>3, <2>4
<1> QED BY <1>1, <1>2, <1>3, <1>4, <1>5, <1>6, <1>7, <1>8, <1>9, <1>10, <1>11 DEF DeskAround

LEMMA DeskInvStep == ASSUME DeskInv, [DeskNext]_deskVars PROVE DeskInv'
<1>1. CASE DeskNext BY <1>1, DeskHandlerKeeps, DeskReaderKeeps, DeskAroundKeeps DEF DeskNext
<1>2. CASE UNCHANGED deskVars
  BY <1>2 DEF deskVars, DeskInv, DeskTypeOK, RowStatus, RowGone, DeskBegun, DeskJoined, RecordingKept
<1> QED BY <1>1, <1>2

\* Every variable of a remote desktop keeps its type (deskVars).
THEOREM DeskTypeCorrect == DeskSpec => []DeskTypeOK
<1>1. DeskInv => DeskTypeOK BY DEF DeskInv
<1> QED BY <1>1, DeskInvInit, DeskInvStep, PTL DEF DeskSpec

\* A recording on disk is found from its session while the session is stored, wherever
\* the removal command was stopped (cleanup_expired_rdp_recordings).
THEOREM DeskFindable == DeskSpec => []RecordingFindable
<1>1. DeskInv => RecordingFindable BY DEF DeskInv, RecordingKept, RecordingFindable, RowGone
<1> QED BY <1>1, DeskInvInit, DeskInvStep, PTL DEF DeskSpec

LEMMA StoredErrorStep ==
  ASSUME DeskInv, [DeskNext]_deskVars, deskRow.stored = "error", "late" \notin deskFate
  PROVE  deskRow'.stored \in {"error", "gone"}
<1>1. deskRow.object = "error" /\ deskHandler # "connect"
  BY DEF DeskInv, DeskJoined, DeskBegun
<1>2. deskRow \in [object : RowStatus, stored : RowStatus \cup {"gone"}] BY DEF DeskInv, DeskTypeOK
<1>3. CASE UNCHANGED deskRow BY <1>3
<1>4. CASE SaveDeskError \/ SaveClose \/ SaveIncomplete
  BY <1>1, <1>2, <1>4 DEF SaveDeskError, SaveClose, SaveIncomplete, RowGone
<1>5. CASE HandshakeFails \/ SendFails \/ MarkClosed \/ MarkIncomplete
  BY <1>2, <1>5 DEF HandshakeFails, SendFails, MarkClosed, MarkIncomplete
<1>6. CASE CreateDesk BY <1>1, <1>6 DEF CreateDesk, DeskAt
<1>7. CASE DeleteDesk BY <1>2, <1>7 DEF DeleteDesk
<1> QED
  BY <1>3, <1>4, <1>5, <1>6, <1>7 DEF DeskNext, deskVars, DeskHandlerStep, DeskReaderStep, DeskAround,
       RefuseDesk, Handshake, HandshakeRaises, SaveDeskFails, SaveIncompleteFails, DisconnectDesk, JoinDesk, CloseDesk, DeskTurn,
       Forward, StopForwarding, ReaderRaises, ShutDesk, SelectExpired, Unlink, ForgetRecording,
       CleanerStops, Expire, DeskLeaves, DeskLogout, GuacdEnds, DeskStops

\* An error stored with a session stays when the session ends, unless the reader
\* was still busy at the end of the join; only the deletion of the host takes it away
\* (_close_session, _mark_session_error).
THEOREM DeskErrorsStay == DeskSpec => DeskErrorStays
<1>1. ASSUME DeskInv, [DeskNext]_deskVars
      PROVE  [deskRow.stored = "error" /\ "late" \notin deskFate => deskRow'.stored \in {"error", "gone"}]_deskVars
  BY <1>1, StoredErrorStep
<1> QED BY <1>1, DeskInvInit, DeskInvStep, PTL DEF DeskSpec, DeskErrorStays
------------------------------------------------------------------------------
(***************************************************************************)
(* The terminal over HTTP.  ExitIsFinal needs to know where the connection *)
(* can be while the session is not in LIVE_TERMINALS, and that an exit on  *)
(* its way to be stored has already ended it.  OneAfterAnother needs what  *)
(* holds of a history without overlap: one request at work, whose transcript*)
(* is still the row's, and a shell that owes answers, or holds output, only*)
(* for the request now reading.                                            *)
(***************************************************************************)

ReadingNow == {r \in WebRequests : webReq[r].pc = "read"}

InOrder == webFate \cap {"overlap", "slow"} = {}

\* Before its row is stored a session is not live and no request can reach it.
Unstored ==
    webRow.status = "none" =>
      /\ ~webLive /\ webRow.transcript = {} /\ webRow.audits = {}
      /\ webShell.output = {} /\ webShell.asked = {}
      /\ \A r \in WebRequests : webReq[r].pc = "new" /\ webRow.outputs[r] = {}

\* The connection of a stored session is closed once it is not live, which it is
\* not after an exit was read.
Forgotten ==
    /\ webRow.status # "none" /\ ~webLive => webLink = "closed"
    /\ webLink = "closed" => ~webLive
    /\ webLink = "none" => webRow.status = "none"
    /\ webRow.status = "closed" => ~webLive
    /\ \A r \in WebRequests : webReq[r].kind = "exit" /\ webReq[r].pc \in {"save", "store"} => ~webLive
    /\ \A r \in WebRequests : webReq[r].kind = "clear" =>
          webReq[r].pc \in {"new", "save", "store", "done", "failed"}

\* One request is at work, and its transcript is the one stored.
OneAtWork ==
    /\ \A r, s \in Running : r = s
    /\ \A r \in Running : webReq[r].transcript = webRow.transcript

\* The shell owes answers only to the request that reads, as long as it can be read.
ShellOfReader == webLink # "closed" => webShell.asked \cup webShell.output \subseteq ReadingNow

\* What a request holds is its own output, and so is what was stored for it.
OwnOutput ==
    /\ \A r \in WebRequests : webReq[r].output \subseteq {r}
    /\ \A r \in WebRequests : webReq[r].pc \in {"new", "run", "read"} => webReq[r].output = {}
    /\ webRow.audited =>
         \A r \in WebRequests :
           /\ webRow.outputs[r] \subseteq {r}
           /\ webReq[r].pc = "done" => r \in webRow.transcript
           /\ r \in webRow.transcript \/ webReq[r].pc = "store" => r \in webRow.audits

WebInv ==
    /\ WebTypeOK /\ Unstored /\ Forgotten
    /\ InOrder => OneAtWork /\ ShellOfReader /\ OwnOutput
----------------------------------------------------------------------------
(* Types. *)

WebRowType ==
    [status : {"none", "active", "closed"}, audited : BOOLEAN,
     transcript : SUBSET WebRequests, audits : SUBSET WebRequests,
     outputs : [WebRequests -> SUBSET WebRequests]]
WebReqType ==
    [pc : WebPC, kind : WebKinds, transcript : SUBSET WebRequests, output : SUBSET WebRequests]

\* A request keeps its type when it goes on, and takes the transcript, or output.
LEMMA RequestGoesOn ==
  ASSUME NEW f \in [WebRequests -> WebReqType], NEW r \in WebRequests, NEW pc \in WebPC
  PROVE  [f EXCEPT ![r].pc = pc] \in [WebRequests -> WebReqType]
<1>1. f[r] \in WebReqType OBVIOUS
<1>2. [f[r] EXCEPT !.pc = pc] \in WebReqType BY <1>1 DEF WebReqType
<1>3. [f EXCEPT ![r].pc = pc] = [f EXCEPT ![r] = [f[r] EXCEPT !.pc = pc]] OBVIOUS
<1> QED BY <1>2, <1>3

LEMMA RequestStarts ==
  ASSUME NEW f \in [WebRequests -> WebReqType], NEW r \in WebRequests,
         NEW pc \in {"save", "run"}, NEW t \in SUBSET WebRequests
  PROVE  [f EXCEPT ![r].pc = pc, ![r].transcript = t] \in [WebRequests -> WebReqType]
<1>1. f[r] \in WebReqType OBVIOUS
<1>2. [f[r] EXCEPT !.pc = pc, !.transcript = t] \in WebReqType BY <1>1 DEF WebReqType, WebPC
<1>3. [f EXCEPT ![r].pc = pc, ![r].transcript = t]
        = [f EXCEPT ![r] = [f[r] EXCEPT !.pc = pc, !.transcript = t]]
  OBVIOUS
<1> QED BY <1>2, <1>3

LEMMA RequestReads ==
  ASSUME NEW f \in [WebRequests -> WebReqType], NEW r \in WebRequests,
         NEW t \in SUBSET WebRequests
  PROVE  [f EXCEPT ![r].pc = "save", ![r].output = t] \in [WebRequests -> WebReqType]
<1>1. f[r] \in WebReqType OBVIOUS
<1>2. [f[r] EXCEPT !.pc = "save", !.output = t] \in WebReqType BY <1>1 DEF WebReqType, WebPC
<1>3. [f EXCEPT ![r].pc = "save", ![r].output = t]
        = [f EXCEPT ![r] = [f[r] EXCEPT !.pc = "save", !.output = t]]
  OBVIOUS
<1> QED BY <1>2, <1>3

\* Every step keeps the types.
LEMMA WebStepTyped ==
  ASSUME WebTypeOK, [WebNext]_webVars
  PROVE  WebTypeOK'
<1> USE DEF WebTypeOK, WebPC
<1>1. CASE OpenShell BY <1>1 DEF OpenShell
<1>2. CASE StoreSession
  <2>1. PICK audited \in BOOLEAN :
           webRow' = [webRow EXCEPT !.status = "active", !.audited = audited]
        BY <1>2 DEF StoreSession
  <2>2. webRow' \in WebRowType BY <2>1 DEF WebRowType
  <2> QED BY <1>2, <2>1, <2>2 DEF StoreSession, WebRowType
<1>3. CASE CreateFails BY <1>3 DEF CreateFails
<1>4. CASE ShellEnds BY <1>4 DEF ShellEnds
<1>5. CASE WebRestart
  <2>1. webReq' \in [WebRequests -> WebReqType]
    <3>1. ASSUME NEW r \in WebRequests
          PROVE  IF r \in Running THEN [webReq[r] EXCEPT !.pc = "failed"] \in WebReqType
                 ELSE webReq[r] \in WebReqType
      <4>1. webReq[r] \in WebReqType BY DEF WebReqType
      <4>2. [webReq[r] EXCEPT !.pc = "failed"] \in WebReqType BY <4>1 DEF WebReqType
      <4> QED BY <4>1, <4>2
    <3>2. webReq' = [r \in WebRequests |->
                       IF r \in Running THEN [webReq[r] EXCEPT !.pc = "failed"] ELSE webReq[r]]
      BY <1>5 DEF WebRestart
    <3> QED BY <3>1, <3>2
  <2> QED BY <1>5, <2>1 DEF WebRestart, WebReqType
<1>6. ASSUME NEW r \in WebRequests, WebCommand(r) PROVE WebTypeOK'
  <2>1. CASE StartCommand(r)
    <3>1. webReq' \in [WebRequests -> WebReqType]
      <4>1. webReq \in [WebRequests -> WebReqType] /\ webRow.transcript \in SUBSET WebRequests
        BY DEF WebReqType
      <4>2. PICK pc \in {"save", "run"} :
              webReq' = [webReq EXCEPT ![r].pc = pc, ![r].transcript = webRow.transcript]
        BY <2>1 DEF StartCommand
      <4> QED BY <4>1, <4>2, RequestStarts
    <3> QED BY <2>1, <3>1 DEF StartCommand, WebReqType
  <2>2. CASE SendToShell(r)
    <3>1. webReq' \in [WebRequests -> WebReqType]
      <4>1. webReq \in [WebRequests -> WebReqType] BY DEF WebReqType
      <4>2. PICK pc \in {"read", "save"} : webReq' = [webReq EXCEPT ![r].pc = pc]
        BY <2>2 DEF SendToShell
      <4> QED BY <4>1, <4>2, RequestGoesOn
    <3>2. webShell' \in [asked : SUBSET WebRequests, output : SUBSET WebRequests]
      BY <2>2 DEF SendToShell
    <3> QED BY <2>2, <3>1, <3>2 DEF SendToShell, WebReqType
  <2>3. CASE ShellAnswers(r) BY <2>3 DEF ShellAnswers
  <2>4. CASE ReadFromShell(r)
    <3>1. webReq' \in [WebRequests -> WebReqType]
      <4>1. webReq \in [WebRequests -> WebReqType] /\ webShell.output \in SUBSET WebRequests
        BY DEF WebReqType
      <4> QED BY <2>4, <4>1, RequestReads DEF ReadFromShell, Take
    <3>2. webLive' \in BOOLEAN BY <2>4 DEF ReadFromShell
    <3>3. webLive' => webLink' # "none" /\ webRow'.status # "none" BY <2>4 DEF ReadFromShell
    <3> QED BY <2>4, <3>1, <3>2, <3>3 DEF ReadFromShell, Take, WebReqType
  <2>5. CASE ShellFails(r)
    <3>1. webReq' \in [WebRequests -> WebReqType]
      <4>1. webReq \in [WebRequests -> WebReqType] BY DEF WebReqType
      <4> QED BY <2>5, <4>1, RequestGoesOn DEF ShellFails
    <3> QED BY <2>5, <3>1 DEF ShellFails, WebReqType
  <2>6. CASE AuditCommand(r)
    <3>1. webReq' \in [WebRequests -> WebReqType]
      <4>1. webReq \in [WebRequests -> WebReqType] BY DEF WebReqType
      <4> QED BY <2>6, <4>1, RequestGoesOn DEF AuditCommand
    <3>2. webRow' \in WebRowType
      <4>1. webReq[r].output \in SUBSET WebRequests /\ webRow \in WebRowType BY DEF WebRowType
      <4> HIDE DEF WebTypeOK
      <4>2. CASE webRow' = webRow BY <4>1, <4>2
      <4>3. CASE webRow' = [webRow EXCEPT !.audits = @ \cup {r}, !.outputs[r] = webReq[r].output]
        BY <4>1, <4>3 DEF WebRowType
      <4> QED BY <2>6, <4>2, <4>3 DEF AuditCommand
    <3>3. webRow'.status = webRow.status BY <2>6 DEF AuditCommand
    <3> QED BY <2>6, <3>1, <3>2, <3>3 DEF AuditCommand, WebReqType, WebRowType
  <2>7. CASE StoreCommand(r)
    <3>1. webReq' \in [WebRequests -> WebReqType]
      <4>1. webReq \in [WebRequests -> WebReqType] BY DEF WebReqType
      <4> QED BY <2>7, <4>1, RequestGoesOn DEF StoreCommand
    <3>2. webRow' \in WebRowType BY <2>7 DEF StoreCommand, WebRowType
    <3>3. webLive' => webRow'.status # "none" BY <2>7 DEF StoreCommand
    <3> QED BY <2>7, <3>1, <3>2, <3>3 DEF StoreCommand, WebReqType, WebRowType
  <2>8. CASE StoreFails(r)
    <3>1. webReq' \in [WebRequests -> WebReqType]
      <4>1. webReq \in [WebRequests -> WebReqType] BY DEF WebReqType
      <4> QED BY <2>8, <4>1, RequestGoesOn DEF StoreFails
    <3> QED BY <2>8, <3>1 DEF StoreFails, WebReqType
  <2> QED BY <1>6, <2>1, <2>2, <2>3, <2>4, <2>5, <2>6, <2>7, <2>8 DEF WebCommand
<1>7. CASE UNCHANGED webVars BY <1>7 DEF webVars
<1> QED BY <1>1, <1>2, <1>3, <1>4, <1>5, <1>6, <1>7 DEF WebNext
----------------------------------------------------------------------------
(* Where the connection can be. *)

\* Every step keeps what is known of a session before its row, and of a session
\* that is not live any more.
LEMMA StepForgotten ==
  ASSUME WebTypeOK, Unstored, Forgotten, [WebNext]_webVars
  PROVE  Unstored' /\ Forgotten'
<1> USE DEF WebTypeOK, Unstored, Forgotten
<1>1. CASE OpenShell BY <1>1 DEF OpenShell
<1>2. CASE StoreSession
  <2>1. PICK audited \in BOOLEAN :
           webRow' = [webRow EXCEPT !.status = "active", !.audited = audited]
        BY <1>2 DEF StoreSession
  <2>2. webRow'.status = "active" BY <2>1
  <2> QED BY <1>2, <2>2 DEF StoreSession
<1>3. CASE CreateFails BY <1>3 DEF CreateFails
<1>4. CASE ShellEnds BY <1>4 DEF ShellEnds
<1>5. CASE WebRestart BY <1>5 DEF WebRestart, Running, WebPC
<1>6. ASSUME NEW r \in WebRequests, WebCommand(r) PROVE Unstored' /\ Forgotten'
  <2>1. CASE StartCommand(r) BY <2>1 DEF StartCommand
  <2>2. CASE SendToShell(r)
    <3>1. webReq[r].pc = "run" /\ UNCHANGED <<webLive, webLink, webRow>> BY <2>2 DEF SendToShell
    <3>2. webReq'[r].kind = webReq[r].kind /\ webReq'[r].pc \in {"read", "save"}
          /\ (webReq'[r].pc = "save" => ~webLive)
          /\ \A s \in WebRequests : s # r => webReq'[s] = webReq[s]
      BY <2>2 DEF SendToShell
    <3>3. webRow.status # "none" BY <3>1
    <3>4. Unstored' BY <3>1, <3>3
    <3> HIDE DEF WebTypeOK, Unstored
    <3>5. Forgotten' BY <3>1, <3>2
    <3> QED BY <3>4, <3>5
  <2>3. CASE ShellAnswers(r) BY <2>3 DEF ShellAnswers
  <2>4. CASE ReadFromShell(r)
    <3> DEFINE over == webReq[r].kind = "exit" \/ webLink = "ended"
    <3>1. webReq[r].pc = "read" /\ webReq'[r].pc = "save" /\ webReq'[r].kind = webReq[r].kind
          /\ \A s \in WebRequests : s # r => webReq'[s] = webReq[s]
      BY <2>4 DEF ReadFromShell, Take
    <3>2. UNCHANGED webRow /\ webLink # "closed"
          /\ webLink' = (IF over THEN "closed" ELSE webLink) /\ webLive' = (webLive /\ ~over)
      BY <2>4 DEF ReadFromShell
    <3>3. webRow.status # "none" /\ webLive
      <4>1. webRow.status # "none" BY <3>1
      <4> QED BY <4>1, <3>2
    <3>4. CASE over
      <4>1. webLink' = "closed" /\ ~webLive' BY <3>2, <3>4
      <4> QED BY <3>1, <3>2, <3>3, <4>1
    <3>5. CASE ~over
      <4>1. webLink' = webLink /\ webLive' BY <3>2, <3>3, <3>5
      <4>2. webReq[r].kind # "exit" BY <3>5
      <4> QED BY <3>1, <3>2, <3>3, <4>1, <4>2
    <3> QED BY <3>4, <3>5
  <2>5. CASE ShellFails(r) BY <2>5 DEF ShellFails
  <2>6. CASE AuditCommand(r)
    <3>1. webRow'.status = webRow.status /\ webRow'.transcript = webRow.transcript
      BY <2>6 DEF AuditCommand
    <3>2. webReq[r].pc = "save" /\ webReq'[r].pc = "store" /\ webReq'[r].kind = webReq[r].kind
          /\ \A q \in WebRequests : q # r => webReq'[q] = webReq[q]
      BY <2>6 DEF AuditCommand
    <3> QED BY <2>6, <3>1, <3>2 DEF AuditCommand
  <2>7. CASE StoreCommand(r) BY <2>7 DEF StoreCommand
  <2>8. CASE StoreFails(r) BY <2>8 DEF StoreFails
  <2> QED BY <1>6, <2>1, <2>2, <2>3, <2>4, <2>5, <2>6, <2>7, <2>8 DEF WebCommand
<1>7. CASE UNCHANGED webVars BY <1>7 DEF webVars
<1> QED BY <1>1, <1>2, <1>3, <1>4, <1>5, <1>6, <1>7 DEF WebNext
----------------------------------------------------------------------------
(* A history without overlap and slow answers. *)

\* What one command of such a history does to the order of things.
LEMMA CommandInOrder ==
  ASSUME WebTypeOK, Unstored, Forgotten, OneAtWork, ShellOfReader, OwnOutput, InOrder',
         NEW r \in WebRequests, WebCommand(r)
  PROVE  OneAtWork' /\ ShellOfReader' /\ OwnOutput'
<1> USE DEF WebTypeOK, Unstored, Forgotten, OneAtWork, ShellOfReader, OwnOutput, Running, ReadingNow
<1>1. CASE StartCommand(r)
  <2>1. Running = {} BY <1>1 DEF StartCommand, InOrder
  <2>2. webReq[r].pc = "new" /\ webReq'[r].pc \in {"run", "save"}
        /\ webReq'[r].transcript = webRow.transcript /\ webReq'[r].output = webReq[r].output
        /\ \A s \in WebRequests : s # r => webReq'[s] = webReq[s]
    BY <1>1 DEF StartCommand
  <2>3. UNCHANGED <<webLink, webShell, webRow>> BY <1>1 DEF StartCommand
  <2>4. Running' = {r} BY <2>1, <2>2
  <2>5. OneAtWork' BY <2>2, <2>3, <2>4
  <2>6. ShellOfReader' BY <2>1, <2>2, <2>3
  <2>7. OwnOutput' BY <2>2, <2>3
  <2> QED BY <2>5, <2>6, <2>7
<1>2. CASE SendToShell(r)
  <2>1. webReq[r].pc = "run" /\ webReq'[r].pc \in {"read", "save"}
        /\ webReq'[r].transcript = webReq[r].transcript /\ webReq'[r].output = webReq[r].output
        /\ \A s \in WebRequests : s # r => webReq'[s] = webReq[s]
    BY <1>2 DEF SendToShell
  <2>2. UNCHANGED <<webLink, webRow>> BY <1>2 DEF SendToShell
  <2>3. Running' = Running BY <2>1
  <2>4. OneAtWork' BY <2>1, <2>2, <2>3
  <2>5. ShellOfReader'
    <3>1. ReadingNow = {} BY <2>1
    <3>2. CASE webLive
      <4>1. ReadingNow' = {r} BY <1>2, <3>1, <3>2, <2>1 DEF SendToShell
      <4>2. webShell'.asked \subseteq webShell.asked \cup {r} /\ webShell'.output = webShell.output
        BY <1>2, <3>2 DEF SendToShell
      <4> QED BY <2>2, <3>1, <4>1, <4>2
    <3>3. CASE ~webLive
      <4>1. webLink = "closed" BY <2>1, <3>3
      <4> QED BY <4>1, <2>2
    <3> QED BY <3>2, <3>3
  <2>6. OwnOutput' BY <2>1, <2>2
  <2> QED BY <2>4, <2>5, <2>6
<1>3. CASE ShellAnswers(r) BY <1>3 DEF ShellAnswers
<1>4. CASE ReadFromShell(r)
  <2>1. webReq[r].pc = "read" /\ webReq'[r].pc = "save" /\ webReq'[r].output = webShell.output
        /\ webReq'[r].transcript = webReq[r].transcript
        /\ \A s \in WebRequests : s # r => webReq'[s] = webReq[s]
    BY <1>4 DEF ReadFromShell, Take
  <2>2. UNCHANGED webRow /\ webLink # "closed" /\ webShell'.asked = webShell.asked
        /\ webShell'.output = {}
    BY <1>4 DEF ReadFromShell, Take
  <2>3. Running' = Running BY <2>1
  <2>4. ReadingNow = {r}
    <3>1. r \in ReadingNow /\ ReadingNow \subseteq Running BY <2>1
    <3> QED BY <3>1
  <2>5. webShell.asked = {}
    <3>1. webShell.asked \subseteq {r} BY <2>2, <2>4
    <3>2. r \notin webShell.asked
      <4>1. webFate' = IF r \in webShell.asked THEN webFate \cup {"slow"} ELSE webFate
        BY <1>4 DEF ReadFromShell, Take
      <4> QED BY <4>1 DEF InOrder
    <3> QED BY <3>1, <3>2
  <2>6. OneAtWork' BY <2>1, <2>2, <2>3
  <2>7. ShellOfReader' BY <2>2, <2>5
  <2>8. OwnOutput' BY <2>1, <2>2, <2>4
  <2> QED BY <2>6, <2>7, <2>8
<1>5. CASE ShellFails(r)
  <2>1. webReq[r].pc = "read" /\ webReq'[r].pc = "save" /\ webReq'[r].output = webReq[r].output
        /\ webReq'[r].transcript = webReq[r].transcript
        /\ \A s \in WebRequests : s # r => webReq'[s] = webReq[s]
    BY <1>5 DEF ShellFails
  <2>2. UNCHANGED webRow /\ webLink' = "closed" BY <1>5 DEF ShellFails
  <2>3. Running' = Running BY <2>1
  <2>4. OneAtWork' BY <2>1, <2>2, <2>3
  <2>5. OwnOutput' BY <2>1, <2>2
  <2> QED BY <2>2, <2>4, <2>5
<1>6. CASE AuditCommand(r)
  <2>1. webReq[r].pc = "save" /\ webReq'[r].pc = "store" /\ webReq'[r].output = webReq[r].output
        /\ webReq'[r].transcript = webReq[r].transcript
        /\ \A s \in WebRequests : s # r => webReq'[s] = webReq[s]
    BY <1>6 DEF AuditCommand
  <2>2. UNCHANGED <<webLink, webShell>> BY <1>6 DEF AuditCommand
  <2>3. webRow'.audited = webRow.audited /\ webRow'.transcript = webRow.transcript
        /\ \A s \in WebRequests : s # r => webRow'.outputs[s] = webRow.outputs[s]
    BY <1>6 DEF AuditCommand
  <2>4. Running' = Running BY <2>1
  <2>5. OneAtWork' BY <2>1, <2>3, <2>4
  <2>6. ShellOfReader' BY <2>1, <2>2
  <2>7. OwnOutput'
    <3>1. webRow.audited => /\ webRow'.audits = webRow.audits \cup {r}
                            /\ webRow'.outputs[r] = webReq[r].output
      BY <1>6 DEF AuditCommand
    <3> QED BY <2>1, <2>3, <3>1
  <2> QED BY <2>5, <2>6, <2>7
<1>7. CASE StoreCommand(r)
  <2>1. webReq[r].pc = "store" /\ webReq'[r].pc = "done" /\ webReq'[r].output = webReq[r].output
        /\ \A s \in WebRequests : s # r => webReq'[s] = webReq[s]
    BY <1>7 DEF StoreCommand
  <2>2. UNCHANGED <<webLink, webShell>> BY <1>7 DEF StoreCommand
  <2>3. Running = {r} /\ Running' = {} BY <2>1
  <2>4. OneAtWork' BY <2>3
  <2>5. ShellOfReader' BY <2>1, <2>2, <2>3
  <2>6. OwnOutput'
    <3>1. webReq[r].transcript = webRow.transcript BY <2>3
    <3>2. webRow'.audited = webRow.audited /\ webRow'.outputs = webRow.outputs
          /\ webRow'.audits = webRow.audits
      BY <1>7 DEF StoreCommand
    <3>3. webRow.audited => webRow'.transcript = webRow.transcript \cup {r}
      BY <1>7, <3>1 DEF StoreCommand
    <3> QED BY <2>1, <3>2, <3>3
  <2> QED BY <2>4, <2>5, <2>6
<1>8. CASE StoreFails(r)
  <2>1. webReq[r].pc \in {"save", "store"} /\ webReq'[r].pc = "failed"
        /\ webReq'[r].output = webReq[r].output
        /\ \A s \in WebRequests : s # r => webReq'[s] = webReq[s]
    BY <1>8 DEF StoreFails
  <2>2. UNCHANGED <<webLink, webShell, webRow>> BY <1>8 DEF StoreFails
  <2>3. Running = {r} /\ Running' = {} BY <2>1
  <2> QED BY <2>1, <2>2, <2>3
<1> QED BY <1>1, <1>2, <1>3, <1>4, <1>5, <1>6, <1>7, <1>8 DEF WebCommand

\* A history that is in order after a step was so before it, and the step keeps
\* the one request at work, its shell and its output.
LEMMA StepInOrder ==
  ASSUME WebInv, [WebNext]_webVars, InOrder'
  PROVE  OneAtWork' /\ ShellOfReader' /\ OwnOutput'
<1> USE DEF WebInv
<1>1. InOrder
  BY DEF InOrder, WebNext, WebCommand, OpenShell, StoreSession, CreateFails, ShellEnds, WebRestart,
     StartCommand, SendToShell, ShellAnswers, ReadFromShell, Take, ShellFails, AuditCommand, StoreCommand, StoreFails, webVars
<1>2. OneAtWork /\ ShellOfReader /\ OwnOutput BY <1>1
<1> USE DEF WebTypeOK, Unstored, OneAtWork, ShellOfReader, OwnOutput, Running, ReadingNow
<1>3. CASE OpenShell BY <1>2, <1>3 DEF OpenShell
<1>4. CASE StoreSession
  <2>1. PICK audited \in BOOLEAN :
           webRow' = [webRow EXCEPT !.status = "active", !.audited = audited]
        BY <1>4 DEF StoreSession
  <2>2. webRow'.outputs = webRow.outputs /\ webRow'.transcript = webRow.transcript
        /\ webRow'.audits = webRow.audits
    BY <2>1
  <2> QED BY <1>2, <1>4, <2>2 DEF StoreSession
<1>5. CASE CreateFails BY <1>2, <1>5 DEF CreateFails
<1>6. CASE ShellEnds BY <1>2, <1>6 DEF ShellEnds
<1>7. CASE WebRestart
  <2>1. Running' = {} BY <1>7 DEF WebRestart, WebPC
  <2>2. \A r \in WebRequests : webReq'[r].output = webReq[r].output
                               /\ (webReq'[r].pc = webReq[r].pc \/ webReq'[r].pc = "failed")
    BY <1>7 DEF WebRestart
  <2>3. webShell'.asked = {} /\ webShell'.output = {} /\ UNCHANGED webRow BY <1>7 DEF WebRestart
  <2> QED BY <1>2, <2>1, <2>2, <2>3
<1>8. ASSUME NEW r \in WebRequests, WebCommand(r) PROVE OneAtWork' /\ ShellOfReader' /\ OwnOutput'
  BY <1>2, <1>8, CommandInOrder
<1>9. CASE UNCHANGED webVars BY <1>2, <1>9 DEF webVars
<1> QED BY <1>3, <1>4, <1>5, <1>6, <1>7, <1>8, <1>9 DEF WebNext
----------------------------------------------------------------------------
(* Theorems. *)

LEMMA WebInvInit ==
  ASSUME WebInit
  PROVE  WebInv
<1> USE DEF WebInit, WebPC
<1>1. PICK k \in [WebRequests -> WebKinds] :
        webReq = [r \in WebRequests |->
                    [pc |-> "new", kind |-> k[r], transcript |-> {}, output |-> {}]]
  <2> DEFINE k == [r \in WebRequests |-> webReq[r].kind]
  <2>1. \A r \in WebRequests : k[r] \in WebKinds
          /\ webReq[r] = [pc |-> "new", kind |-> k[r], transcript |-> {}, output |-> {}]
    OBVIOUS
  <2>2. k \in [WebRequests -> WebKinds] BY <2>1
  <2>3. webReq = [r \in WebRequests |->
                    [pc |-> "new", kind |-> k[r], transcript |-> {}, output |-> {}]]
    BY <2>1
  <2> QED BY <2>2, <2>3
<1>2. webReq \in [WebRequests -> WebReqType] BY <1>1 DEF WebReqType
<1>3. WebTypeOK BY <1>2 DEF WebTypeOK, WebReqType
<1>4. Unstored /\ Forgotten BY <1>1 DEF Unstored, Forgotten
<1>5. OneAtWork /\ ShellOfReader /\ OwnOutput
  BY <1>1 DEF OneAtWork, ShellOfReader, OwnOutput, Running
<1> QED BY <1>3, <1>4, <1>5 DEF WebInv

LEMMA WebInvStep ==
  ASSUME WebInv, [WebNext]_webVars
  PROVE  WebInv'
<1>1. WebTypeOK' BY WebStepTyped DEF WebInv
<1>2. Unstored' /\ Forgotten' BY StepForgotten DEF WebInv
<1>3. InOrder' => OneAtWork' /\ ShellOfReader' /\ OwnOutput' BY StepInOrder
<1> QED BY <1>1, <1>2, <1>3 DEF WebInv

\* The sessions, their shells and requests have their types in every state.
THEOREM WebTypeCorrect == WebSpec => []WebTypeOK
<1>1. WebInv => WebTypeOK BY DEF WebInv
<1> QED BY <1>1, WebInvInit, WebInvStep, PTL DEF WebSpec

\* When commands were sent one after another and answered in time, an audit has the
\* output of its own command, every command answered without error is in the
\* transcript, and what is in the transcript is audited (create_command_audit, then
\* session.save).
THEOREM CommandsInOrder == WebSpec => []OneAfterAnother
<1>1. WebInv => OneAfterAnother BY DEF WebInv, OneAfterAnother, InOrder, OwnOutput
<1> QED BY <1>1, WebInvInit, WebInvStep, PTL DEF WebSpec

\* A closed session has no connection and is never opened again, not even by a
\* request that began before the exit.
THEOREM ExitEnds == WebSpec => ExitIsFinal
<1>1. ASSUME WebInv, [WebNext]_webVars
      PROVE  [webRow'.status = "closed" => ~webLive' /\ webLink' \in {"none", "closed"}
                /\ (webRow.status = "closed" => webRow'.status = "closed")]_webVars
  <2>1. WebInv' BY <1>1, WebInvStep
  <2>2. webRow'.status = "closed" => ~webLive' /\ webLink' = "closed"
    BY <2>1 DEF WebInv, Forgotten
  <2> QED BY <2>2
<1> QED BY <1>1, WebInvInit, WebInvStep, PTL DEF WebSpec, ExitIsFinal
------------------------------------------------------------------------------
(***************************************************************************)
(* Transfers of files.  As long as nobody else meddles, the flags of a record*)
(* say which of its renames are done (its layout), but not while a rename may*)
(* have been done without an answer; then only that some layout holds.     *)
(***************************************************************************)

SourceAt(j) == SourceOf(item[j].kind)
TargetAt(j) == IF j \in op.existed THEN TargetOf(item[j].kind) ELSE Gone
\* What is published at a target.
NewAt(j) == IF item[j].kind = "directory" /\ j \in op.existed THEN Merged(SourceAt(j), TargetAt(j)) ELSE SourceAt(j)

\* The paths of an item: its copy published, its target backed up, its source held.
LayoutOf(paths, s, t, n, published, backedUp, held) ==
    /\ paths["source"] = IF held THEN Gone ELSE s
    /\ paths["held"]   = IF held THEN s ELSE Gone
    /\ paths["target"] = IF published THEN n ELSE IF backedUp THEN Gone ELSE t
    /\ paths["backup"] = IF backedUp THEN t ELSE Gone
    /\ published => paths["stage"] = Gone
Layout(j, published, backedUp, held) ==
    /\ LayoutOf(place[j], SourceAt(j), TargetAt(j), NewAt(j), published, backedUp, held)
    /\ backedUp => j \in op.existed
    /\ published => (j \in op.existed => backedUp)
Untouched(j) == Layout(j, FALSE, FALSE, FALSE)
AsFlagged(j) == Layout(j, item[j].published, item[j].backedUp, item[j].sourceHeld)
Somehow(j) == \E p, b, h \in BOOLEAN : Layout(j, p, b, h)
\* The record the rollback is at, of which some is already undone.
HalfUndone(j) ==
    Layout(j, IF op.pc = "undoPublish" THEN item[j].published ELSE FALSE,
              IF op.pc = "undoHold" THEN FALSE ELSE item[j].backedUp, item[j].sourceHeld)
Succeeded(j) ==
    /\ place[j]["target"] = NewAt(j) /\ place[j]["source"] = IF op.move THEN Gone ELSE SourceAt(j)
    /\ op.pc # "end" /\ j \in op.existed => place[j]["backup"] = TargetAt(j)

Early      == {"idle", "mkdir"}
Staging    == {"merge", "stage"}
Publishing == {"hold", "backup", "publish"}
Undoing    == {"undoPublish", "undoBackup", "undoHold"}
Dropping   == {"drop", "clean"}

Unflagged(j) == ~item[j].published /\ ~item[j].backedUp /\ ~item[j].sourceHeld
Flagged(j)   == item[j].published /\ item[j].backedUp = (j \in op.existed) /\ item[j].sourceHeld = op.move

\* How far the operation is, and what its records say of it.
Recorded ==
    /\ op.pc \notin {"idle", "end"} => \A j \in Items : item[j].exists = (j \in op.existed)
    /\ op.outcome # "none" <=> op.pc = "end"
    /\ \A j \in Items : item[j].backedUp => item[j].exists
    /\ op.pc \in Early \cup Staging => \A j \in Items : Unflagged(j)
    /\ op.pc \in Early => link /\ op.at = 1
    /\ op.pc = "idle" => ~meddled
    /\ op.pc \in Publishing => \A j \in Items :
         /\ j < op.at => Flagged(j)
         /\ j > op.at => Unflagged(j)
         /\ j = op.at => /\ ~item[j].published
                         /\ item[j].sourceHeld = (op.move /\ op.pc # "hold")
                         /\ item[j].backedUp = (j \in op.existed /\ op.pc = "publish")
    /\ op.pc \in Dropping => \A j \in Items : Flagged(j)
    /\ op.outcome = "done" => \A j \in Items : item[j].published

StagedSoFar(j) ==
    /\ j < op.at => place[j]["stage"] = NewAt(j)
    /\ j > op.at \/ (j = op.at /\ op.pc = "merge") => place[j]["stage"] = Gone
    /\ j = op.at /\ op.pc = "stage" =>
         place[j]["stage"] = IF item[j].kind = "directory" THEN TargetAt(j) ELSE Gone

UndoneSoFar(j) ==
    /\ j < op.at => AsFlagged(j)
    /\ j = op.at => HalfUndone(j)
    /\ j > op.at => op.errors \/ Untouched(j)

\* Where the contents are, as long as nobody else has changed them.
Placed ==
    /\ op.pc \in Early \cup Staging \/ op.outcome \in {"refused", "failed"}
         => \A j \in Items : Untouched(j)
    /\ op.pc \in Early => \A j \in Items : place[j]["stage"] = Gone
    /\ op.pc \in Staging => \A j \in Items : link /\ StagedSoFar(j)
    /\ op.pc \in Publishing => link /\ \A j \in Items :
         AsFlagged(j) /\ (~item[j].published => place[j]["stage"] = NewAt(j))
    /\ op.pc \in Undoing \cup {"scrap"} \/ op.outcome \in {"rollback_failed", "cleanup_failed"}
         => \A j \in Items : Somehow(j)
    /\ op.pc \in Undoing /\ link => \A j \in Items : UndoneSoFar(j)
    /\ op.pc = "scrap" /\ link /\ ~op.errors => \A j \in Items : Untouched(j)
    /\ op.pc \in Dropping \/ op.outcome = "done" => \A j \in Items : Succeeded(j)

FileInv == FileTypeOK /\ Recorded /\ (~meddled => Placed)

OpRow   == [pc : OpPC, move : BOOLEAN, overwrite : BOOLEAN, at : Items, existed : SUBSET Items,
            errors : BOOLEAN, outcome : Outcomes]
ItemRow == [kind : {"file", "directory"}, exists : BOOLEAN, published : BOOLEAN,
            backedUp : BOOLEAN, sourceHeld : BOOLEAN]
Paths   == [Spots -> Content]
----------------------------------------------------------------------------
(* Contents. *)

LEMMA ContentMeans ==
  \A c : c \in Content <=>
    \E D \in SUBSET {"a", "b", "c", "f"} : c \in [D -> {"new", "old", "late"}]
BY DEF Content

LEMMA ContentClosed ==
  /\ Gone \in Content
  /\ \A k \in {"file", "directory"} : SourceOf(k) \in Content /\ TargetOf(k) \in Content
  /\ \A n \in {"f", "a"} : [x \in {n} |-> "late"] \in Content
  /\ \A c, d \in Content : Merged(c, d) \in Content
  /\ \A c \in Content : \A D \in SUBSET DOMAIN c : [n \in D |-> c[n]] \in Content
<1>1. Gone \in Content
  <2>1. Gone \in [{} -> {"new", "old", "late"}] BY DEF Gone
  <2> QED BY <2>1, ContentMeans
<1>2. ASSUME NEW k \in {"file", "directory"}
      PROVE  SourceOf(k) \in Content /\ TargetOf(k) \in Content
  <2>1. SourceOf(k) \in [IF k = "file" THEN {"f"} ELSE {"a", "b"} -> {"new", "old", "late"}]
    BY DEF SourceOf
  <2>2. TargetOf(k) \in [IF k = "file" THEN {"f"} ELSE {"b", "c"} -> {"new", "old", "late"}]
    BY DEF TargetOf
  <2>3. (IF k = "file" THEN {"f"} ELSE {"a", "b"}) \in SUBSET {"a", "b", "c", "f"} OBVIOUS
  <2>4. (IF k = "file" THEN {"f"} ELSE {"b", "c"}) \in SUBSET {"a", "b", "c", "f"} OBVIOUS
  <2> QED BY <2>1, <2>2, <2>3, <2>4, ContentMeans
<1>3. ASSUME NEW n \in {"f", "a"} PROVE [x \in {n} |-> "late"] \in Content
  <2>1. [x \in {n} |-> "late"] \in [{n} -> {"new", "old", "late"}] OBVIOUS
  <2>2. {n} \in SUBSET {"a", "b", "c", "f"} OBVIOUS
  <2> QED BY <2>1, <2>2, ContentMeans
<1>4. ASSUME NEW c \in Content, NEW d \in Content PROVE Merged(c, d) \in Content
  <2>1. PICK D \in SUBSET {"a", "b", "c", "f"} : c \in [D -> {"new", "old", "late"}] BY ContentMeans
  <2>2. PICK F \in SUBSET {"a", "b", "c", "f"} : d \in [F -> {"new", "old", "late"}] BY ContentMeans
  <2>3. Merged(c, d) \in [D \cup F -> {"new", "old", "late"}] BY <2>1, <2>2 DEF Merged
  <2>4. D \cup F \in SUBSET {"a", "b", "c", "f"} OBVIOUS
  <2> QED BY <2>3, <2>4, ContentMeans
<1>5. ASSUME NEW c \in Content, NEW F \in SUBSET DOMAIN c PROVE [n \in F |-> c[n]] \in Content
  <2>1. PICK D \in SUBSET {"a", "b", "c", "f"} : c \in [D -> {"new", "old", "late"}] BY ContentMeans
  <2>2. [n \in F |-> c[n]] \in [F -> {"new", "old", "late"}] BY <2>1
  <2>3. F \in SUBSET {"a", "b", "c", "f"} BY <2>1
  <2> QED BY <2>2, <2>3, ContentMeans
<1> QED BY <1>1, <1>2, <1>3, <1>4, <1>5

\* None of the contents is empty, nothing merged into nothing is a change, and a
\* late version is in none.
LEMMA ContentFacts ==
  /\ \A k : SourceOf(k) # Gone /\ TargetOf(k) # Gone
  /\ \A c : Merged(SourceOf(c), Gone) = SourceOf(c)
  /\ \A k, c : Merged(SourceOf(k), c) # Gone
<1> DEFINE empty == DOMAIN Gone = {}
<1>1. empty BY DEF Gone
<1>2. \A k : DOMAIN SourceOf(k) # {} /\ DOMAIN TargetOf(k) # {} BY DEF SourceOf, TargetOf
<1>3. \A k, c : DOMAIN Merged(SourceOf(k), c) # {} BY <1>2 DEF Merged
<1>4. ASSUME NEW k PROVE Merged(SourceOf(k), Gone) = SourceOf(k)
  <2>1. Merged(SourceOf(k), Gone)
          = [n \in DOMAIN SourceOf(k) \cup {} |-> IF n \in DOMAIN SourceOf(k) THEN SourceOf(k)[n] ELSE Gone[n]]
    BY <1>1 DEF Merged
  <2>2. SourceOf(k) = [n \in DOMAIN SourceOf(k) |-> SourceOf(k)[n]] BY DEF SourceOf
  <2>3. DOMAIN SourceOf(k) \cup {} = DOMAIN SourceOf(k) OBVIOUS
  <2> QED BY <2>1, <2>2, <2>3
<1> QED BY <1>1, <1>2, <1>3, <1>4

LateIn(c) == "late" \in {c[n] : n \in DOMAIN c}

LEMMA NeverLate ==
  /\ ~LateIn(Gone)
  /\ \A k : ~LateIn(SourceOf(k)) /\ ~LateIn(TargetOf(k))
  /\ \A c, d : ~LateIn(c) /\ ~LateIn(d) => ~LateIn(Merged(c, d))
BY DEF LateIn, Gone, SourceOf, TargetOf, Merged

\* Renames between the paths of one item.
LEMMA LayoutMoves ==
  ASSUME NEW paths \in Paths, NEW s, NEW t, NEW n, NEW p, NEW b, NEW h,
         LayoutOf(paths, s, t, n, p, b, h)
  PROVE  /\ h = FALSE => LayoutOf(Move(paths, "source", "held"), s, t, n, p, b, TRUE)
         /\ h = TRUE => LayoutOf(Move(paths, "held", "source"), s, t, n, p, b, FALSE)
         /\ p = FALSE /\ b = FALSE => LayoutOf(Move(paths, "target", "backup"), s, t, n, FALSE, TRUE, h)
         /\ p = FALSE /\ b = TRUE => LayoutOf(Move(paths, "backup", "target"), s, t, n, FALSE, FALSE, h)
         /\ p = FALSE /\ (b = TRUE \/ t = Gone) /\ paths["stage"] = n
              => LayoutOf(Move(paths, "stage", "target"), s, t, n, TRUE, b, h)
         /\ p = TRUE /\ (b = TRUE \/ t = Gone) => LayoutOf(Move(paths, "target", "stage"), s, t, n, FALSE, b, h)
         /\ Move(paths, "source", "held")["stage"] = paths["stage"]
         /\ Move(paths, "target", "backup")["stage"] = paths["stage"]
<1>1. \A x, y \in Spots : x # y =>
        /\ Move(paths, x, y)[y] = paths[x] /\ Move(paths, x, y)[x] = Gone
        /\ \A z \in Spots \ {x, y} : Move(paths, x, y)[z] = paths[z]
  BY DEF Move, Paths
<1>2. /\ paths["source"] = IF h THEN Gone ELSE s
      /\ paths["held"]   = IF h THEN s ELSE Gone
      /\ paths["target"] = IF p THEN n ELSE IF b THEN Gone ELSE t
      /\ paths["backup"] = IF b THEN t ELSE Gone
      /\ p => paths["stage"] = Gone
  BY DEF LayoutOf
<1> USE DEF Spots
<1>3. ~h => LayoutOf(Move(paths, "source", "held"), s, t, n, p, b, TRUE) BY <1>1, <1>2 DEF LayoutOf
<1>4. h => LayoutOf(Move(paths, "held", "source"), s, t, n, p, b, FALSE) BY <1>1, <1>2 DEF LayoutOf
<1>5. ~p /\ ~b => LayoutOf(Move(paths, "target", "backup"), s, t, n, FALSE, TRUE, h)
  BY <1>1, <1>2 DEF LayoutOf
<1>6. ~p /\ b => LayoutOf(Move(paths, "backup", "target"), s, t, n, FALSE, FALSE, h)
  BY <1>1, <1>2 DEF LayoutOf
<1>7. ~p /\ (b \/ t = Gone) /\ paths["stage"] = n
        => LayoutOf(Move(paths, "stage", "target"), s, t, n, TRUE, b, h)
  BY <1>1, <1>2 DEF LayoutOf
<1>8. p /\ (b \/ t = Gone) => LayoutOf(Move(paths, "target", "stage"), s, t, n, FALSE, b, h)
  BY <1>1, <1>2 DEF LayoutOf
<1>9. /\ Move(paths, "source", "held")["stage"] = paths["stage"]
      /\ Move(paths, "target", "backup")["stage"] = paths["stage"]
  BY <1>1
<1> QED BY <1>3, <1>4, <1>5, <1>6, <1>7, <1>8, <1>9

LEMMA MoveTyped ==
  ASSUME NEW paths \in Paths, NEW x \in Spots, NEW y \in Spots
  PROVE  Move(paths, x, y) \in Paths
BY ContentClosed DEF Move, Paths

----------------------------------------------------------------------------
(* What every step leaves alone. *)

SameItems ==
    /\ op'.existed = op.existed /\ op'.move = op.move
    /\ \A j \in Items : item'[j].kind = item[j].kind

LEMMA SameContents ==
  ASSUME SameItems, NEW j \in Items
  PROVE  SourceAt(j)' = SourceAt(j) /\ TargetAt(j)' = TargetAt(j) /\ NewAt(j)' = NewAt(j)
BY DEF SameItems, SourceAt, TargetAt, NewAt

LEMMA LayoutKept ==
  ASSUME SameItems, NEW j \in Items, place'[j] = place[j]
  PROVE  \A p, b, h : Layout(j, p, b, h)' <=> Layout(j, p, b, h)
<1>1. SourceAt(j)' = SourceAt(j) /\ TargetAt(j)' = TargetAt(j) /\ NewAt(j)' = NewAt(j) BY SameContents
<1>2. op'.existed = op.existed BY DEF SameItems
<1> QED BY <1>1, <1>2 DEF Layout, LayoutOf

LEMMA LayoutRestaged ==
  ASSUME SameItems, NEW j \in Items, \A s \in Spots \ {"stage"} : place'[j][s] = place[j][s]
  PROVE  \A b, h : Layout(j, FALSE, b, h) => Layout(j, FALSE, b, h)'
<1>1. SourceAt(j)' = SourceAt(j) /\ TargetAt(j)' = TargetAt(j) /\ NewAt(j)' = NewAt(j) BY SameContents
<1>2. op'.existed = op.existed BY DEF SameItems
<1> QED BY <1>1, <1>2 DEF Layout, LayoutOf, Spots

\* A rename that was allowed leads from one layout to the next.
LEMMA LayoutMoved ==
  ASSUME SameItems, NEW j \in Items, NEW paths \in Paths, place'[j] = paths,
         NEW p, NEW b, NEW h,
         LayoutOf(paths, SourceAt(j), TargetAt(j), NewAt(j), p, b, h), b => j \in op.existed,
         p => (j \in op.existed => b)
  PROVE  Layout(j, p, b, h)'
<1>1. SourceAt(j)' = SourceAt(j) /\ TargetAt(j)' = TargetAt(j) /\ NewAt(j)' = NewAt(j) BY SameContents
<1>2. op'.existed = op.existed BY DEF SameItems
<1> QED BY <1>1, <1>2 DEF Layout, LayoutOf

LEMMA RowsTyped ==
  ASSUME FileTypeOK
  PROVE  /\ op \in OpRow /\ item \in [Items -> ItemRow] /\ place \in [Items -> Paths]
         /\ 1 \in Items /\ MaxItems \in Items /\ op.at \in 1..MaxItems
         /\ \A pc \in OpPC : GoTo(pc) \in OpRow
         /\ RollBack \in OpRow /\ NextUndone \in OpRow
         /\ \A pc \in OpPC, at \in Items : [op EXCEPT !.pc = pc, !.at = at] \in OpRow
         /\ \A o \in Outcomes : [op EXCEPT !.pc = "end", !.outcome = o] \in OpRow
         /\ [NextUndone EXCEPT !.errors = TRUE] \in OpRow
<1>1. op \in OpRow /\ item \in [Items -> ItemRow] /\ place \in [Items -> Paths]
  BY DEF FileTypeOK, OpRow, ItemRow, Paths
<1>2. 1 \in Items /\ MaxItems \in Items BY TransferAssumption DEF Items
<1>3. op.at \in Items BY <1>1 DEF OpRow
<1>4. \A pc \in OpPC : GoTo(pc) \in OpRow BY <1>1 DEF GoTo, OpRow
<1>5. \A pc \in OpPC, at \in Items : [op EXCEPT !.pc = pc, !.at = at] \in OpRow BY <1>1 DEF OpRow
<1>6. \A r \in OpRow, e \in BOOLEAN : [r EXCEPT !.errors = e] \in OpRow BY DEF OpRow
<1>7. RollBack \in OpRow
  <2>1. "undoPublish" \in OpPC BY DEF OpPC
  <2> QED BY <1>1, <1>2, <2>1 DEF RollBack, OpRow
<1>8. NextUndone \in OpRow
  <2>1. "scrap" \in OpPC /\ "undoPublish" \in OpPC BY DEF OpPC
  <2>2. CASE op.at = 1 BY <2>1, <2>2, <1>4 DEF NextUndone
  <2>3. CASE op.at # 1
    <3>1. op.at - 1 \in Items BY <2>3, <1>3, TransferAssumption DEF Items
    <3> QED BY <2>1, <2>3, <3>1, <1>5 DEF NextUndone
  <2> QED BY <2>2, <2>3
<1>9. \A o \in Outcomes : [op EXCEPT !.pc = "end", !.outcome = o] \in OpRow
  <2>1. "end" \in OpPC BY DEF OpPC
  <2> QED BY <2>1, <1>1 DEF OpRow
<1> QED BY <1>1, <1>2, <1>3, <1>4, <1>5, <1>6, <1>7, <1>8, <1>9 DEF Items

LEMMA FileInvParts ==
  ASSUME FileInv
  PROVE  FileTypeOK /\ Recorded /\ (~meddled => Placed)
BY DEF FileInv

\* A failure on the way starts the rollback with the last record.
LEMMA RollBackStarts ==
  ASSUME FileTypeOK, Recorded, op.pc \in Staging \cup Publishing, op' = RollBack, item' = item,
         ~meddled => \A j \in Items : Somehow(j)' /\ (link' => AsFlagged(j)'),
         meddled' = meddled
  PROVE  SameItems /\ Recorded' /\ (~meddled' => Placed')
<1>1. op \in OpRow /\ MaxItems \in Nat /\ Items = 1..MaxItems
  BY RowsTyped, TransferAssumption DEF Items
<1>2. /\ op'.pc = "undoPublish" /\ op'.at = MaxItems /\ ~op'.errors /\ op'.existed = op.existed
      /\ op'.move = op.move /\ op'.outcome = op.outcome
  BY <1>1 DEF RollBack, OpRow
<1>3. SameItems BY <1>2 DEF SameItems
<1>4. op.outcome = "none" BY DEF Recorded, Staging, Publishing
<1>5. Recorded' BY <1>2, <1>4 DEF Recorded, Early, Staging, Publishing, Dropping
<1>6. ASSUME ~meddled PROVE Placed'
  <2>1. \A j \in Items : AsFlagged(j)' => HalfUndone(j)' BY <1>2 DEF AsFlagged, HalfUndone
  <2>2. \A j \in Items : ~(j > op'.at) BY <1>1, <1>2
  <2>3. link' => \A j \in Items : UndoneSoFar(j)' BY <1>6, <2>1, <2>2 DEF UndoneSoFar
  <2> QED BY <1>2, <1>4, <1>6, <2>3 DEF Placed, Early, Staging, Publishing, Undoing, Dropping
<1> QED BY <1>3, <1>5, <1>6

\* A record is done with: the rollback goes on to the one before, or ends.
LEMMA UndoGoesOn ==
  ASSUME FileTypeOK, Recorded, op.pc \in Undoing, item' = item, meddled' = meddled,
         op' \in {NextUndone, [NextUndone EXCEPT !.errors = TRUE]},
         ~meddled => \A j \in Items :
           /\ Somehow(j)'
           /\ link' => /\ j < op.at => AsFlagged(j)'
                       /\ j >= op.at => op'.errors \/ Untouched(j)'
  PROVE  SameItems /\ Recorded' /\ (~meddled' => Placed')
<1>1. op \in OpRow /\ op.at \in 1..MaxItems /\ MaxItems \in Nat /\ Items = 1..MaxItems
      /\ NextUndone \in OpRow
  BY RowsTyped, TransferAssumption DEF Items
<1>2. /\ NextUndone.existed = op.existed /\ NextUndone.move = op.move
      /\ NextUndone.outcome = op.outcome
      /\ op.at = 1 => NextUndone.pc = "scrap"
      /\ op.at # 1 => NextUndone.pc = "undoPublish" /\ NextUndone.at = op.at - 1
  BY <1>1 DEF NextUndone, GoTo, OpRow
<1>3. /\ op'.existed = op.existed /\ op'.move = op.move /\ op'.outcome = op.outcome
      /\ op.at = 1 => op'.pc = "scrap"
      /\ op.at # 1 => op'.pc = "undoPublish" /\ op'.at = op.at - 1
  BY <1>1, <1>2 DEF OpRow
<1>4. SameItems BY <1>3 DEF SameItems
<1>5. op.outcome = "none" BY DEF Recorded, Undoing
<1>6. op'.pc \in {"scrap", "undoPublish"} BY <1>3
<1>7. Recorded' BY <1>3, <1>5, <1>6 DEF Recorded, Early, Staging, Publishing, Dropping, Undoing
<1>8. ASSUME ~meddled PROVE Placed'
  <2>1. CASE op.at = 1
    <3>1. link' /\ ~op'.errors => \A j \in Items : Untouched(j)' BY <1>1, <1>8, <2>1
    <3> QED BY <1>3, <1>5, <1>8, <2>1, <3>1
         DEF Placed, Early, Staging, Publishing, Undoing, Dropping
  <2>2. CASE op.at # 1
    <3>1. op'.pc = "undoPublish" /\ op'.at = op.at - 1 BY <1>3, <2>2
    <3>2. \A j \in Items : AsFlagged(j)' => HalfUndone(j)' BY <3>1 DEF AsFlagged, HalfUndone
    <3>3. \A j \in Items : /\ j <= op'.at => j < op.at
                           /\ j > op'.at => j >= op.at
      BY <1>1, <3>1
    <3>4. link' => \A j \in Items : UndoneSoFar(j)'
      <4> SUFFICES ASSUME link', NEW j \in Items PROVE UndoneSoFar(j)' OBVIOUS
      <4>1. j < op'.at => AsFlagged(j)' BY <1>8, <3>1, <3>3, <1>1
      <4>2. j = op'.at => HalfUndone(j)' BY <1>8, <3>1, <3>2, <3>3, <1>1
      <4>3. j > op'.at => op'.errors \/ Untouched(j)' BY <1>8, <3>3
      <4> QED BY <4>1, <4>2, <4>3 DEF UndoneSoFar
    <3> QED BY <3>1, <1>5, <1>3, <1>8, <3>4
         DEF Placed, Early, Staging, Publishing, Undoing, Dropping
  <2> QED BY <2>1, <2>2
<1> QED BY <1>4, <1>7, <1>8

----------------------------------------------------------------------------
(* The steps. *)

LEMMA FileInvInit == ASSUME FileInit PROVE FileInv
<1>1. PICK existing \in SUBSET Items, move \in BOOLEAN, overwrite \in BOOLEAN :
        /\ place = [i \in Items |-> [s \in Spots |->
                      CASE s = "source" -> SourceOf(item[i].kind)
                        [] s = "target" /\ i \in existing -> TargetOf(item[i].kind)
                        [] OTHER -> Gone]]
        /\ op = [pc |-> "idle", move |-> move, overwrite |-> overwrite, at |-> 1,
                 existed |-> existing, errors |-> FALSE, outcome |-> "none"]
  BY DEF FileInit
<1>2. \A i \in Items : /\ item[i] \in ItemRow /\ item[i].kind \in {"file", "directory"}
                       /\ Unflagged(i)
  <2> TAKE i \in Items
  <2>1. PICK k \in {"file", "directory"} : item[i] = [NoItem EXCEPT !.kind = k] BY DEF FileInit
  <2> QED BY <2>1 DEF NoItem, ItemRow, Unflagged
<1>3. item \in [Items -> ItemRow] BY <1>2 DEF FileInit
<1>4. \A i \in Items : /\ place[i] \in Paths /\ place[i]["source"] = SourceOf(item[i].kind)
                       /\ place[i]["target"] = IF i \in existing THEN TargetOf(item[i].kind) ELSE Gone
                       /\ place[i]["held"] = Gone /\ place[i]["backup"] = Gone
                       /\ place[i]["stage"] = Gone
  <2> TAKE i \in Items
  <2>1. place[i] = [s \in Spots |->
                      CASE s = "source" -> SourceOf(item[i].kind)
                        [] s = "target" /\ i \in existing -> TargetOf(item[i].kind)
                        [] OTHER -> Gone]
    BY <1>1
  <2>2. SourceOf(item[i].kind) \in Content /\ TargetOf(item[i].kind) \in Content /\ Gone \in Content
    BY <1>2, ContentClosed
  <2>3. \A s \in Spots : place[i][s] \in Content BY <2>1, <2>2
  <2> QED BY <2>1, <2>3 DEF Paths, Spots
<1>5. place \in [Items -> Paths] BY <1>1, <1>4
<1>6. 1 \in Items BY TransferAssumption DEF Items
<1>7. FileTypeOK
  BY <1>1, <1>3, <1>5, <1>6 DEF FileTypeOK, ItemRow, Paths, OpPC, Outcomes, FileInit
<1>8. Recorded
  BY <1>1, <1>2 DEF Recorded, Unflagged, Early, Staging, Publishing, Dropping, FileInit
<1>9. \A j \in Items : Untouched(j)
  BY <1>1, <1>4 DEF Untouched, Layout, LayoutOf, SourceAt, TargetAt
<1>10. Placed
  BY <1>1, <1>4, <1>9 DEF Placed, Early, Staging, Publishing, Undoing, Dropping
<1> QED BY <1>7, <1>8, <1>10 DEF FileInv

LEMMA CheckKeeps == ASSUME FileInv, CheckTransfer PROVE FileInv'
<1>1. /\ op.pc = "idle" /\ UNCHANGED <<place, link, meddled>>
      /\ item' = [i \in Items |-> [item[i] EXCEPT !.exists = place[i]["target"] # Gone]]
      /\ \/ op' = [op EXCEPT !.pc = "end", !.outcome = "refused"]
         \/ op' = GoTo("mkdir")
  BY DEF CheckTransfer
<1>2. FileTypeOK /\ Recorded /\ (~meddled => Placed) BY FileInvParts
<1>3. op \in OpRow /\ item \in [Items -> ItemRow] BY <1>2, RowsTyped
<1>4. op' \in OpRow BY <1>1, <1>2, RowsTyped DEF OpPC, Outcomes
<1>5. /\ op'.existed = op.existed /\ op'.move = op.move
      /\ \/ op'.pc = "end" /\ op'.outcome = "refused"
         \/ op'.pc = "mkdir" /\ op'.outcome = op.outcome
      /\ op'.at = op.at
  BY <1>1, <1>3 DEF OpRow, GoTo
<1>6. \A j \in Items : /\ item'[j] \in ItemRow /\ item'[j].kind = item[j].kind
                       /\ item'[j].published = item[j].published
                       /\ item'[j].backedUp = item[j].backedUp
                       /\ item'[j].sourceHeld = item[j].sourceHeld
                       /\ item'[j].exists = (place[j]["target"] # Gone)
  BY <1>1, <1>3 DEF ItemRow
<1>7. item' \in [Items -> ItemRow] BY <1>1, <1>6
<1>8. FileTypeOK' BY <1>1, <1>2, <1>4, <1>7 DEF FileTypeOK, OpRow, ItemRow
<1>9. SameItems BY <1>5, <1>6 DEF SameItems
<1>10. \A j \in Items : Unflagged(j) /\ Unflagged(j)'
  BY <1>1, <1>2, <1>6 DEF Recorded, Unflagged, Early
<1>11. Recorded'
  <2>1. \A j \in Items : Untouched(j) /\ ~meddled
    BY <1>1, <1>2 DEF Recorded, Placed, Early
  <2>2. \A j \in Items : item'[j].exists = (j \in op.existed)
    BY <1>6, <2>1, ContentFacts DEF Untouched, Layout, LayoutOf, TargetAt
  <2>3. link' /\ op.outcome = "none" /\ op.at = 1 BY <1>1, <1>2 DEF Recorded, Early
  <2> QED BY <1>5, <1>10, <2>2, <2>3
       DEF Recorded, Unflagged, Early, Staging, Publishing, Dropping
<1>12. ASSUME ~meddled PROVE Placed'
  <2>1. \A j \in Items : Untouched(j) /\ place[j]["stage"] = Gone
    BY <1>1, <1>2, <1>12 DEF Placed, Early
  <2>2. \A j \in Items : Untouched(j)' BY <1>1, <1>9, <2>1, LayoutKept DEF Untouched
  <2>3. op.outcome = "none" BY <1>1, <1>2 DEF Recorded
  <2> QED BY <1>1, <1>5, <2>1, <2>2, <2>3
       DEF Placed, Early, Staging, Publishing, Undoing, Dropping
<1> QED BY <1>1, <1>8, <1>11, <1>12 DEF FileInv

LEMMA RefuseKeeps == ASSUME FileInv, RefuseTransfer PROVE FileInv'
<1>1. /\ op.pc \in Early /\ UNCHANGED <<place, item, meddled>>
      /\ op' = [op EXCEPT !.pc = "end", !.outcome = "refused"] /\ link' \in {FALSE, link}
  BY DEF RefuseTransfer, Fails, Early
<1>2. FileTypeOK /\ Recorded /\ (~meddled => Placed) BY FileInvParts
<1>3. op \in OpRow /\ op' \in OpRow BY <1>1, <1>2, RowsTyped DEF Outcomes
<1>4. /\ op'.existed = op.existed /\ op'.move = op.move
      /\ op'.pc = "end" /\ op'.outcome = "refused"
  BY <1>1, <1>3 DEF OpRow
<1>5. FileTypeOK' BY <1>1, <1>2, <1>3 DEF FileTypeOK, OpRow
<1>6. SameItems BY <1>1, <1>4 DEF SameItems
<1>7. Recorded'
  <2>1. \A j \in Items : Unflagged(j) BY <1>1, <1>2 DEF Recorded
  <2> QED BY <1>1, <1>4, <2>1 DEF Recorded, Unflagged, Early, Staging, Publishing, Dropping
<1>8. ASSUME ~meddled PROVE Placed'
  <2>1. \A j \in Items : Untouched(j) BY <1>1, <1>2, <1>8 DEF Placed
  <2>2. \A j \in Items : Untouched(j)' BY <1>1, <1>6, <2>1, LayoutKept DEF Untouched
  <2> QED BY <1>4, <2>2 DEF Placed, Early, Staging, Publishing, Undoing, Dropping
<1> QED BY <1>1, <1>5, <1>7, <1>8 DEF FileInv

LEMMA MakeKeeps == ASSUME FileInv, MakeTransaction PROVE FileInv'
<1>1. /\ op.pc = "mkdir" /\ UNCHANGED <<place, item, meddled>>
      /\ op' = GoTo("merge") /\ link' = TRUE
  BY DEF MakeTransaction, Answered
<1>2. FileTypeOK /\ Recorded /\ (~meddled => Placed) BY FileInvParts
<1>3. op \in OpRow /\ op' \in OpRow /\ op.at \in 1..MaxItems
  BY <1>1, <1>2, RowsTyped DEF OpPC
<1>4. op' = [op EXCEPT !.pc = "merge"] BY <1>1 DEF GoTo
<1>5. FileTypeOK' BY <1>1, <1>2, <1>3 DEF FileTypeOK, OpRow
<1>6. /\ op'.existed = op.existed /\ op'.move = op.move /\ op'.pc = "merge"
      /\ op'.outcome = op.outcome /\ op'.at = op.at
  BY <1>3, <1>4 DEF OpRow
<1>7. SameItems BY <1>1, <1>6 DEF SameItems
<1>8. Recorded'
  <2>1. \A j \in Items : Unflagged(j) /\ item[j].exists = (j \in op.existed)
    BY <1>1, <1>2 DEF Recorded, Early
  <2>2. op.outcome = "none" BY <1>1, <1>2 DEF Recorded
  <2> QED BY <1>1, <1>6, <2>1, <2>2 DEF Recorded, Unflagged, Early, Staging, Publishing, Dropping
<1>9. ASSUME ~meddled PROVE Placed'
  <2>1. \A j \in Items : Untouched(j) /\ place[j]["stage"] = Gone
    BY <1>1, <1>2, <1>9 DEF Placed, Early
  <2>2. \A j \in Items : Untouched(j)' BY <1>1, <1>7, <2>1, LayoutKept DEF Untouched
  <2>3. op.at = 1 BY <1>1, <1>2 DEF Recorded, Early
  <2>4. \A j \in Items : ~(j < op.at) BY <2>3 DEF Items
  <2>5. \A j \in Items : StagedSoFar(j)' BY <1>1, <1>6, <2>1, <2>4 DEF StagedSoFar
  <2>6. op.outcome = "none" BY <1>1, <1>2 DEF Recorded
  <2> QED BY <1>1, <1>6, <2>2, <2>5, <2>6
       DEF Placed, Early, Staging, Publishing, Undoing, Dropping
<1> QED BY <1>1, <1>5, <1>8, <1>9 DEF FileInv


LEMMA Restaged ==
  ASSUME FileTypeOK, NEW i \in Items, NEW c \in Content,
         place' = [place EXCEPT ![i]["stage"] = c]
  PROVE  /\ place' \in [Items -> Paths] /\ place'[i]["stage"] = c
         /\ \A j \in Items \ {i} : place'[j] = place[j]
         /\ \A j \in Items : \A s \in Spots \ {"stage"} : place'[j][s] = place[j][s]
BY DEF FileTypeOK, Paths, Spots

\* The copy of item i stays incomplete.
LEMMA StagingFails ==
  ASSUME FileTypeOK, Recorded, ~meddled => Placed, op.pc \in Staging, op' = RollBack,
         UNCHANGED <<item, meddled>>, link' \in BOOLEAN, place' \in [Items -> Paths],
         \A j \in Items : \A s \in Spots \ {"stage"} : place'[j][s] = place[j][s]
  PROVE  FileInv'
<1>1. op \in OpRow /\ op' \in OpRow BY RowsTyped
<1>2. FileTypeOK' BY <1>1 DEF FileTypeOK, OpRow, Paths
<1>3. op'.existed = op.existed /\ op'.move = op.move BY <1>1 DEF RollBack, OpRow
<1>4. SameItems BY <1>3 DEF SameItems
<1>5. ASSUME ~meddled, NEW j \in Items PROVE Somehow(j)' /\ AsFlagged(j)'
  <2>1. Unflagged(j) BY DEF Recorded
  <2>2. item[j].published = FALSE /\ item[j].backedUp = FALSE /\ item[j].sourceHeld = FALSE
    BY <2>1 DEF Unflagged, FileTypeOK
  <2>3. Layout(j, FALSE, FALSE, FALSE) BY <1>5 DEF Placed, Untouched
  <2>4. Layout(j, FALSE, FALSE, FALSE)' BY <1>4, <2>3, LayoutRestaged
  <2> QED BY <2>2, <2>4 DEF Somehow, AsFlagged
<1>6. Recorded' /\ (~meddled' => Placed') BY <1>5, RollBackStarts
<1> QED BY <1>2, <1>6 DEF FileInv

LEMMA StageTargetKeeps == ASSUME FileInv, StageTarget PROVE FileInv'
<1> DEFINE i == op.at
<1>1. op.pc = "merge" /\ UNCHANGED <<item, meddled>> BY DEF StageTarget
<1>2. FileTypeOK /\ Recorded /\ (~meddled => Placed) BY FileInvParts
<1>3. op \in OpRow /\ i \in Items /\ place \in [Items -> Paths] /\ link \in BOOLEAN
      /\ op.at \in 1..MaxItems /\ MaxItems \in Nat
  BY <1>2, RowsTyped, TransferAssumption DEF Items, FileTypeOK
<1>4. \A s \in Spots : place[i][s] \in Content BY <1>3 DEF Paths
<1>5. CASE op' = RollBack
  <2>1. link' \in BOOLEAN
    BY <1>3, <1>5, <1>1 DEF StageTarget, Fails, Answered
  <2>2. op'.pc # "stage" BY <1>3, <1>5 DEF RollBack, OpRow
  <2>3. GoTo("stage").pc = "stage" BY <1>3 DEF GoTo, OpRow
  <2>4. PICK c \in {Gone, place[i]["target"]} : place' = [place EXCEPT ![i]["stage"] = c]
    BY <1>5, <2>2, <2>3 DEF StageTarget
  <2>5. c \in Content BY <1>4, <2>4, ContentClosed DEF Spots
  <2>6. place' \in [Items -> Paths] /\ \A j \in Items : \A s \in Spots \ {"stage"} : place'[j][s] = place[j][s]
    BY <1>2, <1>3, <2>4, <2>5, Restaged
  <2> QED BY <1>1, <1>2, <1>5, <2>1, <2>6, StagingFails DEF Staging
<1>6. CASE op' # RollBack
  <2>1. /\ op' = GoTo("stage")
        /\ \/ ~(item[i].exists /\ item[i].kind = "directory") /\ UNCHANGED <<place, link>>
           \/ /\ item[i].exists /\ item[i].kind = "directory" /\ link /\ link' = TRUE
              /\ place' = [place EXCEPT ![i]["stage"] = place[i]["target"]]
    BY <1>6 DEF StageTarget, Answered
  <2>2. /\ place' \in [Items -> Paths]
        /\ \A j \in Items \ {i} : place'[j] = place[j]
        /\ \A j \in Items : \A s \in Spots \ {"stage"} : place'[j][s] = place[j][s]
        /\ ~(item[i].exists /\ item[i].kind = "directory") => place'[i]["stage"] = place[i]["stage"]
        /\ item[i].exists /\ item[i].kind = "directory" => place'[i]["stage"] = place[i]["target"]
    <3>1. place[i]["target"] \in Content BY <1>4 DEF Spots
    <3> QED BY <1>2, <1>3, <2>1, <3>1, Restaged
  <2>3. op' \in OpRow /\ op' = [op EXCEPT !.pc = "stage"]
    BY <1>2, <2>1, RowsTyped DEF GoTo, OpPC
  <2>4. /\ op'.existed = op.existed /\ op'.move = op.move /\ op'.pc = "stage"
        /\ op'.outcome = op.outcome /\ op'.at = op.at
    BY <1>3, <2>3 DEF OpRow
  <2>5. FileTypeOK' BY <1>1, <1>2, <2>1, <2>2, <2>3 DEF FileTypeOK, OpRow, Paths
  <2>6. SameItems BY <1>1, <2>4 DEF SameItems
  <2>7. op.outcome = "none" /\ \A j \in Items : Unflagged(j) /\ item[j].exists = (j \in op.existed)
    BY <1>1, <1>2 DEF Recorded, Staging
  <2>8. Recorded'
    BY <1>1, <2>4, <2>7 DEF Recorded, Unflagged, Early, Staging, Publishing, Dropping
  <2>9. ASSUME ~meddled PROVE Placed'
    <3>1. link /\ \A j \in Items : Untouched(j) /\ StagedSoFar(j)
      BY <1>1, <1>2, <1>3, <2>9 DEF Placed, Staging
    <3>2. \A j \in Items : Untouched(j)' BY <2>6, <2>2, <3>1, LayoutRestaged DEF Untouched
    <3>3. place[i]["target"] = TargetAt(i) BY <1>3, <3>1 DEF Untouched, Layout, LayoutOf
    <3>4. place[i]["stage"] = Gone BY <1>1, <1>3, <3>1 DEF StagedSoFar
    <3>5. item[i].exists = (i \in op.existed) BY <1>3, <2>7
    <3>6. place'[i]["stage"] = IF item[i].kind = "directory" THEN TargetAt(i) ELSE Gone
      BY <2>2, <3>3, <3>4, <3>5 DEF TargetAt
    <3>7. ASSUME NEW j \in Items PROVE StagedSoFar(j)'
      <4>1. NewAt(j)' = NewAt(j) /\ TargetAt(j)' = TargetAt(j) BY <2>6, SameContents
      <4>2. j # i => place'[j] = place[j] BY <2>2
      <4>3. j < op.at \/ j > op.at => j # i BY <1>3 DEF Items
      <4>4. item'[j] = item[j] BY <1>1
      <4> QED BY <2>4, <3>1, <3>6, <4>1, <4>2, <4>3, <4>4 DEF StagedSoFar
    <3>8. link' BY <2>1, <3>1
    <3> QED BY <2>4, <2>7, <3>2, <3>7, <3>8
         DEF Placed, Early, Staging, Publishing, Undoing, Dropping
  <2> QED BY <1>1, <2>5, <2>8, <2>9 DEF FileInv
<1> QED BY <1>5, <1>6

LEMMA StageSourceKeeps == ASSUME FileInv, StageSource PROVE FileInv'
<1> DEFINE i == op.at
<1>1. op.pc = "stage" /\ UNCHANGED <<item, meddled>> BY DEF StageSource
<1>2. FileTypeOK /\ Recorded /\ (~meddled => Placed) BY FileInvParts
<1>3. op \in OpRow /\ i \in Items /\ place \in [Items -> Paths] /\ link \in BOOLEAN
      /\ op.at \in 1..MaxItems /\ MaxItems \in Nat
  BY <1>2, RowsTyped, TransferAssumption DEF Items, FileTypeOK
<1>4. \A s \in Spots : place[i][s] \in Content BY <1>3 DEF Paths
<1>5. CASE op' = RollBack /\ Fails
               /\ \E U \in SUBSET DOMAIN place[i]["source"] :
                    place' = [place EXCEPT ![i]["stage"] =
                                Merged([n \in U |-> place[i]["source"][n]], @)]
  <2>1. link' \in BOOLEAN BY <1>3, <1>5 DEF Fails
  <2>2. PICK U \in SUBSET DOMAIN place[i]["source"] :
          place' = [place EXCEPT ![i]["stage"] = Merged([n \in U |-> place[i]["source"][n]], @)]
    BY <1>5
  <2>3. place' = [place EXCEPT ![i]["stage"] =
                    Merged([n \in U |-> place[i]["source"][n]], place[i]["stage"])]
    BY <1>3, <2>2 DEF Paths, Spots
  <2>4. Merged([n \in U |-> place[i]["source"][n]], place[i]["stage"]) \in Content
    BY <1>4, ContentClosed DEF Spots
  <2>5. place' \in [Items -> Paths] /\ \A j \in Items : \A s \in Spots \ {"stage"} : place'[j][s] = place[j][s]
    BY <1>2, <1>3, <2>3, <2>4, Restaged
  <2> QED BY <1>1, <1>2, <1>5, <2>1, <2>5, StagingFails DEF Staging
<1>6. CASE /\ link /\ link' = TRUE
           /\ place' = [place EXCEPT ![i]["stage"] = Merged(place[i]["source"], @)]
           /\ op' = IF i = MaxItems THEN [op EXCEPT !.pc = "hold", !.at = 1]
                    ELSE [op EXCEPT !.pc = "merge", !.at = i + 1]
  <2>1. place' = [place EXCEPT ![i]["stage"] = Merged(place[i]["source"], place[i]["stage"])]
    BY <1>3, <1>6 DEF Paths, Spots
  <2>2. Merged(place[i]["source"], place[i]["stage"]) \in Content BY <1>4, ContentClosed DEF Spots
  <2>3. /\ place' \in [Items -> Paths]
        /\ \A j \in Items \ {i} : place'[j] = place[j]
        /\ \A j \in Items : \A s \in Spots \ {"stage"} : place'[j][s] = place[j][s]
        /\ place'[i]["stage"] = Merged(place[i]["source"], place[i]["stage"])
    BY <1>2, <1>3, <2>1, <2>2, Restaged
  <2>4. 1 \in Items /\ (i # MaxItems => i + 1 \in Items) BY <1>3, TransferAssumption DEF Items
  <2>5. op' \in OpRow
    BY <1>2, <1>6, <2>4, RowsTyped DEF OpPC
  <2>6. /\ op'.existed = op.existed /\ op'.move = op.move /\ op'.outcome = op.outcome
        /\ i = MaxItems => op'.pc = "hold" /\ op'.at = 1
        /\ i # MaxItems => op'.pc = "merge" /\ op'.at = i + 1
    BY <1>3, <1>6 DEF OpRow
  <2>7. FileTypeOK' BY <1>1, <1>2, <1>6, <2>3, <2>5 DEF FileTypeOK, OpRow, Paths
  <2>8. SameItems BY <1>1, <2>6 DEF SameItems
  <2>9. op.outcome = "none" /\ \A j \in Items : Unflagged(j) /\ item[j].exists = (j \in op.existed)
    BY <1>1, <1>2 DEF Recorded, Staging
  <2>10. op'.pc \in {"hold", "merge"} /\ (op'.pc = "hold" => op'.at = 1) BY <2>6
  <2>11. \A j \in Items : ~(j < 1) BY DEF Items
  <2>12. \A j \in Items : item[j].sourceHeld = FALSE /\ item[j].backedUp = FALSE /\ item[j].published = FALSE
    BY <1>2, <2>9 DEF Unflagged, FileTypeOK
  <2>13. Recorded'
    BY <1>1, <2>6, <2>9, <2>10, <2>11, <2>12
       DEF Recorded, Unflagged, Early, Staging, Publishing, Dropping
  <2>14. ASSUME ~meddled PROVE Placed'
    <3>1. \A j \in Items : Untouched(j) /\ StagedSoFar(j)
      BY <1>1, <1>2, <2>14 DEF Placed, Staging
    <3>2. \A j \in Items : Untouched(j)' BY <2>8, <2>3, <3>1, LayoutRestaged DEF Untouched
    <3>3. place[i]["source"] = SourceAt(i) BY <1>3, <3>1 DEF Untouched, Layout, LayoutOf
    <3>4. place[i]["stage"] = IF item[i].kind = "directory" THEN TargetAt(i) ELSE Gone
      BY <1>1, <1>3, <3>1 DEF StagedSoFar
    <3>5. Merged(SourceAt(i), Gone) = SourceAt(i) BY ContentFacts DEF SourceAt
    <3>6. place'[i]["stage"] = NewAt(i) BY <2>3, <3>3, <3>4, <3>5 DEF NewAt, TargetAt
    <3>7. \A j \in Items : j < i + 1 => place'[j]["stage"] = NewAt(j)
      <4> SUFFICES ASSUME NEW j \in Items, j < i + 1 PROVE place'[j]["stage"] = NewAt(j) OBVIOUS
      <4>1. CASE j = i BY <3>6, <4>1
      <4>2. CASE j # i
        <5>1. j < i BY <1>3, <4>2 DEF Items
        <5> QED BY <2>3, <3>1, <4>2, <5>1 DEF StagedSoFar
      <4> QED BY <4>1, <4>2
    <3>8. \A j \in Items : j > i => place'[j]["stage"] = Gone
      <4> SUFFICES ASSUME NEW j \in Items, j > i PROVE place'[j]["stage"] = Gone OBVIOUS
      <4>1. j # i BY <1>3 DEF Items
      <4> QED BY <2>3, <3>1, <4>1 DEF StagedSoFar
    <3>9. \A j \in Items : NewAt(j)' = NewAt(j) BY <2>8, SameContents
    <3>10. CASE i = MaxItems
      <4>1. \A j \in Items : j < i + 1 BY <1>3, <3>10 DEF Items
      <4>2. \A j \in Items : place'[j]["stage"] = NewAt(j)' BY <3>7, <3>9, <4>1
      <4>3. \A j \in Items : AsFlagged(j)' BY <1>1, <2>12, <3>2 DEF AsFlagged, Untouched
      <4>4. op'.pc = "hold" /\ op'.outcome = "none" /\ link' BY <1>6, <2>6, <2>9, <3>10
      <4> QED BY <4>2, <4>3, <4>4 DEF Placed, Early, Staging, Publishing, Undoing, Dropping
    <3>11. CASE i # MaxItems
      <4>1. op'.pc = "merge" /\ op'.at = i + 1 /\ op'.outcome = "none" /\ link'
        BY <1>6, <2>6, <2>9, <3>11
      <4>2. \A j \in Items : j > i + 1 \/ j = i + 1 => j > i BY <1>3 DEF Items
      <4>3. \A j \in Items : StagedSoFar(j)' BY <3>7, <3>8, <3>9, <4>1, <4>2 DEF StagedSoFar
      <4> QED BY <3>2, <4>1, <4>3 DEF Placed, Early, Staging, Publishing, Undoing, Dropping
    <3> QED BY <3>10, <3>11
  <2> QED BY <1>1, <2>7, <2>13, <2>14 DEF FileInv
<1> QED BY <1>5, <1>6 DEF StageSource, Answered
----------------------------------------------------------------------------
(* The publication. *)

LEMMA Renamed ==
  ASSUME FileTypeOK, NEW i \in Items, NEW x \in Spots, NEW y \in Spots,
         place' = [place EXCEPT ![i] = Move(@, x, y)]
  PROVE  /\ place' \in [Items -> Paths] /\ place'[i] = Move(place[i], x, y)
         /\ \A j \in Items \ {i} : place'[j] = place[j]
<1>1. place \in [Items -> Paths] BY RowsTyped
<1>2. Move(place[i], x, y) \in Paths BY <1>1, MoveTyped
<1> QED BY <1>1, <1>2

LEMMA FlagsTyped ==
  ASSUME NEW r \in ItemRow
  PROVE  /\ [r EXCEPT !.sourceHeld = TRUE] \in ItemRow
         /\ [r EXCEPT !.backedUp = TRUE] \in ItemRow
         /\ [r EXCEPT !.published = TRUE] \in ItemRow
BY DEF ItemRow

LEMMA PublishingParts ==
  ASSUME FileInv, op.pc \in Publishing
  PROVE  /\ op.outcome = "none" /\ op.at \in Items
         /\ \A j \in Items : item[j].exists = (j \in op.existed)
         /\ ~meddled => link /\ \A j \in Items :
              /\ Layout(j, item[j].published, item[j].backedUp, item[j].sourceHeld)
              /\ ~item[j].published => place[j]["stage"] = NewAt(j)
<1>1. FileTypeOK /\ Recorded /\ (~meddled => Placed) BY FileInvParts
<1>2. op.at \in Items BY <1>1, RowsTyped DEF Items
<1>3. op.outcome = "none" /\ \A j \in Items : item[j].exists = (j \in op.existed)
  BY <1>1 DEF Recorded, Publishing
<1> QED BY <1>1, <1>2, <1>3 DEF Placed, AsFlagged

\* A step fails, its rename done or not.
LEMMA PublicationFails ==
  ASSUME FileInv, op.pc \in Publishing, NEW i \in Items, op' = RollBack, UNCHANGED <<item, meddled>>,
         \/ link' \in {FALSE, link} /\ place' = place
         \/ /\ link' = FALSE /\ place' \in [Items -> Paths]
            /\ \A j \in Items \ {i} : place'[j] = place[j]
            /\ ~meddled => Somehow(i)'
  PROVE  FileInv'
<1>1. FileTypeOK /\ Recorded /\ (~meddled => Placed) BY FileInvParts
<1>2. op \in OpRow /\ op' \in OpRow /\ place \in [Items -> Paths] BY <1>1, RowsTyped
<1>3. FileTypeOK' BY <1>1, <1>2 DEF FileTypeOK, OpRow, Paths
<1>4. op'.existed = op.existed /\ op'.move = op.move BY <1>2 DEF RollBack, OpRow
<1>5. SameItems BY <1>4 DEF SameItems
<1>6. ASSUME ~meddled, NEW j \in Items PROVE Somehow(j)' /\ (link' => AsFlagged(j)')
  <2>1. item[j].published \in BOOLEAN /\ item[j].backedUp \in BOOLEAN /\ item[j].sourceHeld \in BOOLEAN
    BY <1>1 DEF FileTypeOK
  <2>2. Layout(j, item[j].published, item[j].backedUp, item[j].sourceHeld)
    BY <1>6, PublishingParts
  <2>3. CASE place'[j] = place[j]
    <3>1. Layout(j, item[j].published, item[j].backedUp, item[j].sourceHeld)'
            <=> Layout(j, item[j].published, item[j].backedUp, item[j].sourceHeld)'
      OBVIOUS
    <3>2. \A p, b, h : Layout(j, p, b, h)' <=> Layout(j, p, b, h)
      BY <1>5, <2>3, LayoutKept
    <3>3. AsFlagged(j)' BY <2>1, <2>2, <3>2 DEF AsFlagged
    <3>4. Somehow(j)' BY <2>1, <2>2, <3>2 DEF Somehow
    <3> QED BY <3>3, <3>4
  <2>4. CASE place'[j] # place[j] BY <1>6, <2>4
  <2> QED BY <2>3, <2>4
<1>7. Recorded' /\ (~meddled' => Placed') BY <1>1, <1>6, RollBackStarts
<1> QED BY <1>3, <1>7 DEF FileInv

\* A step succeeds, and the publication goes on.
LEMMA PublicationGoesOn ==
  ASSUME FileInv, op.pc \in Publishing, NEW i \in Items, meddled' = meddled,
         op' \in OpRow, op'.pc \in Publishing, op'.outcome = op.outcome, SameItems,
         item' \in [Items -> ItemRow], place' \in [Items -> Paths], link' \in {link, TRUE},
         \A j \in Items \ {i} : place'[j] = place[j] /\ item'[j] = item[j],
         item'[i].exists = item[i].exists, item'[i].backedUp => item[i].exists,
         \A j \in Items :
           /\ j < op'.at => Flagged(j)'
           /\ j > op'.at => Unflagged(j)'
           /\ j = op'.at => /\ ~item'[j].published
                            /\ item'[j].sourceHeld = (op.move /\ op'.pc # "hold")
                            /\ item'[j].backedUp = (j \in op.existed /\ op'.pc = "publish"),
         ~meddled => /\ Layout(i, item[i].published, item[i].backedUp, item[i].sourceHeld)'
                     /\ ~item'[i].published => place'[i]["stage"] = NewAt(i)
  PROVE  FileInv'
<1>1. FileTypeOK /\ Recorded /\ (~meddled => Placed) BY FileInvParts
<1>2. FileTypeOK' BY <1>1 DEF FileTypeOK, OpRow, ItemRow, Paths
<1>3. op'.existed = op.existed /\ op'.move = op.move BY DEF SameItems
<1>4. op.outcome = "none" /\ \A j \in Items : item[j].exists = (j \in op.existed)
  BY PublishingParts
<1>5. \A j \in Items : item'[j].exists = (j \in op'.existed) BY <1>3, <1>4
<1>6. \A j \in Items : item'[j].backedUp => item'[j].exists
  <2> TAKE j \in Items
  <2>1. item[j].backedUp => item[j].exists BY <1>1 DEF Recorded
  <2> QED BY <2>1
<1>7. Recorded'
  BY <1>3, <1>4, <1>5, <1>6 DEF Recorded, Early, Staging, Publishing, Dropping
<1>8. ASSUME ~meddled PROVE Placed'
  <2>1. link /\ \A j \in Items :
          /\ Layout(j, item[j].published, item[j].backedUp, item[j].sourceHeld)
          /\ ~item[j].published => place[j]["stage"] = NewAt(j)
    BY <1>8, PublishingParts
  <2>2. ASSUME NEW j \in Items
        PROVE  AsFlagged(j)' /\ (~item'[j].published => place'[j]["stage"] = NewAt(j)')
    <3>1. NewAt(j)' = NewAt(j) BY SameContents
    <3>2. CASE j = i BY <1>8, <3>1, <3>2 DEF AsFlagged
    <3>3. CASE j # i
      <4>1. place'[j] = place[j] /\ item'[j] = item[j] BY <3>3
      <4>2. \A p, b, h : Layout(j, p, b, h)' <=> Layout(j, p, b, h)
        BY <4>1, LayoutKept
      <4>3. item[j].published \in BOOLEAN /\ item[j].backedUp \in BOOLEAN /\ item[j].sourceHeld \in BOOLEAN
        BY <1>1 DEF FileTypeOK
      <4> QED BY <2>1, <3>1, <4>1, <4>2, <4>3 DEF AsFlagged
    <3> QED BY <3>2, <3>3
  <2> QED BY <1>4, <2>1, <2>2 DEF Placed, Early, Staging, Publishing, Undoing, Dropping
<1> QED BY <1>2, <1>7, <1>8 DEF FileInv

LEMMA HoldKeeps == ASSUME FileInv, HoldSource PROVE FileInv'
<1>0. PICK i \in Items : i = op.at BY FileInvParts, RowsTyped DEF Items
<1>1. /\ op.pc = "hold" /\ meddled' = meddled
      /\ \/ ~op.move /\ op' = GoTo("backup") /\ UNCHANGED <<place, item, link>>
         \/ /\ op.move /\ link /\ link' = TRUE
            /\ place' = [place EXCEPT ![i] = Move(@, "source", "held")]
            /\ item' = [item EXCEPT ![i] = [item[op.at] EXCEPT !.sourceHeld = TRUE]]
            /\ op' = GoTo("backup")
         \/ /\ op.move /\ link' = FALSE
            /\ place' = [place EXCEPT ![i] = Move(@, "source", "held")]
            /\ op' = RollBack /\ UNCHANGED item
         \/ op.move /\ link' \in {FALSE, link} /\ op' = RollBack /\ UNCHANGED <<place, item>>
  BY <1>0 DEF HoldSource, Publication, Answered, Unanswered, Fails
<1>2. FileTypeOK /\ Recorded BY FileInvParts
<1>3. op.pc \in Publishing BY <1>1 DEF Publishing
<1>4. /\ op \in OpRow /\ i \in Items /\ place \in [Items -> Paths] /\ item \in [Items -> ItemRow]
      /\ op.at = i /\ op.move \in BOOLEAN
  BY <1>0, <1>2, RowsTyped DEF Items, OpRow
<1>5. /\ ~item[i].published /\ ~item[i].sourceHeld /\ ~item[i].backedUp
      /\ \A j \in Items : /\ j < op.at => Flagged(j)
                          /\ j > op.at => Unflagged(j)
  BY <1>1, <1>2, <1>3, <1>4 DEF Recorded
<1>6. item[i].published = FALSE /\ item[i].sourceHeld = FALSE /\ item[i].backedUp = FALSE
  BY <1>4, <1>5 DEF ItemRow
<1>7. "source" \in Spots /\ "held" \in Spots BY DEF Spots
<1>8. ASSUME ~meddled
      PROVE  /\ Layout(i, FALSE, FALSE, FALSE) /\ place[i]["stage"] = NewAt(i)
             /\ LayoutOf(Move(place[i], "source", "held"), SourceAt(i), TargetAt(i), NewAt(i), FALSE, FALSE, TRUE)
             /\ Move(place[i], "source", "held")["stage"] = NewAt(i)
  <2>1. Layout(i, FALSE, FALSE, FALSE) /\ place[i]["stage"] = NewAt(i)
    BY <1>3, <1>4, <1>6, <1>8, PublishingParts
  <2>2. place[i] \in Paths /\ LayoutOf(place[i], SourceAt(i), TargetAt(i), NewAt(i), FALSE, FALSE, FALSE)
    BY <1>4, <2>1 DEF Layout
  <2> QED BY <2>1, <2>2, LayoutMoves
<1>9. CASE /\ op' = GoTo("backup")
           /\ \/ ~op.move /\ UNCHANGED <<place, item, link>>
              \/ /\ op.move /\ link' = TRUE
                 /\ place' = [place EXCEPT ![i] = Move(@, "source", "held")]
                 /\ item' = [item EXCEPT ![i] = [item[op.at] EXCEPT !.sourceHeld = TRUE]]
  <2>1. op' \in OpRow BY <1>2, <1>9, RowsTyped DEF OpPC
  <2>2. /\ op'.existed = op.existed /\ op'.move = op.move /\ op'.pc = "backup"
        /\ op'.outcome = op.outcome /\ op'.at = op.at
    BY <1>4, <1>9 DEF OpRow, GoTo
  <2>3. /\ item' \in [Items -> ItemRow]
        /\ \A j \in Items \ {i} : item'[j] = item[j]
        /\ item'[i].kind = item[i].kind /\ item'[i].exists = item[i].exists
        /\ item'[i].published = FALSE /\ item'[i].backedUp = FALSE
        /\ item'[i].sourceHeld = op.move
    <3>1. CASE op.move
      <4>1. op.move = TRUE BY <1>4, <3>1
      <4>2. item' = [item EXCEPT ![i] = [item[i] EXCEPT !.sourceHeld = TRUE]] BY <1>4, <1>9, <3>1
      <4>3. item[i] \in ItemRow /\ [item[i] EXCEPT !.sourceHeld = TRUE] \in ItemRow
        BY <1>4, FlagsTyped
      <4> QED BY <1>4, <1>6, <4>1, <4>2, <4>3 DEF ItemRow
    <3>2. CASE ~op.move
      <4>1. op.move = FALSE BY <1>4, <3>2
      <4> QED BY <1>4, <1>6, <1>9, <3>2, <4>1 DEF ItemRow
    <3> QED BY <3>1, <3>2
  <2>4. SameItems BY <1>4, <2>2, <2>3 DEF SameItems
  <2>5. /\ place' \in [Items -> Paths]
        /\ \A j \in Items \ {i} : place'[j] = place[j]
        /\ op.move => place'[i] = Move(place[i], "source", "held")
        /\ ~op.move => place'[i] = place[i]
    BY <1>2, <1>4, <1>7, <1>9, Renamed
  <2>6. \A j \in Items :
           /\ j < op'.at => Flagged(j)'
           /\ j > op'.at => Unflagged(j)'
    <3> TAKE j \in Items
    <3>1. j < op.at \/ j > op.at => j # i BY <1>4 DEF Items
    <3> QED BY <1>5, <2>2, <2>3, <3>1 DEF Flagged, Unflagged
  <2>7. ASSUME ~meddled
        PROVE  /\ Layout(i, item[i].published, item[i].backedUp, item[i].sourceHeld)'
               /\ place'[i]["stage"] = NewAt(i)
    <3>1. CASE op.move
      <4>1. Layout(i, FALSE, FALSE, TRUE)'
        BY <1>4, <1>8, <2>4, <2>5, <2>7, <3>1, LayoutMoved
      <4>2. item'[i].sourceHeld = TRUE BY <2>3, <3>1
      <4> QED BY <1>8, <2>2, <2>3, <2>5, <2>7, <3>1, <4>1, <4>2
    <3>2. CASE ~op.move
      <4>1. Layout(i, FALSE, FALSE, FALSE)'
        BY <1>4, <1>8, <2>4, <2>5, <2>7, <3>2, LayoutKept
      <4>2. item'[i].sourceHeld = FALSE BY <1>4, <2>3, <3>2 DEF OpRow
      <4> QED BY <1>8, <2>2, <2>3, <2>5, <2>7, <3>2, <4>1, <4>2
    <3> QED BY <3>1, <3>2
  <2>8. op'.pc \in Publishing BY <2>2 DEF Publishing
  <2>9. \A j \in Items : j = op'.at =>
          /\ ~item'[j].published
          /\ item'[j].sourceHeld = (op.move /\ op'.pc # "hold")
          /\ item'[j].backedUp = (j \in op.existed /\ op'.pc = "publish")
    BY <1>4, <2>2, <2>3
  <2>10. link' \in {link, TRUE} BY <1>9
  <2> QED BY <1>1, <1>3, <1>4, <2>1, <2>2, <2>3, <2>4, <2>5, <2>6, <2>7, <2>8, <2>9, <2>10,
             PublicationGoesOn
<1>10. CASE op' = RollBack
  <2>1. UNCHANGED item
    <3>1. RollBack.pc = "undoPublish" /\ GoTo("backup").pc = "backup"
      BY <1>4 DEF RollBack, GoTo, OpRow
    <3> QED BY <1>1, <1>10, <3>1
  <2>2. \/ link' \in {FALSE, link} /\ place' = place
        \/ link' = FALSE /\ place' = [place EXCEPT ![i] = Move(@, "source", "held")]
    <3>1. RollBack.pc = "undoPublish" /\ GoTo("backup").pc = "backup"
      BY <1>4 DEF RollBack, GoTo, OpRow
    <3> QED BY <1>1, <1>10, <3>1
  <2>3. CASE link' \in {FALSE, link} /\ place' = place
    BY <1>1, <1>3, <1>4, <1>10, <2>1, <2>3, PublicationFails
  <2>4. CASE link' = FALSE /\ place' = [place EXCEPT ![i] = Move(@, "source", "held")]
    <3>1. /\ place' \in [Items -> Paths]
          /\ \A j \in Items \ {i} : place'[j] = place[j]
          /\ place'[i] = Move(place[i], "source", "held")
      BY <1>2, <1>4, <1>7, <2>4, Renamed
    <3>2. SameItems
      <4>1. op'.existed = op.existed /\ op'.move = op.move BY <1>4, <1>10 DEF RollBack, OpRow
      <4> QED BY <2>1, <4>1 DEF SameItems
    <3>3. ASSUME ~meddled PROVE Somehow(i)'
      <4>1. Layout(i, FALSE, FALSE, TRUE)' BY <1>4, <1>8, <3>1, <3>2, <3>3, LayoutMoved
      <4> QED BY <4>1 DEF Somehow
    <3> QED BY <1>1, <1>3, <1>4, <1>10, <2>1, <2>4, <3>1, <3>3, PublicationFails
  <2> QED BY <2>2, <2>3, <2>4
<1> QED BY <1>1, <1>9, <1>10

LEMMA BackupKeeps == ASSUME FileInv, BackupTarget PROVE FileInv'
<1>0. PICK i \in Items : i = op.at BY FileInvParts, RowsTyped DEF Items
<1>1. /\ op.pc = "backup" /\ meddled' = meddled
      /\ \/ ~item[i].exists /\ op' = GoTo("publish") /\ UNCHANGED <<place, item, link>>
         \/ /\ item[i].exists /\ link /\ link' = TRUE
            /\ place' = [place EXCEPT ![i] = Move(@, "target", "backup")]
            /\ item' = [item EXCEPT ![i] = [item[i] EXCEPT !.backedUp = TRUE]]
            /\ op' = GoTo("publish")
         \/ /\ item[i].exists /\ link' = FALSE
            /\ place' = [place EXCEPT ![i] = Move(@, "target", "backup")]
            /\ op' = RollBack /\ UNCHANGED item
         \/ item[i].exists /\ link' \in {FALSE, link} /\ op' = RollBack /\ UNCHANGED <<place, item>>
  BY <1>0 DEF BackupTarget, Publication, Answered, Unanswered, Fails
<1>2. FileTypeOK /\ Recorded BY FileInvParts
<1>3. op.pc \in Publishing BY <1>1 DEF Publishing
<1>4. /\ op \in OpRow /\ i \in Items /\ place \in [Items -> Paths] /\ item \in [Items -> ItemRow]
      /\ op.at = i /\ op.move \in BOOLEAN
  BY <1>0, <1>2, RowsTyped DEF Items, OpRow
<1>5. /\ ~item[i].published /\ item[i].sourceHeld = op.move /\ ~item[i].backedUp
      /\ \A j \in Items : /\ j < op.at => Flagged(j)
                          /\ j > op.at => Unflagged(j)
  BY <1>1, <1>2, <1>3, <1>4 DEF Recorded
<1> PICK h : item[i].sourceHeld = h OBVIOUS
<1>6. /\ item[i].published = FALSE /\ item[i].sourceHeld = h /\ item[i].backedUp = FALSE
      /\ h = op.move /\ item[i].exists = (i \in op.existed) /\ item[i].exists \in BOOLEAN
  BY <1>3, <1>4, <1>5, PublishingParts DEF ItemRow
<1>7. "target" \in Spots /\ "backup" \in Spots BY DEF Spots
<1>8. ASSUME ~meddled
      PROVE  /\ Layout(i, FALSE, FALSE, h) /\ place[i]["stage"] = NewAt(i)
             /\ LayoutOf(Move(place[i], "target", "backup"), SourceAt(i), TargetAt(i), NewAt(i), FALSE, TRUE, h)
             /\ Move(place[i], "target", "backup")["stage"] = NewAt(i)
  <2>1. Layout(i, FALSE, FALSE, h) /\ place[i]["stage"] = NewAt(i)
    BY <1>3, <1>4, <1>6, <1>8, PublishingParts
  <2>2. place[i] \in Paths /\ LayoutOf(place[i], SourceAt(i), TargetAt(i), NewAt(i), FALSE, FALSE, h)
    BY <1>4, <2>1 DEF Layout
  <2>3. LayoutOf(Move(place[i], "target", "backup"), SourceAt(i), TargetAt(i), NewAt(i), FALSE, TRUE, h)
    BY <2>2, LayoutMoves
  <2>4. Move(place[i], "target", "backup")["stage"] = place[i]["stage"]
    BY <2>2, LayoutMoves
  <2> QED BY <2>1, <2>3, <2>4
<1>9. CASE /\ op' = GoTo("publish")
           /\ \/ ~item[i].exists /\ UNCHANGED <<place, item, link>>
              \/ /\ item[i].exists /\ link' = TRUE
                 /\ place' = [place EXCEPT ![i] = Move(@, "target", "backup")]
                 /\ item' = [item EXCEPT ![i] = [item[i] EXCEPT !.backedUp = TRUE]]
  <2>1. op' \in OpRow BY <1>2, <1>9, RowsTyped DEF OpPC
  <2>2. /\ op'.existed = op.existed /\ op'.move = op.move /\ op'.pc = "publish"
        /\ op'.outcome = op.outcome /\ op'.at = op.at
    BY <1>4, <1>9 DEF OpRow, GoTo
  <2>3. /\ item' \in [Items -> ItemRow]
        /\ \A j \in Items \ {i} : item'[j] = item[j]
        /\ item'[i].kind = item[i].kind /\ item'[i].exists = item[i].exists
        /\ item'[i].published = FALSE /\ item'[i].sourceHeld = h
        /\ item'[i].backedUp = item[i].exists
    <3>1. CASE item[i].exists
      <4>1. item[i].exists = TRUE BY <1>6, <3>1
      <4>2. item' = [item EXCEPT ![i] = [item[i] EXCEPT !.backedUp = TRUE]] BY <1>4, <1>9, <3>1
      <4>3. item[i] \in ItemRow /\ [item[i] EXCEPT !.backedUp = TRUE] \in ItemRow
        BY <1>4, FlagsTyped
      <4> QED BY <1>4, <1>6, <4>1, <4>2, <4>3 DEF ItemRow
    <3>2. CASE ~item[i].exists
      <4>1. item[i].exists = FALSE BY <1>6, <3>2
      <4> QED BY <1>4, <1>6, <1>9, <3>2, <4>1 DEF ItemRow
    <3> QED BY <3>1, <3>2
  <2>4. SameItems BY <1>4, <2>2, <2>3 DEF SameItems
  <2>5. /\ place' \in [Items -> Paths]
        /\ \A j \in Items \ {i} : place'[j] = place[j]
        /\ item[i].exists => place'[i] = Move(place[i], "target", "backup")
        /\ ~item[i].exists => place'[i] = place[i]
    BY <1>2, <1>4, <1>7, <1>9, Renamed
  <2>6. \A j \in Items :
           /\ j < op'.at => Flagged(j)'
           /\ j > op'.at => Unflagged(j)'
    <3> TAKE j \in Items
    <3>1. j < op.at \/ j > op.at => j # i BY <1>4 DEF Items
    <3> QED BY <1>5, <2>2, <2>3, <3>1 DEF Flagged, Unflagged
  <2>7. ASSUME ~meddled
        PROVE  /\ Layout(i, item[i].published, item[i].backedUp, item[i].sourceHeld)'
               /\ place'[i]["stage"] = NewAt(i)
    <3>1. CASE item[i].exists
      <4>1. Layout(i, FALSE, TRUE, h)'
        BY <1>4, <1>6, <1>8, <2>4, <2>5, <2>7, <3>1, LayoutMoved
      <4>2. item'[i].backedUp = TRUE BY <1>6, <2>3, <3>1
      <4> QED BY <1>8, <2>2, <2>3, <2>5, <2>7, <3>1, <4>1, <4>2
    <3>2. CASE ~item[i].exists
      <4>1. Layout(i, FALSE, FALSE, h)'
        BY <1>4, <1>8, <2>4, <2>5, <2>7, <3>2, LayoutKept
      <4>2. item'[i].backedUp = FALSE BY <1>6, <2>3, <3>2
      <4> QED BY <1>8, <2>2, <2>3, <2>5, <2>7, <3>2, <4>1, <4>2
    <3> QED BY <3>1, <3>2
  <2>8. op'.pc \in Publishing BY <2>2 DEF Publishing
  <2>9. \A j \in Items : j = op'.at =>
          /\ ~item'[j].published
          /\ item'[j].sourceHeld = (op.move /\ op'.pc # "hold")
          /\ item'[j].backedUp = (j \in op.existed /\ op'.pc = "publish")
    BY <1>4, <1>6, <2>2, <2>3
  <2>10. link' \in {link, TRUE} BY <1>9
  <2> QED BY <1>1, <1>3, <1>4, <2>1, <1>6, <2>2, <2>3, <2>4, <2>5, <2>6, <2>7, <2>8, <2>9,
             <2>10, PublicationGoesOn
<1>10. CASE op' = RollBack
  <2>1. UNCHANGED item
    <3>1. RollBack.pc = "undoPublish" /\ GoTo("publish").pc = "publish"
      BY <1>4 DEF RollBack, GoTo, OpRow
    <3> QED BY <1>1, <1>10, <3>1
  <2>5. item[i].exists
    <3>1. RollBack.pc = "undoPublish" /\ GoTo("publish").pc = "publish"
      BY <1>4 DEF RollBack, GoTo, OpRow
    <3> QED BY <1>1, <1>10, <3>1
  <2>2. \/ link' \in {FALSE, link} /\ place' = place
        \/ link' = FALSE /\ place' = [place EXCEPT ![i] = Move(@, "target", "backup")]
    <3>1. RollBack.pc = "undoPublish" /\ GoTo("publish").pc = "publish"
      BY <1>4 DEF RollBack, GoTo, OpRow
    <3> QED BY <1>1, <1>10, <3>1
  <2>3. CASE link' \in {FALSE, link} /\ place' = place
    BY <1>1, <1>3, <1>4, <1>10, <2>1, <2>3, PublicationFails
  <2>4. CASE link' = FALSE /\ place' = [place EXCEPT ![i] = Move(@, "target", "backup")]
    <3>1. /\ place' \in [Items -> Paths]
          /\ \A j \in Items \ {i} : place'[j] = place[j]
          /\ place'[i] = Move(place[i], "target", "backup")
      BY <1>2, <1>4, <1>7, <2>4, Renamed
    <3>2. SameItems
      <4>1. op'.existed = op.existed /\ op'.move = op.move BY <1>4, <1>10 DEF RollBack, OpRow
      <4> QED BY <2>1, <4>1 DEF SameItems
    <3>3. ASSUME ~meddled PROVE Somehow(i)'
      <4>1. Layout(i, FALSE, TRUE, h)' BY <1>4, <1>6, <1>8, <2>5, <3>1, <3>2, <3>3, LayoutMoved
      <4>2. h \in BOOLEAN BY <1>4, <1>6
      <4> QED BY <4>1, <4>2 DEF Somehow
    <3> QED BY <1>1, <1>3, <1>4, <1>10, <2>1, <2>4, <3>1, <3>3, PublicationFails
  <2> QED BY <2>2, <2>3, <2>4
<1> QED BY <1>1, <1>9, <1>10

LEMMA PublishKeeps == ASSUME FileInv, Publish PROVE FileInv'
<1>0. PICK i \in Items : i = op.at BY FileInvParts, RowsTyped DEF Items
<1> DEFINE Next == IF i = MaxItems THEN [op EXCEPT !.pc = "drop", !.at = 1]
                   ELSE [op EXCEPT !.pc = "hold", !.at = i + 1]
<1>1. /\ op.pc = "publish" /\ meddled' = meddled
      /\ \/ /\ link /\ link' = TRUE
            /\ place' = [place EXCEPT ![i] = Move(@, "stage", "target")]
            /\ item' = [item EXCEPT ![i] = [item[i] EXCEPT !.published = TRUE]]
            /\ op' = Next
         \/ /\ link' = FALSE
            /\ place' = [place EXCEPT ![i] = Move(@, "stage", "target")]
            /\ op' = RollBack /\ UNCHANGED item
         \/ link' \in {FALSE, link} /\ op' = RollBack /\ UNCHANGED <<place, item>>
  BY <1>0 DEF Publish, Publication, Answered, Unanswered, Fails
<1>2. FileTypeOK /\ Recorded /\ (~meddled => Placed) BY FileInvParts
<1>3. op.pc \in Publishing BY <1>1 DEF Publishing
<1>4. /\ op \in OpRow /\ i \in Items /\ place \in [Items -> Paths] /\ item \in [Items -> ItemRow]
      /\ op.at = i /\ op.move \in BOOLEAN /\ i \in 1..MaxItems /\ MaxItems \in Nat
  BY <1>0, <1>2, RowsTyped, TransferAssumption DEF Items, OpRow
<1>5. /\ ~item[i].published /\ item[i].sourceHeld = op.move
      /\ item[i].backedUp = (i \in op.existed)
      /\ \A j \in Items : /\ j < op.at => Flagged(j)
                          /\ j > op.at => Unflagged(j)
  BY <1>1, <1>2, <1>3, <1>4 DEF Recorded
<1> PICK h : item[i].sourceHeld = h OBVIOUS
<1> PICK b : item[i].backedUp = b OBVIOUS
<1>6. /\ item[i].published = FALSE /\ item[i].sourceHeld = h /\ item[i].backedUp = b
      /\ h = op.move /\ b = (i \in op.existed) /\ item[i].exists = (i \in op.existed)
      /\ h \in BOOLEAN /\ b \in BOOLEAN /\ op.outcome = "none"
  BY <1>3, <1>4, <1>5, PublishingParts DEF ItemRow
<1>7. "stage" \in Spots /\ "target" \in Spots BY DEF Spots
<1>8. ASSUME ~meddled
      PROVE  LayoutOf(Move(place[i], "stage", "target"), SourceAt(i), TargetAt(i), NewAt(i), TRUE, b, h)
  <2>1. Layout(i, FALSE, b, h) /\ place[i]["stage"] = NewAt(i)
    BY <1>3, <1>4, <1>6, <1>8, PublishingParts
  <2>2. place[i] \in Paths /\ LayoutOf(place[i], SourceAt(i), TargetAt(i), NewAt(i), FALSE, b, h)
    BY <1>4, <2>1 DEF Layout
  <2>3. b = TRUE \/ TargetAt(i) = Gone BY <1>6 DEF TargetAt
  <2> QED BY <2>1, <2>2, <2>3, LayoutMoves
<1>9. ASSUME ~meddled, SameItems, place'[i] = Move(place[i], "stage", "target"), place' \in [Items -> Paths]
      PROVE  Layout(i, TRUE, b, h)'
  BY <1>4, <1>6, <1>8, <1>9, LayoutMoved
<1>10. CASE /\ link' = TRUE
            /\ place' = [place EXCEPT ![i] = Move(@, "stage", "target")]
            /\ item' = [item EXCEPT ![i] = [item[i] EXCEPT !.published = TRUE]]
            /\ op' = Next
  <2>1. op' \in OpRow
    <3>1. 1 \in Items /\ (i # MaxItems => i + 1 \in Items) BY <1>4 DEF Items
    <3> QED BY <1>2, <1>10, <3>1, RowsTyped DEF OpPC
  <2>2. /\ op'.existed = op.existed /\ op'.move = op.move /\ op'.outcome = op.outcome
        /\ i = MaxItems => op'.pc = "drop"
        /\ i # MaxItems => op'.pc = "hold" /\ op'.at = i + 1
    BY <1>4, <1>10 DEF OpRow
  <2>3. /\ item' \in [Items -> ItemRow]
        /\ \A j \in Items \ {i} : item'[j] = item[j]
        /\ item'[i].kind = item[i].kind /\ item'[i].exists = item[i].exists
        /\ item'[i].published = TRUE /\ item'[i].backedUp = b
        /\ item'[i].sourceHeld = h
    <3>1. item[i] \in ItemRow /\ [item[i] EXCEPT !.published = TRUE] \in ItemRow
      BY <1>4, FlagsTyped
    <3> QED BY <1>4, <1>6, <1>10, <3>1 DEF ItemRow
  <2>4. SameItems BY <1>4, <2>2, <2>3 DEF SameItems
  <2>5. /\ place' \in [Items -> Paths]
        /\ \A j \in Items \ {i} : place'[j] = place[j]
        /\ place'[i] = Move(place[i], "stage", "target")
    BY <1>2, <1>4, <1>7, <1>10, Renamed
  <2>6. Flagged(i)' BY <1>6, <2>2, <2>3 DEF Flagged
  <2>7. ASSUME NEW j \in Items
        PROVE  /\ j < i + 1 => Flagged(j)'
               /\ j > i => Unflagged(j)'
    <3>1. CASE j = i BY <2>6, <1>4, <3>1 DEF Items
    <3>2. CASE j # i
      <4>1. j < i + 1 => j < i BY <1>4, <3>2 DEF Items
      <4>2. item'[j] = item[j] BY <2>3, <3>2
      <4> QED BY <1>4, <1>5, <2>2, <4>1, <4>2 DEF Flagged, Unflagged
    <3> QED BY <3>1, <3>2
  <2>8. ASSUME ~meddled PROVE Layout(i, item[i].published, item[i].backedUp, item[i].sourceHeld)'
    BY <1>9, <2>3, <2>4, <2>5, <2>8
  <2>9. CASE i # MaxItems
    <3>1. op'.pc \in Publishing /\ op'.pc = "hold" /\ op'.at = i + 1 BY <2>2, <2>9 DEF Publishing
    <3>2. ASSUME NEW j \in Items
          PROVE  /\ j > op'.at => Unflagged(j)'
                 /\ j < op'.at => Flagged(j)'
                 /\ j = op'.at => /\ ~item'[j].published
                                  /\ item'[j].sourceHeld = (op.move /\ op'.pc # "hold")
                                  /\ item'[j].backedUp = (j \in op.existed /\ op'.pc = "publish")
      <4>1. j > i + 1 \/ j = i + 1 => j > i BY <1>4 DEF Items
      <4>2. item'[j].sourceHeld \in BOOLEAN /\ item'[j].backedUp \in BOOLEAN
        BY <2>3 DEF ItemRow
      <4> QED BY <2>7, <3>1, <4>1, <4>2 DEF Unflagged
    <3>3. link' \in {link, TRUE} BY <1>10
    <3>4. item'[i].backedUp => item[i].exists BY <1>6, <2>3
    <3> QED BY <1>1, <1>3, <1>4, <2>1, <2>2, <2>3, <2>4, <2>5, <2>8, <3>1, <3>2, <3>3, <3>4,
               PublicationGoesOn
  <2>10. CASE i = MaxItems
    <3>1. op'.pc = "drop" /\ op'.outcome = "none" BY <1>6, <2>2, <2>10
    <3>2. \A j \in Items : Flagged(j)'
      <4>1. \A j \in Items : j < i + 1 BY <1>4, <2>10 DEF Items
      <4> QED BY <2>7, <4>1
    <3>3. FileTypeOK' BY <1>1, <1>2, <1>10, <2>1, <2>3, <2>5 DEF FileTypeOK, OpRow, ItemRow, Paths
    <3>4. \A j \in Items : item'[j].exists = (j \in op'.existed)
      BY <1>3, <2>2, <2>3, PublishingParts
    <3>5. Recorded'
      BY <3>1, <3>2, <3>4 DEF Recorded, Flagged, Early, Staging, Publishing, Dropping
    <3>6. ASSUME ~meddled PROVE Placed'
      <4>1. ASSUME NEW j \in Items PROVE Succeeded(j)'
        <5>1. AsFlagged(j)'
          <6>1. CASE j = i BY <2>8, <3>6, <6>1 DEF AsFlagged
          <6>2. CASE j # i
            <7>1. Layout(j, item[j].published, item[j].backedUp, item[j].sourceHeld)
              BY <1>3, <3>6, PublishingParts
            <7>2. place'[j] = place[j] /\ item'[j] = item[j] BY <2>3, <2>5, <6>2
            <7>3. \A x, y, z : Layout(j, x, y, z)' <=> Layout(j, x, y, z)
              BY <2>4, <7>2, LayoutKept
            <7> QED BY <7>1, <7>2, <7>3 DEF AsFlagged
          <6> QED BY <6>1, <6>2
        <5>2. Flagged(j)' BY <3>2
        <5>3. (j \in op.existed)' <=> (j \in op.existed) BY <2>2
        <5> QED BY <5>1, <5>2, <5>3, <2>2 DEF Succeeded, AsFlagged, Flagged, Layout, LayoutOf
      <4> QED BY <3>1, <4>1 DEF Placed, Early, Staging, Publishing, Undoing, Dropping
    <3> QED BY <1>1, <3>3, <3>5, <3>6 DEF FileInv
  <2> QED BY <2>9, <2>10
<1>11. CASE op' = RollBack
  <2>1. RollBack.pc = "undoPublish" /\ Next.pc # "undoPublish"
    BY <1>4 DEF RollBack, OpRow
  <2>2. UNCHANGED item BY <1>1, <1>11, <2>1
  <2>3. \/ link' \in {FALSE, link} /\ place' = place
        \/ link' = FALSE /\ place' = [place EXCEPT ![i] = Move(@, "stage", "target")]
    BY <1>1, <1>11, <2>1
  <2>4. CASE link' \in {FALSE, link} /\ place' = place
    BY <1>1, <1>3, <1>4, <1>11, <2>2, <2>4, PublicationFails
  <2>5. CASE link' = FALSE /\ place' = [place EXCEPT ![i] = Move(@, "stage", "target")]
    <3>1. /\ place' \in [Items -> Paths]
          /\ \A j \in Items \ {i} : place'[j] = place[j]
          /\ place'[i] = Move(place[i], "stage", "target")
      BY <1>2, <1>4, <1>7, <2>5, Renamed
    <3>2. SameItems
      <4>1. op'.existed = op.existed /\ op'.move = op.move BY <1>4, <1>11 DEF RollBack, OpRow
      <4> QED BY <2>2, <4>1 DEF SameItems
    <3>3. ASSUME ~meddled PROVE Somehow(i)'
      <4>1. Layout(i, TRUE, b, h)' BY <1>9, <3>1, <3>2, <3>3
      <4> QED BY <1>6, <4>1 DEF Somehow
    <3> QED BY <1>1, <1>3, <1>4, <1>11, <2>2, <2>5, <3>1, <3>3, PublicationFails
  <2> QED BY <2>3, <2>4, <2>5
<1> QED BY <1>1, <1>10, <1>11
----------------------------------------------------------------------------
(* The rollback, and what comes after. *)

LEMMA UndoingParts ==
  ASSUME FileInv, op.pc \in Undoing
  PROVE  /\ op.outcome = "none"
         /\ ~meddled => \A j \in Items : /\ Somehow(j)
                                         /\ link => UndoneSoFar(j)
<1>1. FileTypeOK /\ Recorded /\ (~meddled => Placed) BY FileInvParts
<1>2. op.outcome = "none" BY <1>1 DEF Recorded, Undoing
<1> QED BY <1>1, <1>2 DEF Placed

\* The record is done with, by its last step or by one that failed.
LEMMA RestorationEnds ==
  ASSUME FileInv, op.pc \in Undoing, NEW i \in Items, i = op.at, UNCHANGED <<item, meddled>>,
         \/ op' = NextUndone /\ NextUndone.errors = op.errors
         \/ op' = [NextUndone EXCEPT !.errors = TRUE],
         link' \in BOOLEAN, link' => link, place' \in [Items -> Paths],
         \A j \in Items \ {i} : place'[j] = place[j],
         SameItems,
         ~meddled => /\ Somehow(i)'
                     /\ link' => op'.errors \/ Untouched(i)'
  PROVE  FileInv'
<1>1. FileTypeOK /\ Recorded /\ (~meddled => Placed) BY FileInvParts
<1>2. op \in OpRow /\ op' \in OpRow /\ NextUndone \in OpRow /\ place \in [Items -> Paths]
      /\ op.at \in 1..MaxItems
  BY <1>1, RowsTyped
<1>3. FileTypeOK' BY <1>1, <1>2 DEF FileTypeOK, OpRow, Paths
<1>4. op.errors => op'.errors BY <1>2 DEF OpRow
<1>5. ASSUME ~meddled, NEW j \in Items
      PROVE  /\ Somehow(j)'
             /\ link' => /\ j < op.at => AsFlagged(j)'
                         /\ j >= op.at => op'.errors \/ Untouched(j)'
  <2>1. CASE j = i
    <3>1. ~(j < op.at) BY <1>2, <2>1 DEF Items
    <3> QED BY <1>5, <2>1, <3>1
  <2>2. CASE j # i
    <3>1. Somehow(j) /\ (link => UndoneSoFar(j)) BY <1>5, UndoingParts
    <3>2. \A p, b, h : Layout(j, p, b, h)' <=> Layout(j, p, b, h) BY <2>2, LayoutKept
    <3>3. AsFlagged(j)' <=> AsFlagged(j) BY <3>2 DEF AsFlagged
    <3>4. Untouched(j)' <=> Untouched(j) BY <3>2 DEF Untouched
    <3>5. j >= op.at => j > op.at BY <1>2, <2>2 DEF Items
    <3>6. Somehow(j)' BY <3>1, <3>2 DEF Somehow
    <3> QED BY <1>4, <3>1, <3>3, <3>4, <3>5, <3>6 DEF UndoneSoFar
  <2> QED BY <2>1, <2>2
<1>6. Recorded' /\ (~meddled' => Placed')
  <2>1. op' \in {NextUndone, [NextUndone EXCEPT !.errors = TRUE]} OBVIOUS
  <2> QED BY <1>1, <1>5, <2>1, UndoGoesOn
<1> QED BY <1>3, <1>6 DEF FileInv

\* The next step of the same record.
LEMMA RestorationGoesOn ==
  ASSUME FileInv, op.pc \in Undoing, NEW i \in Items, i = op.at, UNCHANGED <<item, meddled>>,
         NEW pc \in {"undoBackup", "undoHold"}, op' = GoTo(pc), link' \in BOOLEAN, link' => link,
         place' \in [Items -> Paths], \A j \in Items \ {i} : place'[j] = place[j],
         ~meddled => Somehow(i)' /\ (link' => HalfUndone(i)')
  PROVE  FileInv'
<1>1. FileTypeOK /\ Recorded /\ (~meddled => Placed) BY FileInvParts
<1>2. op \in OpRow /\ op' \in OpRow /\ place \in [Items -> Paths] BY <1>1, RowsTyped DEF OpPC
<1>3. FileTypeOK' BY <1>1, <1>2 DEF FileTypeOK, OpRow, Paths
<1>4. /\ op'.existed = op.existed /\ op'.move = op.move /\ op'.pc = pc
      /\ op'.outcome = op.outcome /\ op'.at = op.at /\ op'.errors = op.errors
  BY <1>2 DEF GoTo, OpRow
<1>5. SameItems BY <1>4 DEF SameItems
<1>6. op.outcome = "none" /\ \A j \in Items : item[j].exists = (j \in op.existed)
  BY <1>1 DEF Recorded, Undoing
<1>7. op'.pc \in Undoing BY <1>4 DEF Undoing
<1>8. Recorded'
  BY <1>1, <1>4, <1>6, <1>7 DEF Recorded, Early, Staging, Publishing, Dropping, Undoing
<1>9. ASSUME ~meddled, NEW j \in Items PROVE Somehow(j)' /\ (link' => UndoneSoFar(j)')
  <2>1. Somehow(j) /\ (link => UndoneSoFar(j)) BY <1>9, UndoingParts
  <2>2. CASE j = i
    <3>1. ~(j < op'.at) /\ ~(j > op'.at)
      <4>1. op'.at = i /\ i \in Nat BY <1>4, TransferAssumption DEF Items
      <4> QED BY <2>2, <4>1
    <3> QED BY <1>9, <2>2, <3>1 DEF UndoneSoFar
  <2>3. CASE j # i
    <3>1. \A p, b, h : Layout(j, p, b, h)' <=> Layout(j, p, b, h) BY <1>5, <2>3, LayoutKept
    <3>2. AsFlagged(j)' <=> AsFlagged(j) BY <3>1 DEF AsFlagged
    <3>3. Untouched(j)' <=> Untouched(j) BY <3>1 DEF Untouched
    <3>4. Somehow(j)' BY <2>1, <3>1 DEF Somehow
    <3> QED BY <1>4, <2>1, <2>3, <3>2, <3>3, <3>4 DEF UndoneSoFar
  <2> QED BY <2>2, <2>3
<1>10. ~meddled => Placed'
  BY <1>6, <1>4, <1>7, <1>9 DEF Placed, Early, Staging, Publishing, Undoing, Dropping
<1> QED BY <1>3, <1>8, <1>10 DEF FileInv

LEMMA NextUndoneFacts ==
  ASSUME FileTypeOK
  PROVE  /\ NextUndone.errors = op.errors /\ NextUndone.existed = op.existed
         /\ NextUndone.move = op.move
         /\ [NextUndone EXCEPT !.errors = TRUE].errors
         /\ [NextUndone EXCEPT !.errors = TRUE].existed = op.existed
         /\ [NextUndone EXCEPT !.errors = TRUE].move = op.move
<1>1. op \in OpRow /\ NextUndone \in OpRow BY RowsTyped
<1>2. /\ NextUndone.errors = op.errors /\ NextUndone.existed = op.existed
      /\ NextUndone.move = op.move
  BY <1>1 DEF NextUndone, GoTo, OpRow
<1> QED BY <1>1, <1>2 DEF OpRow

\* What a step of the rollback does.
LEMMA RestorationMeans ==
  ASSUME FileTypeOK, NEW pc, NEW needed, NEW x, NEW y, NEW next,
         Restoration(pc, needed, x, y, next)
  PROVE  /\ op.pc = pc /\ UNCHANGED <<item, meddled>> /\ link' \in BOOLEAN /\ (link' => link)
         /\ \/ op' = next /\ ~needed /\ place' = place
            \/ op' = next /\ needed /\ link /\ place' = [place EXCEPT ![op.at] = Move(@, x, y)]
            \/ op' = [NextUndone EXCEPT !.errors = TRUE] /\ place' = place
            \/ /\ op' = [NextUndone EXCEPT !.errors = TRUE] /\ needed /\ link
               /\ place' = [place EXCEPT ![op.at] = Move(@, x, y)]
<1>1. link \in BOOLEAN BY DEF FileTypeOK
<1>2. op.pc = pc /\ UNCHANGED <<item, meddled>> BY DEF Restoration
<1>3. CASE ~needed /\ op' = next /\ UNCHANGED <<place, link>> BY <1>1, <1>2, <1>3
<1>4. CASE /\ needed /\ link /\ link' = TRUE
           /\ place' = [place EXCEPT ![op.at] = Move(@, x, y)]
           /\ op' = next
  BY <1>2, <1>4
<1>5. CASE /\ needed /\ link' \in {FALSE, link} /\ place' = place
           /\ op' = [NextUndone EXCEPT !.errors = TRUE]
  <2>1. CASE link' = FALSE BY <1>2, <1>5, <2>1
  <2>2. CASE link' = link BY <1>1, <1>2, <1>5, <2>2
  <2> QED BY <1>5, <2>1, <2>2
<1>6. CASE /\ needed /\ link /\ link' = FALSE
           /\ place' = [place EXCEPT ![op.at] = Move(@, x, y)]
           /\ op' = [NextUndone EXCEPT !.errors = TRUE]
  BY <1>2, <1>6
<1> QED BY <1>3, <1>4, <1>5, <1>6 DEF Restoration, Answered, Unanswered, Fails

\* A step of the rollback: its record is then at its next step, or done with.
LEMMA RestorationKeeps ==
  ASSUME FileInv, NEW now \in Undoing, NEW i \in Items, i = op.at, NEW needed,
         NEW x \in Spots, NEW y \in Spots, NEW next, NEW pc \in {"undoBackup", "undoHold", "next"},
         next = IF pc = "next" THEN NextUndone ELSE GoTo(pc),
         Restoration(now, needed, x, y, next),
         SameItems /\ ~meddled /\ link
           /\ \/ place' = place /\ ~needed
              \/ place' \in [Items -> Paths] /\ place'[i] = Move(place[i], x, y) /\ needed
           => /\ Somehow(i)'
              /\ op' = next => IF pc = "next" THEN Untouched(i)' ELSE HalfUndone(i)'
  PROVE  FileInv'
<1>1. FileTypeOK BY FileInvParts
<1>2. op \in OpRow /\ place \in [Items -> Paths] BY <1>1, RowsTyped
<1>3. /\ op.pc = now /\ UNCHANGED <<item, meddled>> /\ link' \in BOOLEAN /\ (link' => link)
      /\ \/ op' = next /\ ~needed /\ place' = place
         \/ op' = next /\ needed /\ link /\ place' = [place EXCEPT ![i] = Move(@, x, y)]
         \/ op' = [NextUndone EXCEPT !.errors = TRUE] /\ place' = place
         \/ /\ op' = [NextUndone EXCEPT !.errors = TRUE] /\ needed /\ link
            /\ place' = [place EXCEPT ![i] = Move(@, x, y)]
  BY <1>1, RestorationMeans
<1>4. /\ place' \in [Items -> Paths] /\ \A j \in Items \ {i} : place'[j] = place[j]
      /\ place' = place \/ (needed /\ link /\ place'[i] = Move(place[i], x, y))
  <2>1. CASE place' = place BY <1>2, <2>1
  <2>2. CASE place' = [place EXCEPT ![i] = Move(@, x, y)] BY <1>1, <1>3, <2>2, Renamed
  <2> QED BY <1>3, <2>1, <2>2
<1>5. SameItems
  <2>1. op'.existed = op.existed /\ op'.move = op.move
    <3>1. pc # "next" => GoTo(pc).existed = op.existed /\ GoTo(pc).move = op.move
      BY <1>2 DEF GoTo, OpRow
    <3> QED BY <1>1, <1>3, <3>1, NextUndoneFacts
  <2> QED BY <1>3, <2>1 DEF SameItems
<1>6. ASSUME ~meddled PROVE Somehow(i)'
  <2>1. CASE place' = place
    <3>1. Somehow(i) BY <1>3, <1>6, UndoingParts
    <3>2. \A p, b, h : Layout(i, p, b, h)' <=> Layout(i, p, b, h) BY <1>5, <2>1, LayoutKept
    <3> QED BY <3>1, <3>2 DEF Somehow
  <2>2. CASE place' # place
    <3> QED BY <1>4, <1>5, <1>6, <2>2
  <2> QED BY <2>1, <2>2
<1>7. ASSUME ~meddled, link', op' # [NextUndone EXCEPT !.errors = TRUE]
      PROVE  IF pc = "next" THEN Untouched(i)' ELSE HalfUndone(i)'
  BY <1>3, <1>4, <1>5, <1>7
<1>8. CASE op' = [NextUndone EXCEPT !.errors = TRUE]
  <2>1. op'.errors BY <1>1, <1>8, NextUndoneFacts
  <2> QED BY <1>3, <1>4, <1>5, <1>6, <1>8, <2>1, RestorationEnds
<1>9. CASE op' # [NextUndone EXCEPT !.errors = TRUE]
  <2>1. op' = next BY <1>3, <1>9
  <2>2. CASE pc = "next"
    <3>1. op' = NextUndone /\ NextUndone.errors = op.errors
      BY <1>1, <2>1, <2>2, NextUndoneFacts
    <3>2. ~meddled /\ link' => Untouched(i)' BY <1>7, <1>9, <2>2
    <3> QED BY <1>3, <1>4, <1>5, <1>6, <3>1, <3>2, RestorationEnds
  <2>3. CASE pc # "next"
    <3>1. op' = GoTo(pc) /\ pc \in {"undoBackup", "undoHold"} BY <2>1, <2>3
    <3>2. ~meddled /\ link' => HalfUndone(i)' BY <1>7, <1>9, <2>3
    <3> QED BY <1>3, <1>4, <1>6, <3>1, <3>2, RestorationGoesOn
  <2> QED BY <2>2, <2>3
<1> QED BY <1>8, <1>9

LEMMA UndoPublishKeeps == ASSUME FileInv, UndoPublish PROVE FileInv'
<1>0. PICK i \in Items : i = op.at BY FileInvParts, RowsTyped DEF Items
<1>1. FileTypeOK BY FileInvParts
<1> PICK p, b, h : item[i].published = p /\ item[i].backedUp = b /\ item[i].sourceHeld = h OBVIOUS
<1>2. /\ op \in OpRow /\ place \in [Items -> Paths] /\ "target" \in Spots /\ "stage" \in Spots
      /\ p \in BOOLEAN /\ b \in BOOLEAN /\ h \in BOOLEAN
  BY <1>1, RowsTyped DEF ItemRow, Spots
<1>3. Restoration("undoPublish", p, "target", "stage", GoTo("undoBackup")) /\ item' = item
  BY <1>0 DEF UndoPublish, Restoration
<1>4. op.pc = "undoPublish" /\ "undoPublish" \in Undoing BY <1>3 DEF Restoration, Undoing
<1>5. ASSUME ~meddled, link PROVE Layout(i, p, b, h)
  <2>1. HalfUndone(i) BY <1>0, <1>4, <1>5, UndoingParts DEF UndoneSoFar
  <2> QED BY <1>4, <2>1 DEF HalfUndone
<1>6. ASSUME SameItems, ~meddled, link
      PROVE  /\ place' = place /\ ~p => Layout(i, FALSE, b, h)'
             /\ place' \in [Items -> Paths] /\ place'[i] = Move(place[i], "target", "stage") /\ p
                  => Layout(i, FALSE, b, h)'
  <2>1. Layout(i, p, b, h) BY <1>5, <1>6
  <2>2. ASSUME place' = place, ~p PROVE Layout(i, FALSE, b, h)'
    <3>1. p = FALSE BY <1>2, <2>2
    <3>2. Layout(i, FALSE, b, h) BY <2>1, <3>1
    <3> QED BY <1>6, <2>2, <3>2, LayoutKept
  <2>3. ASSUME place' \in [Items -> Paths], place'[i] = Move(place[i], "target", "stage"), p
        PROVE  Layout(i, FALSE, b, h)'
    <3>1. p = TRUE BY <1>2, <2>3
    <3>2. Layout(i, TRUE, b, h) BY <2>1, <3>1
    <3>3. /\ place[i] \in Paths /\ LayoutOf(place[i], SourceAt(i), TargetAt(i), NewAt(i), TRUE, b, h)
          /\ (b => i \in op.existed) /\ (b = TRUE \/ TargetAt(i) = Gone)
      BY <1>2, <3>2 DEF Layout, TargetAt
    <3>4. LayoutOf(Move(place[i], "target", "stage"), SourceAt(i), TargetAt(i), NewAt(i), FALSE, b, h)
      BY <3>3, LayoutMoves
    <3> QED BY <1>6, <2>3, <3>3, <3>4, LayoutMoved
  <2> QED BY <2>2, <2>3
<1>7. Layout(i, FALSE, b, h)' => Somehow(i)' /\ (op' = GoTo("undoBackup") => HalfUndone(i)')
  <2>1. Layout(i, FALSE, b, h)' => Somehow(i)' BY <1>2 DEF Somehow
  <2>2. ASSUME Layout(i, FALSE, b, h)', op' = GoTo("undoBackup") PROVE HalfUndone(i)'
    <3>1. op'.pc = "undoBackup" BY <1>2, <2>2 DEF GoTo, OpRow
    <3>2. item' = item BY <1>3
    <3> QED BY <1>2, <2>2, <3>1, <3>2 DEF HalfUndone
  <2> QED BY <2>1, <2>2
<1> QED BY <1>0, <1>3, <1>4, <1>6, <1>7, RestorationKeeps DEF Spots

LEMMA UndoBackupKeeps == ASSUME FileInv, UndoBackup PROVE FileInv'
<1>0. PICK i \in Items : i = op.at BY FileInvParts, RowsTyped DEF Items
<1>1. FileTypeOK BY FileInvParts
<1> PICK p, b, h : item[i].published = p /\ item[i].backedUp = b /\ item[i].sourceHeld = h OBVIOUS
<1>2. /\ op \in OpRow /\ place \in [Items -> Paths] /\ "backup" \in Spots /\ "target" \in Spots
      /\ p \in BOOLEAN /\ b \in BOOLEAN /\ h \in BOOLEAN
  BY <1>1, RowsTyped DEF ItemRow, Spots
<1>3. Restoration("undoBackup", b, "backup", "target", GoTo("undoHold")) /\ item' = item
  BY <1>0 DEF UndoBackup, Restoration
<1>4. op.pc = "undoBackup" /\ "undoBackup" \in Undoing BY <1>3 DEF Restoration, Undoing
<1>5. ASSUME ~meddled, link PROVE Layout(i, FALSE, b, h)
  <2>1. HalfUndone(i) BY <1>0, <1>4, <1>5, UndoingParts DEF UndoneSoFar
  <2> QED BY <1>4, <2>1 DEF HalfUndone
<1>6. ASSUME SameItems, ~meddled, link
      PROVE  /\ place' = place /\ ~b => Layout(i, FALSE, FALSE, h)'
             /\ place' \in [Items -> Paths] /\ place'[i] = Move(place[i], "backup", "target") /\ b
                  => Layout(i, FALSE, FALSE, h)'
  <2>1. Layout(i, FALSE, b, h) BY <1>5, <1>6
  <2>2. ASSUME place' = place, ~b PROVE Layout(i, FALSE, FALSE, h)'
    <3>1. b = FALSE BY <1>2, <2>2
    <3>2. Layout(i, FALSE, FALSE, h) BY <2>1, <3>1
    <3> QED BY <1>6, <2>2, <3>2, LayoutKept
  <2>3. ASSUME place' \in [Items -> Paths], place'[i] = Move(place[i], "backup", "target"), b
        PROVE  Layout(i, FALSE, FALSE, h)'
    <3>1. b = TRUE BY <1>2, <2>3
    <3>2. Layout(i, FALSE, TRUE, h) BY <2>1, <3>1
    <3>3. /\ place[i] \in Paths /\ LayoutOf(place[i], SourceAt(i), TargetAt(i), NewAt(i), FALSE, TRUE, h)
          /\ i \in op.existed
      BY <1>2, <3>2 DEF Layout, TargetAt
    <3>4. LayoutOf(Move(place[i], "backup", "target"), SourceAt(i), TargetAt(i), NewAt(i), FALSE, FALSE, h)
      BY <3>3, LayoutMoves
    <3> QED BY <1>6, <2>3, <3>3, <3>4, LayoutMoved
  <2> QED BY <2>2, <2>3
<1>7. Layout(i, FALSE, FALSE, h)' => Somehow(i)' /\ (op' = GoTo("undoHold") => HalfUndone(i)')
  <2>1. Layout(i, FALSE, FALSE, h)' => Somehow(i)' BY <1>2 DEF Somehow
  <2>2. ASSUME Layout(i, FALSE, FALSE, h)', op' = GoTo("undoHold") PROVE HalfUndone(i)'
    <3>1. op'.pc = "undoHold" BY <1>2, <2>2 DEF GoTo, OpRow
    <3>2. item' = item BY <1>3
    <3> QED BY <1>2, <2>2, <3>1, <3>2 DEF HalfUndone
  <2> QED BY <2>1, <2>2
<1> QED BY <1>0, <1>3, <1>4, <1>6, <1>7, RestorationKeeps DEF Spots

LEMMA UndoHoldKeeps == ASSUME FileInv, UndoHold PROVE FileInv'
<1>0. PICK i \in Items : i = op.at BY FileInvParts, RowsTyped DEF Items
<1>1. FileTypeOK BY FileInvParts
<1> PICK p, b, h : item[i].published = p /\ item[i].backedUp = b /\ item[i].sourceHeld = h OBVIOUS
<1>2. /\ op \in OpRow /\ place \in [Items -> Paths] /\ "held" \in Spots /\ "source" \in Spots
      /\ p \in BOOLEAN /\ b \in BOOLEAN /\ h \in BOOLEAN
  BY <1>1, RowsTyped DEF ItemRow, Spots
<1>3. Restoration("undoHold", h, "held", "source", NextUndone) /\ item' = item
  BY <1>0 DEF UndoHold, Restoration
<1>4. op.pc = "undoHold" /\ "undoHold" \in Undoing BY <1>3 DEF Restoration, Undoing
<1>5. ASSUME ~meddled, link PROVE Layout(i, FALSE, FALSE, h)
  <2>1. HalfUndone(i) BY <1>0, <1>4, <1>5, UndoingParts DEF UndoneSoFar
  <2> QED BY <1>4, <2>1 DEF HalfUndone
<1>6. ASSUME SameItems, ~meddled, link
      PROVE  /\ place' = place /\ ~h => Layout(i, FALSE, FALSE, FALSE)'
             /\ place' \in [Items -> Paths] /\ place'[i] = Move(place[i], "held", "source") /\ h
                  => Layout(i, FALSE, FALSE, FALSE)'
  <2>1. Layout(i, FALSE, FALSE, h) BY <1>5, <1>6
  <2>2. ASSUME place' = place, ~h PROVE Layout(i, FALSE, FALSE, FALSE)'
    <3>1. h = FALSE BY <1>2, <2>2
    <3>2. Layout(i, FALSE, FALSE, FALSE) BY <2>1, <3>1
    <3> QED BY <1>6, <2>2, <3>2, LayoutKept
  <2>3. ASSUME place' \in [Items -> Paths], place'[i] = Move(place[i], "held", "source"), h
        PROVE  Layout(i, FALSE, FALSE, FALSE)'
    <3>1. h = TRUE BY <1>2, <2>3
    <3>2. Layout(i, FALSE, FALSE, TRUE) BY <2>1, <3>1
    <3>3. /\ place[i] \in Paths /\ LayoutOf(place[i], SourceAt(i), TargetAt(i), NewAt(i), FALSE, FALSE, TRUE)
      BY <1>2, <3>2 DEF Layout, TargetAt
    <3>4. LayoutOf(Move(place[i], "held", "source"), SourceAt(i), TargetAt(i), NewAt(i), FALSE, FALSE, FALSE)
      BY <3>3, LayoutMoves
    <3> QED BY <1>6, <2>3, <3>3, <3>4, LayoutMoved
  <2> QED BY <2>2, <2>3
<1>7. Layout(i, FALSE, FALSE, FALSE)' => Somehow(i)' /\ Untouched(i)' BY DEF Somehow, Untouched
<1> QED BY <1>0, <1>3, <1>4, <1>6, <1>7, RestorationKeeps DEF Spots

LEMMA EmptiedTyped ==
  ASSUME FileTypeOK, place' = Emptied({"stage", "backup"})
  PROVE  /\ place' \in [Items -> Paths]
         /\ \A j \in Items : /\ place'[j]["stage"] = Gone /\ place'[j]["backup"] = Gone
                             /\ \A s \in Spots \ {"stage", "backup"} : place'[j][s] = place[j][s]
<1>1. place \in [Items -> Paths] BY RowsTyped
<1>2. \A j \in Items : [s \in Spots |-> IF s \in {"stage", "backup"} THEN Gone ELSE place[j][s]] \in Paths
  BY <1>1, ContentClosed DEF Paths
<1>3. place' = [j \in Items |-> [s \in Spots |-> IF s \in {"stage", "backup"} THEN Gone ELSE place[j][s]]]
  BY DEF Emptied
<1>4. place' \in [Items -> Paths] BY <1>2, <1>3
<1> QED BY <1>3, <1>4 DEF Spots

LEMMA EndFacts ==
  ASSUME FileTypeOK, NEW o \in Outcomes, op' = [op EXCEPT !.pc = "end", !.outcome = o]
  PROVE  /\ op' \in OpRow /\ op'.pc = "end" /\ op'.outcome = o /\ op'.existed = op.existed
         /\ op'.move = op.move
<1>1. op \in OpRow /\ op' \in OpRow BY RowsTyped
<1> QED BY <1>1 DEF OpRow

LEMMA ScrapKeeps == ASSUME FileInv, Scrap PROVE FileInv'
<1>1. FileTypeOK /\ Recorded /\ (~meddled => Placed) BY FileInvParts
<1>2. PICK o \in {"rollback_failed", "failed", "cleanup_failed"} :
        /\ op' = [op EXCEPT !.pc = "end", !.outcome = o]
        /\ \/ place' = place
           \/ place' = Emptied({"stage", "backup"})
        /\ o = "failed" => ~op.errors /\ link /\ place' = Emptied({"stage", "backup"})
        /\ o # "failed" => place' = place
        /\ link' \in BOOLEAN
  BY <1>1 DEF Scrap, Answered, Fails, FileTypeOK
<1>3. op.pc = "scrap" /\ UNCHANGED <<item, meddled>> BY DEF Scrap
<1>4. o \in Outcomes BY DEF Outcomes
<1>5. op' \in OpRow /\ op'.pc = "end" /\ op'.outcome = o /\ op'.existed = op.existed /\ op'.move = op.move
  BY <1>1, <1>2, <1>4, EndFacts
<1>6. place \in [Items -> Paths] BY <1>1, RowsTyped
<1>7. place' \in [Items -> Paths] BY <1>1, <1>2, <1>6, EmptiedTyped
<1>8. FileTypeOK' BY <1>1, <1>2, <1>3, <1>5, <1>7 DEF FileTypeOK, OpRow, Paths
<1>9. SameItems BY <1>3, <1>5 DEF SameItems
<1>10. Recorded'
  BY <1>1, <1>2, <1>3, <1>5 DEF Recorded, Early, Staging, Publishing, Dropping
<1>11. ASSUME ~meddled PROVE Placed'
  <2>1. CASE o = "failed"
    <3>1. \A j \in Items : Untouched(j) BY <1>1, <1>2, <1>3, <1>11, <2>1 DEF Placed
    <3>2. ASSUME NEW j \in Items PROVE Untouched(j)'
      <4>1. place[j]["backup"] = Gone BY <3>1 DEF Untouched, Layout, LayoutOf
      <4>2. \A s \in Spots \ {"stage"} : place'[j][s] = place[j][s]
        BY <1>1, <1>2, <2>1, <4>1, EmptiedTyped
      <4> QED BY <1>9, <3>1, <4>2, LayoutRestaged DEF Untouched
    <3> QED BY <1>5, <2>1, <3>2 DEF Placed, Early, Staging, Publishing, Undoing, Dropping
  <2>2. CASE o # "failed"
    <3>1. \A j \in Items : Somehow(j) BY <1>1, <1>3, <1>11 DEF Placed
    <3>2. ASSUME NEW j \in Items PROVE Somehow(j)'
      <4>1. \A p, b, h : Layout(j, p, b, h)' <=> Layout(j, p, b, h)
        BY <1>2, <1>9, <2>2, LayoutKept
      <4> QED BY <3>1, <4>1 DEF Somehow
    <3> QED BY <1>5, <2>2, <3>2 DEF Placed, Early, Staging, Publishing, Undoing, Dropping
  <2> QED BY <2>1, <2>2
<1> QED BY <1>3, <1>8, <1>10, <1>11 DEF FileInv

LEMMA DropHeldKeeps == ASSUME FileInv, DropHeld PROVE FileInv'
<1>0. PICK i \in Items : i = op.at BY FileInvParts, RowsTyped DEF Items
<1>1. FileTypeOK /\ Recorded /\ (~meddled => Placed) BY FileInvParts
<1>2. /\ op.pc = "drop" /\ UNCHANGED <<item, meddled>> /\ link' \in BOOLEAN
      /\ place' = place \/ place' = [place EXCEPT ![i]["held"] = Gone]
      /\ op' = IF i = MaxItems THEN GoTo("clean") ELSE [op EXCEPT !.at = i + 1]
  BY <1>0, <1>1 DEF DropHeld, Answered, Fails, FileTypeOK
<1>3. /\ op \in OpRow /\ place \in [Items -> Paths] /\ i \in 1..MaxItems /\ MaxItems \in Nat
      /\ GoTo("clean") \in OpRow
  BY <1>0, <1>1, RowsTyped, TransferAssumption DEF OpPC, Items
<1>4. op' \in OpRow
  <2>1. i # MaxItems => i + 1 \in Items BY <1>3 DEF Items
  <2>2. i # MaxItems => [op EXCEPT !.at = i + 1] \in OpRow BY <1>3, <2>1 DEF OpRow
  <2> QED BY <1>2, <1>3, <2>2
<1>5. /\ op'.existed = op.existed /\ op'.move = op.move /\ op'.outcome = op.outcome
      /\ op'.pc \in Dropping
  BY <1>2, <1>3 DEF OpRow, GoTo, Dropping
<1>6. /\ place' \in [Items -> Paths]
      /\ \A j \in Items : \A s \in Spots \ {"held"} : place'[j][s] = place[j][s]
  <2>1. CASE place' = place BY <1>3, <2>1
  <2>2. CASE place' = [place EXCEPT ![i]["held"] = Gone]
    <3>1. Gone \in Content BY ContentClosed
    <3> QED BY <1>3, <2>2, <3>1 DEF Paths, Spots
  <2> QED BY <1>2, <2>1, <2>2
<1>7. FileTypeOK' BY <1>1, <1>2, <1>4, <1>6 DEF FileTypeOK, OpRow, Paths
<1>8. SameItems BY <1>2, <1>5 DEF SameItems
<1>9. op.outcome = "none" BY <1>1, <1>2 DEF Recorded
<1>10. Recorded'
  <2>1. \A j \in Items : Flagged(j) /\ item[j].exists = (j \in op.existed)
    BY <1>1, <1>2 DEF Recorded, Dropping
  <2> QED BY <1>1, <1>2, <1>5, <1>9, <2>1
       DEF Recorded, Flagged, Early, Staging, Publishing, Dropping
<1>11. ASSUME ~meddled PROVE Placed'
  <2>1. \A j \in Items : Succeeded(j) BY <1>1, <1>2, <1>11 DEF Placed, Dropping
  <2>2. ASSUME NEW j \in Items PROVE Succeeded(j)'
    <3>1. SourceAt(j)' = SourceAt(j) /\ TargetAt(j)' = TargetAt(j) /\ NewAt(j)' = NewAt(j) BY <1>8, SameContents
    <3> QED BY <1>2, <1>5, <1>6, <2>1, <3>1 DEF Succeeded, Spots
  <2> QED BY <1>5, <1>9, <2>2 DEF Placed, Early, Staging, Publishing, Undoing, Dropping
<1> QED BY <1>2, <1>7, <1>10, <1>11 DEF FileInv

LEMMA CleanKeeps == ASSUME FileInv, CleanTransaction PROVE FileInv'
<1>1. FileTypeOK /\ Recorded /\ (~meddled => Placed) BY FileInvParts
<1>2. /\ op.pc = "clean" /\ UNCHANGED <<item, meddled>> /\ link' \in BOOLEAN
      /\ place' = place \/ place' = Emptied({"stage", "backup"})
      /\ op' = [op EXCEPT !.pc = "end", !.outcome = "done"]
  BY <1>1 DEF CleanTransaction, Answered, Fails, FileTypeOK
<1>3. op' \in OpRow /\ op'.pc = "end" /\ op'.outcome = "done" /\ op'.existed = op.existed /\ op'.move = op.move
  BY <1>1, <1>2, EndFacts DEF Outcomes
<1>4. place \in [Items -> Paths] BY <1>1, RowsTyped
<1>5. /\ place' \in [Items -> Paths]
      /\ \A j \in Items : \A s \in Spots \ {"stage", "backup"} : place'[j][s] = place[j][s]
  BY <1>1, <1>2, <1>4, EmptiedTyped
<1>6. FileTypeOK' BY <1>1, <1>2, <1>3, <1>5 DEF FileTypeOK, OpRow, Paths
<1>7. SameItems BY <1>2, <1>3 DEF SameItems
<1>8. Recorded'
  <2>1. \A j \in Items : Flagged(j) BY <1>1, <1>2 DEF Recorded, Dropping
  <2> QED BY <1>1, <1>2, <1>3, <2>1
       DEF Recorded, Flagged, Early, Staging, Publishing, Dropping
<1>9. ASSUME ~meddled PROVE Placed'
  <2>1. \A j \in Items : Succeeded(j) BY <1>1, <1>2, <1>9 DEF Placed, Dropping
  <2>2. ASSUME NEW j \in Items PROVE Succeeded(j)'
    <3>1. SourceAt(j)' = SourceAt(j) /\ TargetAt(j)' = TargetAt(j) /\ NewAt(j)' = NewAt(j) BY <1>7, SameContents
    <3> QED BY <1>3, <1>5, <2>1, <3>1 DEF Succeeded, Spots
  <2> QED BY <1>3, <2>2 DEF Placed, Early, Staging, Publishing, Undoing, Dropping
<1> QED BY <1>2, <1>6, <1>8, <1>9 DEF FileInv

LEMMA MeddleKeeps == ASSUME FileInv, NEW i \in Items, Meddle(i) PROVE FileInv'
<1>1. FileTypeOK /\ Recorded BY FileInvParts
<1>2. PICK s \in {"source", "target"}, n \in {"f", "a"} :
        place' = [place EXCEPT ![i][s] = Merged([x \in {n} |-> "late"], @)]
  BY DEF Meddle
<1>3. meddled' = TRUE /\ UNCHANGED <<item, op, link>> /\ op.pc # "idle" BY DEF Meddle
<1>4. place \in [Items -> Paths] /\ s \in Spots BY <1>1, RowsTyped DEF Spots
<1>5. Merged([x \in {n} |-> "late"], place[i][s]) \in Content
  BY <1>4, ContentClosed DEF Paths
<1>6. place' \in [Items -> Paths]
  <2>1. place' = [place EXCEPT ![i] = [place[i] EXCEPT ![s] = Merged([x \in {n} |-> "late"], place[i][s])]]
    BY <1>2, <1>4
  <2>2. [place[i] EXCEPT ![s] = Merged([x \in {n} |-> "late"], place[i][s])] \in Paths
    BY <1>4, <1>5 DEF Paths
  <2> QED BY <1>4, <2>1, <2>2
<1>7. FileTypeOK' BY <1>1, <1>3, <1>6 DEF FileTypeOK, Paths
<1>8. Recorded'
  BY <1>1, <1>3 DEF Recorded, Flagged, Unflagged, Early, Staging, Publishing, Dropping
<1> QED BY <1>3, <1>7, <1>8 DEF FileInv

LEMMA IdleKeeps == ASSUME FileInv, UNCHANGED fileVars PROVE FileInv'
<1>1. FileTypeOK /\ Recorded /\ (~meddled => Placed) BY FileInvParts
<1>2. UNCHANGED <<place, item, op, link, meddled>> BY DEF fileVars
<1>3. FileTypeOK' BY <1>1, <1>2 DEF FileTypeOK
<1>4. Recorded'
  BY <1>1, <1>2 DEF Recorded, Flagged, Unflagged, Early, Staging, Publishing, Dropping
<1>5. SameItems BY <1>2 DEF SameItems
<1>6. ASSUME NEW j \in Items
      PROVE  /\ SourceAt(j)' = SourceAt(j) /\ TargetAt(j)' = TargetAt(j) /\ NewAt(j)' = NewAt(j)
             /\ \A p, b, h : Layout(j, p, b, h)' <=> Layout(j, p, b, h)
  BY <1>2, <1>5, SameContents, LayoutKept
<1>7. ASSUME NEW j \in Items
      PROVE  /\ Untouched(j)' <=> Untouched(j)
             /\ AsFlagged(j)' <=> AsFlagged(j)
             /\ Somehow(j)' <=> Somehow(j)
             /\ HalfUndone(j)' <=> HalfUndone(j)
             /\ Succeeded(j)' <=> Succeeded(j)
             /\ StagedSoFar(j)' <=> StagedSoFar(j)
  <2>1. Untouched(j)' <=> Untouched(j) BY <1>6 DEF Untouched
  <2>2. AsFlagged(j)' <=> AsFlagged(j) BY <1>2, <1>6 DEF AsFlagged
  <2>3. Somehow(j)' <=> Somehow(j) BY <1>6 DEF Somehow
  <2>4. HalfUndone(j)' <=> HalfUndone(j) BY <1>2, <1>6 DEF HalfUndone
  <2>5. Succeeded(j)' <=> Succeeded(j) BY <1>2, <1>6 DEF Succeeded
  <2>6. StagedSoFar(j)' <=> StagedSoFar(j) BY <1>2, <1>6 DEF StagedSoFar
  <2> QED BY <2>1, <2>2, <2>3, <2>4, <2>5, <2>6
<1>8. \A j \in Items : UndoneSoFar(j)' <=> UndoneSoFar(j) BY <1>2, <1>7 DEF UndoneSoFar
<1>9. ~meddled => Placed'
  <2> SUFFICES ASSUME ~meddled PROVE Placed' OBVIOUS
  <2>1. Placed BY <1>1
  <2>2. \A j \in Items : NewAt(j)' = NewAt(j) BY <1>6
  <2> QED BY <1>2, <1>7, <1>8, <2>1, <2>2 DEF Placed
<1> QED BY <1>2, <1>3, <1>4, <1>9 DEF FileInv

LEMMA FileInvStep == ASSUME FileInv, [FileNext]_fileVars PROVE FileInv'
<1>1. CASE CheckTransfer    BY <1>1, CheckKeeps
<1>2. CASE RefuseTransfer   BY <1>2, RefuseKeeps
<1>3. CASE MakeTransaction  BY <1>3, MakeKeeps
<1>4. CASE StageTarget      BY <1>4, StageTargetKeeps
<1>5. CASE StageSource      BY <1>5, StageSourceKeeps
<1>6. CASE HoldSource       BY <1>6, HoldKeeps
<1>7. CASE BackupTarget     BY <1>7, BackupKeeps
<1>8. CASE Publish          BY <1>8, PublishKeeps
<1>9. CASE UndoPublish      BY <1>9, UndoPublishKeeps
<1>10. CASE UndoBackup      BY <1>10, UndoBackupKeeps
<1>11. CASE UndoHold        BY <1>11, UndoHoldKeeps
<1>12. CASE Scrap           BY <1>12, ScrapKeeps
<1>13. CASE DropHeld        BY <1>13, DropHeldKeeps
<1>14. CASE CleanTransaction BY <1>14, CleanKeeps
<1>15. CASE \E i \in Items : Meddle(i) BY <1>15, MeddleKeeps
<1>16. CASE UNCHANGED fileVars BY <1>16, IdleKeeps
<1> QED BY <1>1, <1>2, <1>3, <1>4, <1>5, <1>6, <1>7, <1>8, <1>9, <1>10, <1>11, <1>12, <1>13, <1>14,
           <1>15, <1>16 DEF FileNext

LEMMA FileInvAlways == FileSpec => []FileInv
<1>1. FileInit => FileInv BY FileInvInit
<1>2. FileInv /\ [FileNext]_fileVars => FileInv' BY FileInvStep
<1> QED BY <1>1, <1>2, PTL DEF FileSpec

\* The variables of a transfer keep their types.
THEOREM FileTypeCorrect == FileSpec => []FileTypeOK
<1>1. FileInv => FileTypeOK BY DEF FileInv
<1> QED BY <1>1, FileInvAlways, PTL

LEMMA NothingLostNow == ASSUME FileInv PROVE NothingLostMidway
<1> SUFFICES ASSUME ~meddled, NEW i \in Items
             PROVE  /\ SourceAt(i) \in {place[i][s] : s \in {"source", "held"}}
                         \/ (op.pc \in {"drop", "clean", "end"} /\ item[i].published)
                    /\ i \in op.existed => \/ TargetAt(i) \in {place[i][s] : s \in {"target", "backup"}}
                                           \/ op.outcome = "done"
    BY DEF NothingLostMidway, SourceAt, TargetAt
<1>1. FileTypeOK /\ Recorded /\ Placed BY FileInvParts
<1>2. op.pc \in OpPC /\ op.outcome \in Outcomes BY <1>1 DEF FileTypeOK
<1>3. ASSUME NEW p, NEW b, NEW h, Layout(i, p, b, h)
      PROVE  /\ SourceAt(i) \in {place[i]["source"], place[i]["held"]}
             /\ i \in op.existed => TargetAt(i) \in {place[i]["target"], place[i]["backup"]}
  BY <1>3 DEF Layout, LayoutOf
<1>4. CASE \/ op.pc \in Early \cup Staging \cup Publishing \cup Undoing \cup {"scrap"}
           \/ op.outcome \in {"refused", "failed", "rollback_failed", "cleanup_failed"}
  <2>1. \E p, b, h : Layout(i, p, b, h)
    BY <1>1, <1>4 DEF Placed, Untouched, AsFlagged, Somehow
  <2> QED BY <1>3, <2>1
<1>5. CASE op.pc \in Dropping
  <2>1. item[i].published BY <1>1, <1>5 DEF Recorded, Flagged
  <2>2. i \in op.existed => TargetAt(i) = place[i]["backup"]
    BY <1>1, <1>5 DEF Placed, Succeeded, Dropping
  <2> QED BY <1>5, <2>1, <2>2 DEF Dropping
<1>6. CASE op.outcome = "done"
  BY <1>1, <1>6 DEF Recorded
<1> QED BY <1>1, <1>2, <1>4, <1>5, <1>6
     DEF Recorded, OpPC, Outcomes, Early, Staging, Publishing, Undoing, Dropping

\* Whatever calls fail and wherever the connection or the server stops, every source and
\* every replaced target is still on the remote host until the operation has succeeded.
THEOREM NothingLost == FileSpec => []NothingLostMidway
<1>1. FileInv => NothingLostMidway BY NothingLostNow
<1> QED BY <1>1, FileInvAlways, PTL

LEMMA OutcomeTrueNow == ASSUME FileInv PROVE OutcomeIsTrue
<1> SUFFICES ASSUME ~meddled, NEW i \in Items
             PROVE  /\ op.outcome = "done" =>
                         /\ place[i]["target"] = NewAt(i)
                         /\ place[i]["source"] = IF op.move THEN Gone ELSE SourceAt(i)
                    /\ op.outcome \in {"failed", "refused"} =>
                         place[i]["source"] = SourceAt(i) /\ place[i]["target"] = TargetAt(i)
  <2>1. \A i \in Items :
          NewAt(i) = IF item[i].kind = "directory" /\ i \in op.existed
                   THEN Merged(SourceOf("directory"), TargetOf("directory"))
                   ELSE SourceOf(item[i].kind)
    BY DEF NewAt, SourceAt, TargetAt
  <2> QED BY <2>1 DEF OutcomeIsTrue, Original, NewAt, SourceAt, TargetAt
<1>1. Placed BY FileInvParts
<1> QED BY <1>1 DEF Placed, Succeeded, Untouched, Layout, LayoutOf

\* An operation that reports success has done it; one that reports a failure without a
\* warning has left sources and targets as they were.
THEOREM OutcomesTrue == FileSpec => []OutcomeIsTrue
<1>1. FileInv => OutcomeIsTrue BY OutcomeTrueNow
<1> QED BY <1>1, FileInvAlways, PTL

\* As long as nobody has interfered, there is no late version at a target.
LEMMA OnlyMeddled ==
  ASSUME FileInv, NEW i \in Items, LateIn(place[i]["target"]) PROVE meddled
<1>1. ~LateIn(Gone) /\ ~LateIn(TargetAt(i)) /\ ~LateIn(NewAt(i))
  <2>1. ~LateIn(Gone) /\ ~LateIn(SourceAt(i)) /\ ~LateIn(TargetAt(i)) BY NeverLate DEF SourceAt, TargetAt
  <2> QED BY <2>1, NeverLate DEF NewAt
<1>2. FileTypeOK /\ Recorded /\ (~meddled => Placed) BY FileInvParts
<1>3. op.pc \in OpPC /\ op.outcome \in Outcomes BY <1>2 DEF FileTypeOK
<1>4. ASSUME ~meddled PROVE place[i]["target"] \in {Gone, TargetAt(i), NewAt(i)}
  <2>1. (\E p, b, h : Layout(i, p, b, h)) \/ Succeeded(i)
    BY <1>2, <1>3, <1>4
       DEF Placed, Recorded, Untouched, AsFlagged, Somehow, OpPC, Outcomes, Early, Staging,
           Publishing, Undoing, Dropping
  <2> QED BY <2>1 DEF Layout, LayoutOf, Succeeded
<1> QED BY <1>1, <1>4

\* Nothing that appears at a target while an operation runs is replaced or moved away.
THEOREM LateSurvives == FileSpec => LateTargetSurvives
<1>1. ASSUME FileInv, [FileNext]_fileVars, NEW i \in Items, ~item[i].exists,
             LateIn(place[i]["target"]), ~item[i].published
      PROVE  place'[i]["target"] = place[i]["target"]
  <2>1. FileTypeOK /\ Recorded BY <1>1, FileInvParts
  <2>2. place \in [Items -> Paths] /\ op.at \in Items BY <2>1, RowsTyped DEF Items
  <2>3. meddled /\ ~item[i].backedUp BY <1>1, <2>1, OnlyMeddled DEF Recorded
  <2>4. place[i]["target"] # Gone BY <1>1, NeverLate
  <2>5. CASE \/ CheckTransfer \/ RefuseTransfer \/ MakeTransaction \/ UNCHANGED fileVars
    BY <2>5 DEF CheckTransfer, RefuseTransfer, MakeTransaction, fileVars
  <2>6. CASE StageTarget BY <2>2, <2>6 DEF StageTarget, Paths, Spots
  <2>7. CASE StageSource
    <3>1. place' = place \/ \E c : place' = [place EXCEPT ![op.at]["stage"] = c]
      BY <2>7 DEF StageSource
    <3> QED BY <2>2, <3>1 DEF Paths, Spots
  <2>8. ASSUME NEW x \in Spots, NEW y \in Spots, i = op.at => x # "target" /\ y # "target",
               place' = place \/ place' = [place EXCEPT ![op.at] = Move(@, x, y)]
        PROVE  place'[i]["target"] = place[i]["target"]
    BY <2>2, <2>8 DEF Move, Paths, Spots
  <2>9. CASE HoldSource
    <3>1. place' = place \/ place' = [place EXCEPT ![op.at] = Move(@, "source", "held")]
      BY <2>9 DEF HoldSource, Publication
    <3> QED BY <2>8, <3>1 DEF Spots
  <2>10. CASE BackupTarget
    <3>1. place' = place \/ (item[op.at].exists /\ place' = [place EXCEPT ![op.at] = Move(@, "target", "backup")])
      BY <2>10 DEF BackupTarget, Publication
    <3> QED BY <1>1, <2>2, <3>1
  <2>11. CASE Publish
    <3>1. place' = place \/ (Renames(op.at, "stage", "target") /\ place' = [place EXCEPT ![op.at] = Move(@, "stage", "target")])
      BY <2>11 DEF Publish, Publication
    <3> QED BY <2>2, <2>4, <3>1 DEF Renames
  <2>12. CASE UndoPublish
    <3>1. place' = place \/ (item[op.at].published /\ place' = [place EXCEPT ![op.at] = Move(@, "target", "stage")])
      BY <2>12 DEF UndoPublish, Restoration
    <3> QED BY <1>1, <2>2, <3>1
  <2>13. CASE UndoBackup
    <3>1. place' = place \/ (item[op.at].backedUp /\ place' = [place EXCEPT ![op.at] = Move(@, "backup", "target")])
      BY <2>13 DEF UndoBackup, Restoration
    <3> QED BY <2>2, <2>3, <3>1
  <2>14. CASE UndoHold
    <3>1. place' = place \/ place' = [place EXCEPT ![op.at] = Move(@, "held", "source")]
      BY <2>14 DEF UndoHold, Restoration
    <3> QED BY <2>8, <3>1 DEF Spots
  <2>15. CASE Scrap \/ CleanTransaction
    <3>1. place' = place \/ place' = Emptied({"stage", "backup"})
      BY <2>15 DEF Scrap, CleanTransaction
    <3> QED BY <2>1, <3>1, EmptiedTyped DEF Spots
  <2>16. CASE DropHeld
    <3>1. place' = place \/ place' = [place EXCEPT ![op.at]["held"] = Gone] BY <2>16 DEF DropHeld
    <3> QED BY <2>2, <3>1 DEF Paths, Spots
  <2>17. CASE \E j \in Items : Meddle(j) BY <2>3, <2>17 DEF Meddle
  <2> QED BY <1>1, <2>5, <2>6, <2>7, <2>9, <2>10, <2>11, <2>12, <2>13, <2>14, <2>15, <2>16, <2>17
       DEF FileNext
<1>2. FileInv /\ [FileNext]_fileVars
        => [\A i \in Items :
              ~item[i].exists /\ "late" \in {place[i]["target"][n] : n \in DOMAIN place[i]["target"]}
                /\ ~item[i].published => place'[i]["target"] = place[i]["target"]]_fileVars
  BY <1>1 DEF LateIn
<1> QED BY <1>2, FileInvAlways, PTL DEF FileSpec, LateTargetSurvives
------------------------------------------------------------------------------
(***************************************************************************)
(* Saves of one file.  Each request holds what it saw of the file, and the *)
(* file has what the last replacement left: the two are compared through   *)
(* what was checked since.                                                 *)
(***************************************************************************)

EditPC    == {"stage", "write", "size", "hash", "replace"}
SftpPC    == {"sftpWrite", "posixRename", "remove", "rename"}
WrittenPC == {"answer", "end", "scp", "scpEnd"}
SaverRow  == [kind : SaveKind, pc : SavePC, base : Version, linked : BOOLEAN, tries : 0..2,
              outcome : Outcome]
SentRow   == [whole : BOOLEAN, over : Version, raced : BOOLEAN]

\* Each kind of request keeps to its steps, and is answered at its end.
StepsOfKind(s) == LET q == saver[s] IN
    /\ q.pc \in EditPC => q.kind \in {"edit", "force"}
    /\ q.pc \in SftpPC => q.kind \in {"stream", "base64"}
    /\ q.pc \in {"cat", "mv"} => q.kind = "stream"
    /\ q.pc \in {"scp", "scpEnd"} => q.kind = "base64"
    /\ q.pc # "end" => q.outcome = "none"

\* A save that passed its checks: all is staged, and the file is the one it was
\* based on, or somebody has written since.
Checked(s) == LET q == saver[s] IN
    /\ q.pc \in EditPC \cup {"idle"} => sent[s].over = Old /\ ~sent[s].whole
    /\ q.pc \in {"hash", "replace"} => temp[s] = "whole" /\ q.linked
    /\ q.pc \in {"idle", "stage", "write"} => temp[s] # "whole" /\ q.linked
    /\ q.pc = "size" => temp[s] # "whole" \/ q.linked
    /\ q.pc = "replace" /\ q.kind = "edit" => dest = q.base \/ sent[s].raced

\* Whoever will hear of a success has sent everything.
Heard(s) == LET q == saver[s] IN
    /\ q.pc = "answer" /\ q.linked => sent[s].whole
    /\ q.pc = "mv" /\ q.linked => temp[s] = "whole"

\* What SavesAreHonest says of one request.
ReplacedBaseline(s) ==
    saver[s].kind = "edit" /\ saver[s].pc \in {"answer", "end"} /\ sent[s].whole
      => sent[s].over = saver[s].base \/ sent[s].raced
AnsweredTruly(s) ==
    /\ saver[s].outcome = "saved" => sent[s].whole
    /\ saver[s].outcome = "conflict" => sent[s].over = Old /\ ~sent[s].whole
SaveInv(s) == StepsOfKind(s) /\ Checked(s) /\ Heard(s) /\ ReplacedBaseline(s) /\ AnsweredTruly(s)

\* A torn file was written by an upload that has left SFTP behind.
TornBy ==
    ~dest.whole => /\ dest.by \in Savers
                   /\ saver[dest.by].kind \in {"stream", "base64"}
                   /\ saver[dest.by].pc \in WrittenPC

RemoteInv == RemoteTypeOK /\ TornBy /\ \A s \in Savers : SaveInv(s)

LEMMA RemoteTypes == RemoteTypeOK <=>
    /\ dest \in Version /\ temp \in [Savers -> {"none", "part", "whole"}]
    /\ saver \in [Savers -> SaverRow] /\ sent \in [Savers -> SentRow]
BY DEF RemoteTypeOK, SaverRow, SentRow

LEMMA RemoteInvInit == ASSUME RemoteInit PROVE RemoteInv
<1> USE SaversAssumption DEF RemoteInit, Old, Absent, NoSaver, NotSent
<1>1. Old \in Version /\ Absent \in Version BY DEF Version
<1>2. NoSaver \in SaverRow /\ NotSent \in SentRow
  BY <1>1 DEF SaverRow, SentRow, SaveKind, SavePC, Outcome
<1>3. RemoteTypeOK BY <1>1, <1>2, RemoteTypes
<1>4. TornBy BY DEF TornBy
<1>5. \A s \in Savers : SaveInv(s)
  BY DEF SaveInv, StepsOfKind, Checked, Heard, ReplacedBaseline, AnsweredTruly, EditPC, SftpPC
<1> QED BY <1>3, <1>4, <1>5 DEF RemoteInv

\* What a step of s leaves alone: the other requests, but for their knowing that
\* somebody wrote.
Apart(s) == \A x \in Savers \ {s} :
    /\ saver'[x] = saver[x] /\ temp'[x] = temp[x]
    /\ sent'[x].over = sent[x].over /\ sent'[x].whole = sent[x].whole
    /\ sent[x].raced => sent'[x].raced
    /\ saver[x].pc = "replace" /\ dest' # dest => sent'[x].raced

LEMMA ApartKeeps ==
  ASSUME NEW s \in Savers, NEW x \in Savers \ {s}, Apart(s), SaveInv(x)
  PROVE  SaveInv(x)'
BY DEF Apart, SaveInv, StepsOfKind, Checked, Heard, ReplacedBaseline, AnsweredTruly

Temps == {"none", "part", "whole"}
TempIs(s, t) == temp' = [temp EXCEPT ![s] = t] \/ (temp' = temp /\ t = temp[s])

\* A step of s that leaves the destination alone, and one that writes there.
Quiet(s, row, t) ==
    /\ row \in SaverRow /\ saver' = [saver EXCEPT ![s] = row]
    /\ t \in Temps /\ TempIs(s, t)
    /\ dest' = dest /\ sent' = sent
Writing(s, row, t, v, c) ==
    /\ row \in SaverRow /\ saver' = [saver EXCEPT ![s] = row]
    /\ t \in Temps /\ TempIs(s, t)
    /\ v \in Version /\ c \in BOOLEAN /\ WriteFile(s, v, c)

Typed == /\ dest' \in Version /\ temp' \in [Savers -> Temps]
         /\ saver' \in [Savers -> SaverRow] /\ sent' \in [Savers -> SentRow]

LEMMA QuietStep ==
  ASSUME RemoteTypeOK, NEW s \in Savers, NEW row, NEW t, Quiet(s, row, t)
  PROVE  /\ Typed /\ Apart(s)
         /\ saver'[s] = row /\ temp'[s] = t /\ sent'[s] = sent[s] /\ dest' = dest
<1>1. /\ dest \in Version /\ temp \in [Savers -> Temps]
      /\ saver \in [Savers -> SaverRow] /\ sent \in [Savers -> SentRow]
  BY RemoteTypes DEF Temps
<1>2. saver' \in [Savers -> SaverRow] /\ saver'[s] = row BY <1>1 DEF Quiet
<1>3. temp' \in [Savers -> Temps] /\ temp'[s] = t BY <1>1 DEF Quiet, TempIs
<1>4. Apart(s) BY <1>1 DEF Quiet, TempIs, Apart
<1> QED BY <1>1, <1>2, <1>3, <1>4 DEF Quiet, Typed

LEMMA WritingStep ==
  ASSUME RemoteTypeOK, NEW s \in Savers, NEW row, NEW t, NEW v, NEW c, Writing(s, row, t, v, c)
  PROVE  /\ Typed /\ Apart(s)
         /\ saver'[s] = row /\ temp'[s] = t /\ dest' = v
         /\ sent'[s] = [sent[s] EXCEPT !.whole = c, !.over = dest]
<1>1. /\ dest \in Version /\ temp \in [Savers -> Temps]
      /\ saver \in [Savers -> SaverRow] /\ sent \in [Savers -> SentRow]
  BY RemoteTypes DEF Temps
<1>2. saver' \in [Savers -> SaverRow] /\ saver'[s] = row BY <1>1 DEF Writing
<1>3. temp' \in [Savers -> Temps] /\ temp'[s] = t BY <1>1 DEF Writing, TempIs
<1>4. \A x \in Savers : sent[x] \in SentRow BY <1>1
<1>5. /\ dest' = v /\ v \in Version /\ c \in BOOLEAN
      /\ sent' = [x \in Savers |->
           IF x = s THEN [sent[s] EXCEPT !.whole = c, !.over = dest]
           ELSE IF SaverAt(x, "replace") THEN [sent[x] EXCEPT !.raced = TRUE] ELSE sent[x]]
  BY DEF Writing, WriteFile
<1>6. sent'[s] = [sent[s] EXCEPT !.whole = c, !.over = dest] BY <1>5
<1>7. \A x \in Savers : sent'[x] \in SentRow
  <2> TAKE x \in Savers
  <2> QED BY <1>1, <1>4, <1>5 DEF SentRow
<1>8. sent' \in [Savers -> SentRow] BY <1>5, <1>7
<1>9. \A x \in Savers \ {s} : saver'[x] = saver[x] /\ temp'[x] = temp[x]
  BY <1>1 DEF Writing, TempIs
<1>10. \A x \in Savers \ {s} : /\ sent'[x].over = sent[x].over /\ sent'[x].whole = sent[x].whole
                               /\ sent[x].raced => sent'[x].raced
                               /\ saver[x].pc = "replace" => sent'[x].raced
  BY <1>4, <1>5 DEF SentRow, SaverAt
<1>11. Apart(s) BY <1>9, <1>10 DEF Apart
<1> QED BY <1>2, <1>3, <1>5, <1>6, <1>8, <1>11 DEF Typed

LEMMA TornStays ==
  ASSUME TornBy, NEW s \in Savers, Apart(s), dest' = dest,
         dest.by = s /\ saver[s].kind \in {"stream", "base64"} /\ saver[s].pc \in WrittenPC
           => saver'[s].kind \in {"stream", "base64"} /\ saver'[s].pc \in WrittenPC
  PROVE  TornBy'
BY DEF TornBy, Apart

LEMMA SaverStepKeeps ==
  ASSUME RemoteInv, NEW s \in Savers, SaverStep(s)
  PROVE  RemoteInv'
<1> USE SaversAssumption
<1> DEFINE q == saver[s]
           At(pc) == [q EXCEPT !.pc = pc]
           Done(o) == [q EXCEPT !.pc = "end", !.outcome = o]
           Editor(k) == [NoSaver EXCEPT !.kind = k, !.base = dest, !.pc = "stage"]
           Uploader(k) == [NoSaver EXCEPT !.kind = k, !.pc = "sftpWrite"]
           Cut(pc) == [At(pc) EXCEPT !.linked = FALSE]
           again == [q EXCEPT !.pc = "scp", !.tries = 1, !.linked = TRUE]
           Mine(w) == [by |-> s, whole |-> w]
           Goal == Typed /\ SaveInv(s)' /\ TornBy' /\ Apart(s)
<1>1. /\ dest \in Version /\ temp \in [Savers -> Temps]
      /\ saver \in [Savers -> SaverRow] /\ sent \in [Savers -> SentRow]
      /\ q \in SaverRow /\ sent[s] \in SentRow /\ temp[s] \in Temps
  BY RemoteTypes DEF RemoteInv, Temps
<1>2. SaveInv(s) /\ TornBy /\ RemoteTypeOK BY DEF RemoteInv
<1>3. \A w \in BOOLEAN : Mine(w) \in Version BY DEF Version
<1>4. Old \in Version /\ Absent \in Version /\ Absent.whole = TRUE BY DEF Version, Old, Absent
<1>5. /\ \A pc \in SavePC : At(pc) \in SaverRow
      /\ \A o \in Outcome : Done(o) \in SaverRow
      /\ \A pc \in SavePC : Cut(pc) \in SaverRow
      /\ \A k \in SaveKind : Editor(k) \in SaverRow /\ Uploader(k) \in SaverRow
      /\ 1 \in 0..2 /\ 2 \in 0..2
      /\ again \in SaverRow
  <2>1. 1 \in 0..2 /\ 2 \in 0..2 OBVIOUS
  <2>2. NoSaver \in SaverRow BY <2>1, <1>4 DEF NoSaver, SaverRow, SaveKind, SavePC, Outcome
  <2>3. \A pc \in SavePC : At(pc) \in SaverRow BY <1>1 DEF SaverRow
  <2>4. \A o \in Outcome : Done(o) \in SaverRow BY <1>1 DEF SaverRow, SavePC
  <2>5. \A pc \in SavePC : Cut(pc) \in SaverRow BY <1>1 DEF SaverRow
  <2>6. \A k \in SaveKind : Editor(k) \in SaverRow /\ Uploader(k) \in SaverRow
    BY <2>2, <1>1 DEF SaverRow, SavePC
  <2>7. again \in SaverRow
    BY <2>1, <1>1 DEF SaverRow, SavePC
  <2> QED BY <2>1, <2>2, <2>3, <2>4, <2>5, <2>6, <2>7
<1>6. /\ \A pc : To(s, pc) = [saver EXCEPT ![s] = At(pc)]
      /\ \A o : Ends(s, o) = [saver EXCEPT ![s] = Done(o)]
      /\ \A pc : [To(s, pc) EXCEPT ![s].linked = FALSE] = [saver EXCEPT ![s] = Cut(pc)]
  BY <1>1 DEF To, Ends, SaverRow
<1>7. ASSUME OpenEditor(s) PROVE Goal
  <2> USE <1>7
  <2>1. \/ \E k \in {"edit", "force"} : (Quiet(s, Editor(k), temp[s]))
    BY <1>1, <1>2, <1>3, <1>4, <1>5, <1>6 DEF OpenEditor, SaverAt, Put, Quiet, Writing, TempIs,
         CommandFails, NextProtocol, SavePC, SaveKind, Outcome, Temps, SaveInv, Checked,
         StepsOfKind, EditPC, SftpPC
  <2>2. ASSUME NEW k \in {"edit", "force"}, Quiet(s, Editor(k), temp[s]) PROVE Goal
    <3>1. Typed /\ Apart(s) /\ saver'[s] = Editor(k) /\ temp'[s] = temp[s]
          /\ sent'[s] = sent[s] /\ dest' = dest
      BY <2>2, <1>2, QuietStep
    <3>2. SaveInv(s)'
      BY <3>1, <2>2, <1>1, <1>2 DEF OpenEditor, SaverAt, SaveInv, StepsOfKind, Checked, Heard,
           ReplacedBaseline, AnsweredTruly, EditPC, SftpPC, SaverRow, SentRow, NoSaver
    <3>3. TornBy'
      BY <3>1, <2>2, <1>1, <1>2, TornStays DEF OpenEditor, SaverAt, WrittenPC, SaveInv, StepsOfKind,
           EditPC, SftpPC, Apart, SaverRow, Typed, Checked, Absent, NoSaver
    <3> QED BY <3>1, <3>2, <3>3
  <2> QED BY <2>1, <2>2
<1>8. ASSUME StageEdit(s) PROVE Goal
  <2> USE <1>8
  <2>1. \/ (Quiet(s, At("write"), "part") /\ q.linked)
        \/ (Quiet(s, Done("failed"), temp[s]))
    BY <1>1, <1>2, <1>3, <1>4, <1>5, <1>6 DEF StageEdit, SaverAt, Put, Quiet, Writing, TempIs,
         CommandFails, NextProtocol, SavePC, SaveKind, Outcome, Temps, SaveInv, Checked,
         StepsOfKind, EditPC, SftpPC
  <2>2. ASSUME Quiet(s, At("write"), "part"), q.linked PROVE Goal
    <3>1. Typed /\ Apart(s) /\ saver'[s] = At("write") /\ temp'[s] = "part"
          /\ sent'[s] = sent[s] /\ dest' = dest
      BY <2>2, <1>2, QuietStep
    <3>2. SaveInv(s)'
      BY <3>1, <2>2, <1>1, <1>2 DEF StageEdit, SaverAt, SaveInv, StepsOfKind, Checked, Heard,
           ReplacedBaseline, AnsweredTruly, EditPC, SftpPC, SaverRow, SentRow, NoSaver
    <3>3. TornBy'
      BY <3>1, <2>2, <1>1, <1>2, TornStays DEF StageEdit, SaverAt, WrittenPC, SaveInv, StepsOfKind,
           EditPC, SftpPC, Apart, SaverRow, Typed, Checked, Absent, NoSaver
    <3> QED BY <3>1, <3>2, <3>3
  <2>3. ASSUME Quiet(s, Done("failed"), temp[s]) PROVE Goal
    <3>1. Typed /\ Apart(s) /\ saver'[s] = Done("failed") /\ temp'[s] = temp[s]
          /\ sent'[s] = sent[s] /\ dest' = dest
      BY <2>3, <1>2, QuietStep
    <3>2. SaveInv(s)'
      BY <3>1, <2>3, <1>1, <1>2 DEF StageEdit, SaverAt, SaveInv, StepsOfKind, Checked, Heard,
           ReplacedBaseline, AnsweredTruly, EditPC, SftpPC, SaverRow, SentRow, NoSaver
    <3>3. TornBy'
      BY <3>1, <2>3, <1>1, <1>2, TornStays DEF StageEdit, SaverAt, WrittenPC, SaveInv, StepsOfKind,
           EditPC, SftpPC, Apart, SaverRow, Typed, Checked, Absent, NoSaver
    <3> QED BY <3>1, <3>2, <3>3
  <2> QED BY <2>1, <2>2, <2>3
<1>9. ASSUME WriteEdit(s) PROVE Goal
  <2> USE <1>9
  <2>1. \/ (Quiet(s, At("size"), "whole"))
        \/ (Quiet(s, Cut("size"), temp[s]) /\ temp[s] # "whole")
        \/ \E t \in Temps : (Quiet(s, Done("failed"), t))
    BY <1>1, <1>2, <1>3, <1>4, <1>5, <1>6 DEF WriteEdit, SaverAt, Put, Quiet, Writing, TempIs,
         CommandFails, NextProtocol, SavePC, SaveKind, Outcome, Temps, SaveInv, Checked,
         StepsOfKind, EditPC, SftpPC
  <2>2. ASSUME Quiet(s, At("size"), "whole") PROVE Goal
    <3>1. Typed /\ Apart(s) /\ saver'[s] = At("size") /\ temp'[s] = "whole"
          /\ sent'[s] = sent[s] /\ dest' = dest
      BY <2>2, <1>2, QuietStep
    <3>2. SaveInv(s)'
      BY <3>1, <2>2, <1>1, <1>2 DEF WriteEdit, SaverAt, SaveInv, StepsOfKind, Checked, Heard,
           ReplacedBaseline, AnsweredTruly, EditPC, SftpPC, SaverRow, SentRow, NoSaver
    <3>3. TornBy'
      BY <3>1, <2>2, <1>1, <1>2, TornStays DEF WriteEdit, SaverAt, WrittenPC, SaveInv, StepsOfKind,
           EditPC, SftpPC, Apart, SaverRow, Typed, Checked, Absent, NoSaver
    <3> QED BY <3>1, <3>2, <3>3
  <2>3. ASSUME Quiet(s, Cut("size"), temp[s]), temp[s] # "whole" PROVE Goal
    <3>1. Typed /\ Apart(s) /\ saver'[s] = Cut("size") /\ temp'[s] = temp[s]
          /\ sent'[s] = sent[s] /\ dest' = dest
      BY <2>3, <1>2, QuietStep
    <3>2. SaveInv(s)'
      BY <3>1, <2>3, <1>1, <1>2 DEF WriteEdit, SaverAt, SaveInv, StepsOfKind, Checked, Heard,
           ReplacedBaseline, AnsweredTruly, EditPC, SftpPC, SaverRow, SentRow, NoSaver
    <3>3. TornBy'
      BY <3>1, <2>3, <1>1, <1>2, TornStays DEF WriteEdit, SaverAt, WrittenPC, SaveInv, StepsOfKind,
           EditPC, SftpPC, Apart, SaverRow, Typed, Checked, Absent, NoSaver
    <3> QED BY <3>1, <3>2, <3>3
  <2>4. ASSUME NEW t \in Temps, Quiet(s, Done("failed"), t) PROVE Goal
    <3>1. Typed /\ Apart(s) /\ saver'[s] = Done("failed") /\ temp'[s] = t
          /\ sent'[s] = sent[s] /\ dest' = dest
      BY <2>4, <1>2, QuietStep
    <3>2. SaveInv(s)'
      BY <3>1, <2>4, <1>1, <1>2 DEF WriteEdit, SaverAt, SaveInv, StepsOfKind, Checked, Heard,
           ReplacedBaseline, AnsweredTruly, EditPC, SftpPC, SaverRow, SentRow, NoSaver
    <3>3. TornBy'
      BY <3>1, <2>4, <1>1, <1>2, TornStays DEF WriteEdit, SaverAt, WrittenPC, SaveInv, StepsOfKind,
           EditPC, SftpPC, Apart, SaverRow, Typed, Checked, Absent, NoSaver
    <3> QED BY <3>1, <3>2, <3>3
  <2> QED BY <2>1, <2>2, <2>3, <2>4
<1>10. ASSUME CheckSize(s) PROVE Goal
  <2> USE <1>10
  <2>1. \/ (Quiet(s, At("replace"), temp[s]) /\ temp[s] = "whole" /\ q.kind = "force")
        \/ (Quiet(s, At("hash"), temp[s]) /\ temp[s] = "whole")
        \/ \E t \in Temps : (Quiet(s, Done("failed"), t))
    BY <1>1, <1>2, <1>3, <1>4, <1>5, <1>6 DEF CheckSize, SaverAt, Put, Quiet, Writing, TempIs,
         CommandFails, NextProtocol, SavePC, SaveKind, Outcome, Temps, SaveInv, Checked,
         StepsOfKind, EditPC, SftpPC
  <2>2. ASSUME Quiet(s, At("replace"), temp[s]), temp[s] = "whole" /\ q.kind = "force" PROVE Goal
    <3>1. Typed /\ Apart(s) /\ saver'[s] = At("replace") /\ temp'[s] = temp[s]
          /\ sent'[s] = sent[s] /\ dest' = dest
      BY <2>2, <1>2, QuietStep
    <3>2. SaveInv(s)'
      BY <3>1, <2>2, <1>1, <1>2 DEF CheckSize, SaverAt, SaveInv, StepsOfKind, Checked, Heard,
           ReplacedBaseline, AnsweredTruly, EditPC, SftpPC, SaverRow, SentRow, NoSaver
    <3>3. TornBy'
      BY <3>1, <2>2, <1>1, <1>2, TornStays DEF CheckSize, SaverAt, WrittenPC, SaveInv, StepsOfKind,
           EditPC, SftpPC, Apart, SaverRow, Typed, Checked, Absent, NoSaver
    <3> QED BY <3>1, <3>2, <3>3
  <2>3. ASSUME Quiet(s, At("hash"), temp[s]), temp[s] = "whole" PROVE Goal
    <3>1. Typed /\ Apart(s) /\ saver'[s] = At("hash") /\ temp'[s] = temp[s]
          /\ sent'[s] = sent[s] /\ dest' = dest
      BY <2>3, <1>2, QuietStep
    <3>2. SaveInv(s)'
      BY <3>1, <2>3, <1>1, <1>2 DEF CheckSize, SaverAt, SaveInv, StepsOfKind, Checked, Heard,
           ReplacedBaseline, AnsweredTruly, EditPC, SftpPC, SaverRow, SentRow, NoSaver
    <3>3. TornBy'
      BY <3>1, <2>3, <1>1, <1>2, TornStays DEF CheckSize, SaverAt, WrittenPC, SaveInv, StepsOfKind,
           EditPC, SftpPC, Apart, SaverRow, Typed, Checked, Absent, NoSaver
    <3> QED BY <3>1, <3>2, <3>3
  <2>4. ASSUME NEW t \in Temps, Quiet(s, Done("failed"), t) PROVE Goal
    <3>1. Typed /\ Apart(s) /\ saver'[s] = Done("failed") /\ temp'[s] = t
          /\ sent'[s] = sent[s] /\ dest' = dest
      BY <2>4, <1>2, QuietStep
    <3>2. SaveInv(s)'
      BY <3>1, <2>4, <1>1, <1>2 DEF CheckSize, SaverAt, SaveInv, StepsOfKind, Checked, Heard,
           ReplacedBaseline, AnsweredTruly, EditPC, SftpPC, SaverRow, SentRow, NoSaver
    <3>3. TornBy'
      BY <3>1, <2>4, <1>1, <1>2, TornStays DEF CheckSize, SaverAt, WrittenPC, SaveInv, StepsOfKind,
           EditPC, SftpPC, Apart, SaverRow, Typed, Checked, Absent, NoSaver
    <3> QED BY <3>1, <3>2, <3>3
  <2> QED BY <2>1, <2>2, <2>3, <2>4
<1>11. ASSUME CheckHash(s) PROVE Goal
  <2> USE <1>11
  <2>1. \/ (Quiet(s, At("replace"), temp[s]) /\ dest = q.base)
        \/ \E t \in Temps : (Quiet(s, Done("failed"), t))
        \/ \E t \in Temps : (Quiet(s, Done("conflict"), t))
    BY <1>1, <1>2, <1>3, <1>4, <1>5, <1>6 DEF CheckHash, SaverAt, Put, Quiet, Writing, TempIs,
         CommandFails, NextProtocol, SavePC, SaveKind, Outcome, Temps, SaveInv, Checked,
         StepsOfKind, EditPC, SftpPC
  <2>2. ASSUME Quiet(s, At("replace"), temp[s]), dest = q.base PROVE Goal
    <3>1. Typed /\ Apart(s) /\ saver'[s] = At("replace") /\ temp'[s] = temp[s]
          /\ sent'[s] = sent[s] /\ dest' = dest
      BY <2>2, <1>2, QuietStep
    <3>2. SaveInv(s)'
      BY <3>1, <2>2, <1>1, <1>2 DEF CheckHash, SaverAt, SaveInv, StepsOfKind, Checked, Heard,
           ReplacedBaseline, AnsweredTruly, EditPC, SftpPC, SaverRow, SentRow, NoSaver
    <3>3. TornBy'
      BY <3>1, <2>2, <1>1, <1>2, TornStays DEF CheckHash, SaverAt, WrittenPC, SaveInv, StepsOfKind,
           EditPC, SftpPC, Apart, SaverRow, Typed, Checked, Absent, NoSaver
    <3> QED BY <3>1, <3>2, <3>3
  <2>3. ASSUME NEW t \in Temps, Quiet(s, Done("failed"), t) PROVE Goal
    <3>1. Typed /\ Apart(s) /\ saver'[s] = Done("failed") /\ temp'[s] = t
          /\ sent'[s] = sent[s] /\ dest' = dest
      BY <2>3, <1>2, QuietStep
    <3>2. SaveInv(s)'
      BY <3>1, <2>3, <1>1, <1>2 DEF CheckHash, SaverAt, SaveInv, StepsOfKind, Checked, Heard,
           ReplacedBaseline, AnsweredTruly, EditPC, SftpPC, SaverRow, SentRow, NoSaver
    <3>3. TornBy'
      BY <3>1, <2>3, <1>1, <1>2, TornStays DEF CheckHash, SaverAt, WrittenPC, SaveInv, StepsOfKind,
           EditPC, SftpPC, Apart, SaverRow, Typed, Checked, Absent, NoSaver
    <3> QED BY <3>1, <3>2, <3>3
  <2>4. ASSUME NEW t \in Temps, Quiet(s, Done("conflict"), t) PROVE Goal
    <3>1. Typed /\ Apart(s) /\ saver'[s] = Done("conflict") /\ temp'[s] = t
          /\ sent'[s] = sent[s] /\ dest' = dest
      BY <2>4, <1>2, QuietStep
    <3>2. SaveInv(s)'
      BY <3>1, <2>4, <1>1, <1>2 DEF CheckHash, SaverAt, SaveInv, StepsOfKind, Checked, Heard,
           ReplacedBaseline, AnsweredTruly, EditPC, SftpPC, SaverRow, SentRow, NoSaver
    <3>3. TornBy'
      BY <3>1, <2>4, <1>1, <1>2, TornStays DEF CheckHash, SaverAt, WrittenPC, SaveInv, StepsOfKind,
           EditPC, SftpPC, Apart, SaverRow, Typed, Checked, Absent, NoSaver
    <3> QED BY <3>1, <3>2, <3>3
  <2> QED BY <2>1, <2>2, <2>3, <2>4
<1>12. ASSUME Replace(s) PROVE Goal
  <2> USE <1>12
  <2>1. \/ (Writing(s, At("answer"), "none", Mine(TRUE), TRUE))
        \/ \E t \in Temps : (Quiet(s, Done("failed"), t))
    BY <1>1, <1>2, <1>3, <1>4, <1>5, <1>6 DEF Replace, SaverAt, Put, Quiet, Writing, TempIs,
         CommandFails, NextProtocol, SavePC, SaveKind, Outcome, Temps, SaveInv, Checked,
         StepsOfKind, EditPC, SftpPC
  <2>2. ASSUME Writing(s, At("answer"), "none", Mine(TRUE), TRUE) PROVE Goal
    <3>1. Typed /\ Apart(s) /\ saver'[s] = At("answer") /\ temp'[s] = "none" /\ dest' = Mine(TRUE)
          /\ sent'[s] = [sent[s] EXCEPT !.whole = TRUE, !.over = dest]
      <4> HIDE DEF At, Done, Mine, Cut, Editor, Uploader, again
      <4> QED BY <2>2, <1>2, WritingStep
    <3>2. SaveInv(s)'
      BY <3>1, <2>2, <1>1, <1>2 DEF Replace, SaverAt, SaveInv, StepsOfKind, Checked, Heard,
           ReplacedBaseline, AnsweredTruly, EditPC, SftpPC, SaverRow, SentRow, NoSaver
    <3>3. TornBy'
      BY <3>1, <2>2, <1>1, <1>2 DEF Replace, SaverAt, TornBy, WrittenPC, SaveInv, StepsOfKind,
           EditPC, SftpPC, Apart, SaverRow, Typed, Checked, Absent, NoSaver
    <3> QED BY <3>1, <3>2, <3>3
  <2>3. ASSUME NEW t \in Temps, Quiet(s, Done("failed"), t) PROVE Goal
    <3>1. Typed /\ Apart(s) /\ saver'[s] = Done("failed") /\ temp'[s] = t
          /\ sent'[s] = sent[s] /\ dest' = dest
      BY <2>3, <1>2, QuietStep
    <3>2. SaveInv(s)'
      BY <3>1, <2>3, <1>1, <1>2 DEF Replace, SaverAt, SaveInv, StepsOfKind, Checked, Heard,
           ReplacedBaseline, AnsweredTruly, EditPC, SftpPC, SaverRow, SentRow, NoSaver
    <3>3. TornBy'
      BY <3>1, <2>3, <1>1, <1>2, TornStays DEF Replace, SaverAt, WrittenPC, SaveInv, StepsOfKind,
           EditPC, SftpPC, Apart, SaverRow, Typed, Checked, Absent, NoSaver
    <3> QED BY <3>1, <3>2, <3>3
  <2> QED BY <2>1, <2>2, <2>3
<1>13. ASSUME AnswerSave(s) PROVE Goal
  <2> USE <1>13
  <2>1. \/ (Quiet(s, Done("saved"), temp[s]) /\ q.linked)
        \/ (Quiet(s, Done("failed"), temp[s]))
    BY <1>1, <1>2, <1>3, <1>4, <1>5, <1>6 DEF AnswerSave, SaverAt, Put, Quiet, Writing, TempIs,
         CommandFails, NextProtocol, SavePC, SaveKind, Outcome, Temps, SaveInv, Checked,
         StepsOfKind, EditPC, SftpPC
  <2>2. ASSUME Quiet(s, Done("saved"), temp[s]), q.linked PROVE Goal
    <3>1. Typed /\ Apart(s) /\ saver'[s] = Done("saved") /\ temp'[s] = temp[s]
          /\ sent'[s] = sent[s] /\ dest' = dest
      BY <2>2, <1>2, QuietStep
    <3>2. SaveInv(s)'
      BY <3>1, <2>2, <1>1, <1>2 DEF AnswerSave, SaverAt, SaveInv, StepsOfKind, Checked, Heard,
           ReplacedBaseline, AnsweredTruly, EditPC, SftpPC, SaverRow, SentRow, NoSaver
    <3>3. TornBy'
      BY <3>1, <2>2, <1>1, <1>2, TornStays DEF AnswerSave, SaverAt, WrittenPC, SaveInv, StepsOfKind,
           EditPC, SftpPC, Apart, SaverRow, Typed, Checked, Absent, NoSaver
    <3> QED BY <3>1, <3>2, <3>3
  <2>3. ASSUME Quiet(s, Done("failed"), temp[s]) PROVE Goal
    <3>1. Typed /\ Apart(s) /\ saver'[s] = Done("failed") /\ temp'[s] = temp[s]
          /\ sent'[s] = sent[s] /\ dest' = dest
      BY <2>3, <1>2, QuietStep
    <3>2. SaveInv(s)'
      BY <3>1, <2>3, <1>1, <1>2 DEF AnswerSave, SaverAt, SaveInv, StepsOfKind, Checked, Heard,
           ReplacedBaseline, AnsweredTruly, EditPC, SftpPC, SaverRow, SentRow, NoSaver
    <3>3. TornBy'
      BY <3>1, <2>3, <1>1, <1>2, TornStays DEF AnswerSave, SaverAt, WrittenPC, SaveInv, StepsOfKind,
           EditPC, SftpPC, Apart, SaverRow, Typed, Checked, Absent, NoSaver
    <3> QED BY <3>1, <3>2, <3>3
  <2> QED BY <2>1, <2>2, <2>3
<1>14. ASSUME StartUpload(s) PROVE Goal
  <2> USE <1>14
  <2>1. \/ \E k \in {"stream", "base64"} : (Quiet(s, Uploader(k), temp[s]))
    BY <1>1, <1>2, <1>3, <1>4, <1>5, <1>6 DEF StartUpload, SaverAt, Put, Quiet, Writing, TempIs,
         CommandFails, NextProtocol, SavePC, SaveKind, Outcome, Temps, SaveInv, Checked,
         StepsOfKind, EditPC, SftpPC
  <2>2. ASSUME NEW k \in {"stream", "base64"}, Quiet(s, Uploader(k), temp[s]) PROVE Goal
    <3>1. Typed /\ Apart(s) /\ saver'[s] = Uploader(k) /\ temp'[s] = temp[s]
          /\ sent'[s] = sent[s] /\ dest' = dest
      BY <2>2, <1>2, QuietStep
    <3>2. SaveInv(s)'
      BY <3>1, <2>2, <1>1, <1>2 DEF StartUpload, SaverAt, SaveInv, StepsOfKind, Checked, Heard,
           ReplacedBaseline, AnsweredTruly, EditPC, SftpPC, SaverRow, SentRow, NoSaver
    <3>3. TornBy'
      BY <3>1, <2>2, <1>1, <1>2, TornStays DEF StartUpload, SaverAt, WrittenPC, SaveInv,
           StepsOfKind, EditPC, SftpPC, Apart, SaverRow, Typed, Checked, Absent, NoSaver
    <3> QED BY <3>1, <3>2, <3>3
  <2> QED BY <2>1, <2>2
<1>15. ASSUME SftpWrite(s) PROVE Goal
  <2> USE <1>15
  <2>1. \/ (Quiet(s, At("posixRename"), "whole"))
        \/ \E t \in Temps : (Quiet(s, At("cat"), t) /\ q.kind = "stream")
        \/ \E t \in Temps : (Quiet(s, At("scp"), t) /\ q.kind = "base64")
    BY <1>1, <1>2, <1>3, <1>4, <1>5, <1>6 DEF SftpWrite, SaverAt, Put, Quiet, Writing, TempIs,
         CommandFails, NextProtocol, SavePC, SaveKind, Outcome, Temps, SaveInv, Checked,
         StepsOfKind, EditPC, SftpPC
  <2>2. ASSUME Quiet(s, At("posixRename"), "whole") PROVE Goal
    <3>1. Typed /\ Apart(s) /\ saver'[s] = At("posixRename") /\ temp'[s] = "whole"
          /\ sent'[s] = sent[s] /\ dest' = dest
      BY <2>2, <1>2, QuietStep
    <3>2. SaveInv(s)'
      BY <3>1, <2>2, <1>1, <1>2 DEF SftpWrite, SaverAt, SaveInv, StepsOfKind, Checked, Heard,
           ReplacedBaseline, AnsweredTruly, EditPC, SftpPC, SaverRow, SentRow, NoSaver
    <3>3. TornBy'
      BY <3>1, <2>2, <1>1, <1>2, TornStays DEF SftpWrite, SaverAt, WrittenPC, SaveInv, StepsOfKind,
           EditPC, SftpPC, Apart, SaverRow, Typed, Checked, Absent, NoSaver
    <3> QED BY <3>1, <3>2, <3>3
  <2>3. ASSUME NEW t \in Temps, Quiet(s, At("cat"), t), q.kind = "stream" PROVE Goal
    <3>1. Typed /\ Apart(s) /\ saver'[s] = At("cat") /\ temp'[s] = t
          /\ sent'[s] = sent[s] /\ dest' = dest
      BY <2>3, <1>2, QuietStep
    <3>2. SaveInv(s)'
      BY <3>1, <2>3, <1>1, <1>2 DEF SftpWrite, SaverAt, SaveInv, StepsOfKind, Checked, Heard,
           ReplacedBaseline, AnsweredTruly, EditPC, SftpPC, SaverRow, SentRow, NoSaver
    <3>3. TornBy'
      BY <3>1, <2>3, <1>1, <1>2, TornStays DEF SftpWrite, SaverAt, WrittenPC, SaveInv, StepsOfKind,
           EditPC, SftpPC, Apart, SaverRow, Typed, Checked, Absent, NoSaver
    <3> QED BY <3>1, <3>2, <3>3
  <2>4. ASSUME NEW t \in Temps, Quiet(s, At("scp"), t), q.kind = "base64" PROVE Goal
    <3>1. Typed /\ Apart(s) /\ saver'[s] = At("scp") /\ temp'[s] = t
          /\ sent'[s] = sent[s] /\ dest' = dest
      BY <2>4, <1>2, QuietStep
    <3>2. SaveInv(s)'
      BY <3>1, <2>4, <1>1, <1>2 DEF SftpWrite, SaverAt, SaveInv, StepsOfKind, Checked, Heard,
           ReplacedBaseline, AnsweredTruly, EditPC, SftpPC, SaverRow, SentRow, NoSaver
    <3>3. TornBy'
      BY <3>1, <2>4, <1>1, <1>2, TornStays DEF SftpWrite, SaverAt, WrittenPC, SaveInv, StepsOfKind,
           EditPC, SftpPC, Apart, SaverRow, Typed, Checked, Absent, NoSaver
    <3> QED BY <3>1, <3>2, <3>3
  <2> QED BY <2>1, <2>2, <2>3, <2>4
<1>16. ASSUME PosixRename(s) PROVE Goal
  <2> USE <1>16
  <2>1. \/ (Writing(s, At("answer"), "none", Mine(TRUE), TRUE))
        \/ (Quiet(s, At("remove"), temp[s]))
    BY <1>1, <1>2, <1>3, <1>4, <1>5, <1>6 DEF PosixRename, SaverAt, Put, Quiet, Writing, TempIs,
         CommandFails, NextProtocol, SavePC, SaveKind, Outcome, Temps, SaveInv, Checked,
         StepsOfKind, EditPC, SftpPC
  <2>2. ASSUME Writing(s, At("answer"), "none", Mine(TRUE), TRUE) PROVE Goal
    <3>1. Typed /\ Apart(s) /\ saver'[s] = At("answer") /\ temp'[s] = "none" /\ dest' = Mine(TRUE)
          /\ sent'[s] = [sent[s] EXCEPT !.whole = TRUE, !.over = dest]
      <4> HIDE DEF At, Done, Mine, Cut, Editor, Uploader, again
      <4> QED BY <2>2, <1>2, WritingStep
    <3>2. SaveInv(s)'
      BY <3>1, <2>2, <1>1, <1>2 DEF PosixRename, SaverAt, SaveInv, StepsOfKind, Checked, Heard,
           ReplacedBaseline, AnsweredTruly, EditPC, SftpPC, SaverRow, SentRow, NoSaver
    <3>3. TornBy'
      BY <3>1, <2>2, <1>1, <1>2 DEF PosixRename, SaverAt, TornBy, WrittenPC, SaveInv, StepsOfKind,
           EditPC, SftpPC, Apart, SaverRow, Typed, Checked, Absent, NoSaver
    <3> QED BY <3>1, <3>2, <3>3
  <2>3. ASSUME Quiet(s, At("remove"), temp[s]) PROVE Goal
    <3>1. Typed /\ Apart(s) /\ saver'[s] = At("remove") /\ temp'[s] = temp[s]
          /\ sent'[s] = sent[s] /\ dest' = dest
      BY <2>3, <1>2, QuietStep
    <3>2. SaveInv(s)'
      BY <3>1, <2>3, <1>1, <1>2 DEF PosixRename, SaverAt, SaveInv, StepsOfKind, Checked, Heard,
           ReplacedBaseline, AnsweredTruly, EditPC, SftpPC, SaverRow, SentRow, NoSaver
    <3>3. TornBy'
      BY <3>1, <2>3, <1>1, <1>2, TornStays DEF PosixRename, SaverAt, WrittenPC, SaveInv,
           StepsOfKind, EditPC, SftpPC, Apart, SaverRow, Typed, Checked, Absent, NoSaver
    <3> QED BY <3>1, <3>2, <3>3
  <2> QED BY <2>1, <2>2, <2>3
<1>17. ASSUME RemoveOld(s) PROVE Goal
  <2> USE <1>17
  <2>1. \/ (Writing(s, At("rename"), temp[s], Absent, TRUE))
        \/ (Quiet(s, At("rename"), temp[s]))
    BY <1>1, <1>2, <1>3, <1>4, <1>5, <1>6 DEF RemoveOld, SaverAt, Put, Quiet, Writing, TempIs,
         CommandFails, NextProtocol, SavePC, SaveKind, Outcome, Temps, SaveInv, Checked,
         StepsOfKind, EditPC, SftpPC
  <2>2. ASSUME Writing(s, At("rename"), temp[s], Absent, TRUE) PROVE Goal
    <3>1. Typed /\ Apart(s) /\ saver'[s] = At("rename") /\ temp'[s] = temp[s] /\ dest' = Absent
          /\ sent'[s] = [sent[s] EXCEPT !.whole = TRUE, !.over = dest]
      <4> HIDE DEF At, Done, Mine, Cut, Editor, Uploader, again
      <4> QED BY <2>2, <1>2, WritingStep
    <3>2. SaveInv(s)'
      BY <3>1, <2>2, <1>1, <1>2 DEF RemoveOld, SaverAt, SaveInv, StepsOfKind, Checked, Heard,
           ReplacedBaseline, AnsweredTruly, EditPC, SftpPC, SaverRow, SentRow, NoSaver
    <3>3. TornBy'
      BY <3>1, <2>2, <1>1, <1>2 DEF RemoveOld, SaverAt, TornBy, WrittenPC, SaveInv, StepsOfKind,
           EditPC, SftpPC, Apart, SaverRow, Typed, Checked, Absent, NoSaver
    <3> QED BY <3>1, <3>2, <3>3
  <2>3. ASSUME Quiet(s, At("rename"), temp[s]) PROVE Goal
    <3>1. Typed /\ Apart(s) /\ saver'[s] = At("rename") /\ temp'[s] = temp[s]
          /\ sent'[s] = sent[s] /\ dest' = dest
      BY <2>3, <1>2, QuietStep
    <3>2. SaveInv(s)'
      BY <3>1, <2>3, <1>1, <1>2 DEF RemoveOld, SaverAt, SaveInv, StepsOfKind, Checked, Heard,
           ReplacedBaseline, AnsweredTruly, EditPC, SftpPC, SaverRow, SentRow, NoSaver
    <3>3. TornBy'
      BY <3>1, <2>3, <1>1, <1>2, TornStays DEF RemoveOld, SaverAt, WrittenPC, SaveInv, StepsOfKind,
           EditPC, SftpPC, Apart, SaverRow, Typed, Checked, Absent, NoSaver
    <3> QED BY <3>1, <3>2, <3>3
  <2> QED BY <2>1, <2>2, <2>3
<1>18. ASSUME RenameNew(s) PROVE Goal
  <2> USE <1>18
  <2>1. \/ (Writing(s, At("answer"), "none", Mine(TRUE), TRUE))
        \/ \E t \in Temps : (Quiet(s, At("cat"), t) /\ q.kind = "stream")
        \/ \E t \in Temps : (Quiet(s, At("scp"), t) /\ q.kind = "base64")
    BY <1>1, <1>2, <1>3, <1>4, <1>5, <1>6 DEF RenameNew, SaverAt, Put, Quiet, Writing, TempIs,
         CommandFails, NextProtocol, SavePC, SaveKind, Outcome, Temps, SaveInv, Checked,
         StepsOfKind, EditPC, SftpPC
  <2>2. ASSUME Writing(s, At("answer"), "none", Mine(TRUE), TRUE) PROVE Goal
    <3>1. Typed /\ Apart(s) /\ saver'[s] = At("answer") /\ temp'[s] = "none" /\ dest' = Mine(TRUE)
          /\ sent'[s] = [sent[s] EXCEPT !.whole = TRUE, !.over = dest]
      <4> HIDE DEF At, Done, Mine, Cut, Editor, Uploader, again
      <4> QED BY <2>2, <1>2, WritingStep
    <3>2. SaveInv(s)'
      BY <3>1, <2>2, <1>1, <1>2 DEF RenameNew, SaverAt, SaveInv, StepsOfKind, Checked, Heard,
           ReplacedBaseline, AnsweredTruly, EditPC, SftpPC, SaverRow, SentRow, NoSaver
    <3>3. TornBy'
      BY <3>1, <2>2, <1>1, <1>2 DEF RenameNew, SaverAt, TornBy, WrittenPC, SaveInv, StepsOfKind,
           EditPC, SftpPC, Apart, SaverRow, Typed, Checked, Absent, NoSaver
    <3> QED BY <3>1, <3>2, <3>3
  <2>3. ASSUME NEW t \in Temps, Quiet(s, At("cat"), t), q.kind = "stream" PROVE Goal
    <3>1. Typed /\ Apart(s) /\ saver'[s] = At("cat") /\ temp'[s] = t
          /\ sent'[s] = sent[s] /\ dest' = dest
      BY <2>3, <1>2, QuietStep
    <3>2. SaveInv(s)'
      BY <3>1, <2>3, <1>1, <1>2 DEF RenameNew, SaverAt, SaveInv, StepsOfKind, Checked, Heard,
           ReplacedBaseline, AnsweredTruly, EditPC, SftpPC, SaverRow, SentRow, NoSaver
    <3>3. TornBy'
      BY <3>1, <2>3, <1>1, <1>2, TornStays DEF RenameNew, SaverAt, WrittenPC, SaveInv, StepsOfKind,
           EditPC, SftpPC, Apart, SaverRow, Typed, Checked, Absent, NoSaver
    <3> QED BY <3>1, <3>2, <3>3
  <2>4. ASSUME NEW t \in Temps, Quiet(s, At("scp"), t), q.kind = "base64" PROVE Goal
    <3>1. Typed /\ Apart(s) /\ saver'[s] = At("scp") /\ temp'[s] = t
          /\ sent'[s] = sent[s] /\ dest' = dest
      BY <2>4, <1>2, QuietStep
    <3>2. SaveInv(s)'
      BY <3>1, <2>4, <1>1, <1>2 DEF RenameNew, SaverAt, SaveInv, StepsOfKind, Checked, Heard,
           ReplacedBaseline, AnsweredTruly, EditPC, SftpPC, SaverRow, SentRow, NoSaver
    <3>3. TornBy'
      BY <3>1, <2>4, <1>1, <1>2, TornStays DEF RenameNew, SaverAt, WrittenPC, SaveInv, StepsOfKind,
           EditPC, SftpPC, Apart, SaverRow, Typed, Checked, Absent, NoSaver
    <3> QED BY <3>1, <3>2, <3>3
  <2> QED BY <2>1, <2>2, <2>3, <2>4
<1>19. ASSUME CatStream(s) PROVE Goal
  <2> USE <1>19
  <2>1. \/ (Quiet(s, At("mv"), "whole"))
        \/ (Quiet(s, Cut("mv"), "part"))
        \/ \E t \in Temps : (Quiet(s, Done("failed"), t))
    BY <1>1, <1>2, <1>3, <1>4, <1>5, <1>6 DEF CatStream, SaverAt, Put, Quiet, Writing, TempIs,
         CommandFails, NextProtocol, SavePC, SaveKind, Outcome, Temps, SaveInv, Checked,
         StepsOfKind, EditPC, SftpPC
  <2>2. ASSUME Quiet(s, At("mv"), "whole") PROVE Goal
    <3>1. Typed /\ Apart(s) /\ saver'[s] = At("mv") /\ temp'[s] = "whole"
          /\ sent'[s] = sent[s] /\ dest' = dest
      BY <2>2, <1>2, QuietStep
    <3>2. SaveInv(s)'
      BY <3>1, <2>2, <1>1, <1>2 DEF CatStream, SaverAt, SaveInv, StepsOfKind, Checked, Heard,
           ReplacedBaseline, AnsweredTruly, EditPC, SftpPC, SaverRow, SentRow, NoSaver
    <3>3. TornBy'
      BY <3>1, <2>2, <1>1, <1>2, TornStays DEF CatStream, SaverAt, WrittenPC, SaveInv, StepsOfKind,
           EditPC, SftpPC, Apart, SaverRow, Typed, Checked, Absent, NoSaver
    <3> QED BY <3>1, <3>2, <3>3
  <2>3. ASSUME Quiet(s, Cut("mv"), "part") PROVE Goal
    <3>1. Typed /\ Apart(s) /\ saver'[s] = Cut("mv") /\ temp'[s] = "part"
          /\ sent'[s] = sent[s] /\ dest' = dest
      BY <2>3, <1>2, QuietStep
    <3>2. SaveInv(s)'
      BY <3>1, <2>3, <1>1, <1>2 DEF CatStream, SaverAt, SaveInv, StepsOfKind, Checked, Heard,
           ReplacedBaseline, AnsweredTruly, EditPC, SftpPC, SaverRow, SentRow, NoSaver
    <3>3. TornBy'
      BY <3>1, <2>3, <1>1, <1>2, TornStays DEF CatStream, SaverAt, WrittenPC, SaveInv, StepsOfKind,
           EditPC, SftpPC, Apart, SaverRow, Typed, Checked, Absent, NoSaver
    <3> QED BY <3>1, <3>2, <3>3
  <2>4. ASSUME NEW t \in Temps, Quiet(s, Done("failed"), t) PROVE Goal
    <3>1. Typed /\ Apart(s) /\ saver'[s] = Done("failed") /\ temp'[s] = t
          /\ sent'[s] = sent[s] /\ dest' = dest
      BY <2>4, <1>2, QuietStep
    <3>2. SaveInv(s)'
      BY <3>1, <2>4, <1>1, <1>2 DEF CatStream, SaverAt, SaveInv, StepsOfKind, Checked, Heard,
           ReplacedBaseline, AnsweredTruly, EditPC, SftpPC, SaverRow, SentRow, NoSaver
    <3>3. TornBy'
      BY <3>1, <2>4, <1>1, <1>2, TornStays DEF CatStream, SaverAt, WrittenPC, SaveInv, StepsOfKind,
           EditPC, SftpPC, Apart, SaverRow, Typed, Checked, Absent, NoSaver
    <3> QED BY <3>1, <3>2, <3>3
  <2> QED BY <2>1, <2>2, <2>3, <2>4
<1>20. ASSUME MoveStream(s) PROVE Goal
  <2> USE <1>20
  <2>1. \/ (Writing(s, At("answer"), "none", Mine(TRUE), TRUE))
        \/ (Writing(s, At("answer"), "none", Mine(FALSE), FALSE) /\ temp[s] # "whole")
        \/ \E t \in Temps : (Quiet(s, Done("failed"), t))
    BY <1>1, <1>2, <1>3, <1>4, <1>5, <1>6 DEF MoveStream, SaverAt, Put, Quiet, Writing, TempIs,
         CommandFails, NextProtocol, SavePC, SaveKind, Outcome, Temps, SaveInv, Checked,
         StepsOfKind, EditPC, SftpPC
  <2>2. ASSUME Writing(s, At("answer"), "none", Mine(TRUE), TRUE) PROVE Goal
    <3>1. Typed /\ Apart(s) /\ saver'[s] = At("answer") /\ temp'[s] = "none" /\ dest' = Mine(TRUE)
          /\ sent'[s] = [sent[s] EXCEPT !.whole = TRUE, !.over = dest]
      <4> HIDE DEF At, Done, Mine, Cut, Editor, Uploader, again
      <4> QED BY <2>2, <1>2, WritingStep
    <3>2. SaveInv(s)'
      BY <3>1, <2>2, <1>1, <1>2 DEF MoveStream, SaverAt, SaveInv, StepsOfKind, Checked, Heard,
           ReplacedBaseline, AnsweredTruly, EditPC, SftpPC, SaverRow, SentRow, NoSaver
    <3>3. TornBy'
      BY <3>1, <2>2, <1>1, <1>2 DEF MoveStream, SaverAt, TornBy, WrittenPC, SaveInv, StepsOfKind,
           EditPC, SftpPC, Apart, SaverRow, Typed, Checked, Absent, NoSaver
    <3> QED BY <3>1, <3>2, <3>3
  <2>3. ASSUME Writing(s, At("answer"), "none", Mine(FALSE), FALSE), temp[s] # "whole" PROVE Goal
    <3>1. Typed /\ Apart(s) /\ saver'[s] = At("answer") /\ temp'[s] = "none" /\ dest' = Mine(FALSE)
          /\ sent'[s] = [sent[s] EXCEPT !.whole = FALSE, !.over = dest]
      <4> HIDE DEF At, Done, Mine, Cut, Editor, Uploader, again
      <4> QED BY <2>3, <1>2, WritingStep
    <3>2. SaveInv(s)'
      BY <3>1, <2>3, <1>1, <1>2 DEF MoveStream, SaverAt, SaveInv, StepsOfKind, Checked, Heard,
           ReplacedBaseline, AnsweredTruly, EditPC, SftpPC, SaverRow, SentRow, NoSaver
    <3>3. TornBy'
      BY <3>1, <2>3, <1>1, <1>2 DEF MoveStream, SaverAt, TornBy, WrittenPC, SaveInv, StepsOfKind,
           EditPC, SftpPC, Apart, SaverRow, Typed, Checked, Absent, NoSaver
    <3> QED BY <3>1, <3>2, <3>3
  <2>4. ASSUME NEW t \in Temps, Quiet(s, Done("failed"), t) PROVE Goal
    <3>1. Typed /\ Apart(s) /\ saver'[s] = Done("failed") /\ temp'[s] = t
          /\ sent'[s] = sent[s] /\ dest' = dest
      BY <2>4, <1>2, QuietStep
    <3>2. SaveInv(s)'
      BY <3>1, <2>4, <1>1, <1>2 DEF MoveStream, SaverAt, SaveInv, StepsOfKind, Checked, Heard,
           ReplacedBaseline, AnsweredTruly, EditPC, SftpPC, SaverRow, SentRow, NoSaver
    <3>3. TornBy'
      BY <3>1, <2>4, <1>1, <1>2, TornStays DEF MoveStream, SaverAt, WrittenPC, SaveInv, StepsOfKind,
           EditPC, SftpPC, Apart, SaverRow, Typed, Checked, Absent, NoSaver
    <3> QED BY <3>1, <3>2, <3>3
  <2> QED BY <2>1, <2>2, <2>3, <2>4
<1>21. ASSUME ScpBegin(s) PROVE Goal
  <2> USE <1>21
  <2>1. \/ (Writing(s, At("scpEnd"), temp[s], Mine(FALSE), FALSE))
        \/ (Quiet(s, Cut("scpEnd"), temp[s]))
    BY <1>1, <1>2, <1>3, <1>4, <1>5, <1>6 DEF ScpBegin, SaverAt, Put, Quiet, Writing, TempIs,
         CommandFails, NextProtocol, SavePC, SaveKind, Outcome, Temps, SaveInv, Checked,
         StepsOfKind, EditPC, SftpPC
  <2>2. ASSUME Writing(s, At("scpEnd"), temp[s], Mine(FALSE), FALSE) PROVE Goal
    <3>1. Typed /\ Apart(s) /\ saver'[s] = At("scpEnd") /\ temp'[s] = temp[s] /\ dest' = Mine(FALSE)
          /\ sent'[s] = [sent[s] EXCEPT !.whole = FALSE, !.over = dest]
      <4> HIDE DEF At, Done, Mine, Cut, Editor, Uploader, again
      <4> QED BY <2>2, <1>2, WritingStep
    <3>2. SaveInv(s)'
      BY <3>1, <2>2, <1>1, <1>2 DEF ScpBegin, SaverAt, SaveInv, StepsOfKind, Checked, Heard,
           ReplacedBaseline, AnsweredTruly, EditPC, SftpPC, SaverRow, SentRow, NoSaver
    <3>3. TornBy'
      BY <3>1, <2>2, <1>1, <1>2 DEF ScpBegin, SaverAt, TornBy, WrittenPC, SaveInv, StepsOfKind,
           EditPC, SftpPC, Apart, SaverRow, Typed, Checked, Absent, NoSaver
    <3> QED BY <3>1, <3>2, <3>3
  <2>3. ASSUME Quiet(s, Cut("scpEnd"), temp[s]) PROVE Goal
    <3>1. Typed /\ Apart(s) /\ saver'[s] = Cut("scpEnd") /\ temp'[s] = temp[s]
          /\ sent'[s] = sent[s] /\ dest' = dest
      BY <2>3, <1>2, QuietStep
    <3>2. SaveInv(s)'
      BY <3>1, <2>3, <1>1, <1>2 DEF ScpBegin, SaverAt, SaveInv, StepsOfKind, Checked, Heard,
           ReplacedBaseline, AnsweredTruly, EditPC, SftpPC, SaverRow, SentRow, NoSaver
    <3>3. TornBy'
      BY <3>1, <2>3, <1>1, <1>2, TornStays DEF ScpBegin, SaverAt, WrittenPC, SaveInv, StepsOfKind,
           EditPC, SftpPC, Apart, SaverRow, Typed, Checked, Absent, NoSaver
    <3> QED BY <3>1, <3>2, <3>3
  <2> QED BY <2>1, <2>2, <2>3
<1>22. ASSUME ScpFinish(s) PROVE Goal
  <2> USE <1>22
  <2>1. \/ \E w \in BOOLEAN : Writing(s, Done("saved"), temp[s], Mine(w), TRUE)
        \/ /\ saver' = [saver EXCEPT ![s] = Done("saved")] /\ temp' = temp /\ dest' = dest
           /\ sent' = [sent EXCEPT ![s].whole = TRUE]
        \/ Quiet(s, Done("failed"), temp[s])
        \/ Quiet(s, again, temp[s])
    <3> QED BY <1>1, <1>2, <1>3, <1>5, <1>6
         DEF ScpFinish, SaverAt, Quiet, Writing, TempIs, Outcome
  <2>2. ASSUME NEW w \in BOOLEAN, Writing(s, Done("saved"), temp[s], Mine(w), TRUE) PROVE Goal
    <3>1. Typed /\ Apart(s) /\ saver'[s] = Done("saved") /\ temp'[s] = temp[s] /\ dest' = Mine(w)
          /\ sent'[s] = [sent[s] EXCEPT !.whole = TRUE, !.over = dest]
      BY <2>2, <1>2, WritingStep
    <3>2. SaveInv(s)'
      BY <3>1, <2>2, <1>1, <1>2 DEF ScpFinish, SaverAt, SaveInv, StepsOfKind, Checked, Heard,
           ReplacedBaseline, AnsweredTruly, EditPC, SftpPC, SaverRow, SentRow
    <3>3. TornBy'
      BY <3>1, <2>2, <1>1, <1>2 DEF ScpFinish, SaverAt, TornBy, WrittenPC, SaveInv, StepsOfKind,
           EditPC, SftpPC, Apart, SaverRow, Typed
    <3> QED BY <3>1, <3>2, <3>3
  <2>3. ASSUME saver' = [saver EXCEPT ![s] = Done("saved")], temp' = temp, dest' = dest,
               sent' = [sent EXCEPT ![s].whole = TRUE]
        PROVE  Goal
    <3>1. /\ Typed /\ Apart(s) /\ saver'[s] = Done("saved") /\ temp'[s] = temp[s] /\ dest' = dest
          /\ sent'[s] = [sent[s] EXCEPT !.whole = TRUE]
      <4>1. sent' \in [Savers -> SentRow] /\ sent'[s] = [sent[s] EXCEPT !.whole = TRUE]
        BY <2>3, <1>1 DEF SentRow
      <4>2. saver' \in [Savers -> SaverRow] /\ saver'[s] = Done("saved")
        BY <2>3, <1>1, <1>5 DEF Outcome
      <4>3. Apart(s) BY <2>3, <1>1 DEF Apart
      <4> QED BY <4>1, <4>2, <4>3, <2>3, <1>1 DEF Typed
    <3>2. SaveInv(s)'
      BY <3>1, <1>1, <1>2 DEF ScpFinish, SaverAt, SaveInv, StepsOfKind, Checked, Heard,
           ReplacedBaseline, AnsweredTruly, EditPC, SftpPC, SaverRow, SentRow
    <3>3. TornBy'
      BY <3>1, <1>1, <1>2, TornStays DEF ScpFinish, SaverAt, WrittenPC, SaveInv, StepsOfKind,
           EditPC, SftpPC, Apart, SaverRow, Typed
    <3> QED BY <3>1, <3>2, <3>3
  <2>4. ASSUME Quiet(s, Done("failed"), temp[s]) PROVE Goal
    <3>1. Typed /\ Apart(s) /\ saver'[s] = Done("failed") /\ temp'[s] = temp[s]
          /\ sent'[s] = sent[s] /\ dest' = dest
      BY <2>4, <1>2, QuietStep
    <3>2. SaveInv(s)'
      BY <3>1, <2>4, <1>1, <1>2 DEF ScpFinish, SaverAt, SaveInv, StepsOfKind, Checked, Heard,
           ReplacedBaseline, AnsweredTruly, EditPC, SftpPC, SaverRow, SentRow
    <3>3. TornBy'
      BY <3>1, <2>4, <1>1, <1>2, TornStays DEF ScpFinish, SaverAt, WrittenPC, SaveInv, StepsOfKind,
           EditPC, SftpPC, Apart, SaverRow, Typed
    <3> QED BY <3>1, <3>2, <3>3
  <2>5. ASSUME Quiet(s, again, temp[s]) PROVE Goal
    <3>1. Typed /\ Apart(s) /\ saver'[s] = again /\ temp'[s] = temp[s]
          /\ sent'[s] = sent[s] /\ dest' = dest
      BY <2>5, <1>2, QuietStep
    <3>2. SaveInv(s)'
      BY <3>1, <2>5, <1>1, <1>2 DEF ScpFinish, SaverAt, SaveInv, StepsOfKind, Checked, Heard,
           ReplacedBaseline, AnsweredTruly, EditPC, SftpPC, SaverRow, SentRow
    <3>3. TornBy'
      BY <3>1, <2>5, <1>1, <1>2, TornStays DEF ScpFinish, SaverAt, WrittenPC, SaveInv, StepsOfKind,
           EditPC, SftpPC, Apart, SaverRow, Typed
    <3> QED BY <3>1, <3>2, <3>3
  <2> QED BY <2>1, <2>2, <2>3, <2>4, <2>5
<1>23. Goal BY <1>7, <1>8, <1>9, <1>10, <1>11, <1>12, <1>13, <1>14, <1>15, <1>16, <1>17, <1>18,
     <1>19, <1>20, <1>21, <1>22 DEF SaverStep
<1>24. \A x \in Savers : SaveInv(x)'
  <2> TAKE x \in Savers
  <2>1. CASE x = s BY <2>1, <1>23
  <2>2. CASE x # s BY <2>2, <1>23, ApartKeeps DEF RemoteInv
  <2> QED BY <2>1, <2>2
<1>25. RemoteTypeOK' BY <1>23 DEF RemoteTypeOK, SaverRow, SentRow, Typed, Temps
<1> QED BY <1>23, <1>24, <1>25 DEF RemoteInv

LEMMA RemoteInvStep == ASSUME RemoteInv, [RemoteNext]_remoteVars PROVE RemoteInv'
<1>1. CASE RemoteNext BY <1>1, SaverStepKeeps DEF RemoteNext
<1>2. CASE UNCHANGED remoteVars
  BY <1>2 DEF remoteVars, RemoteInv, RemoteTypeOK, TornBy, SaveInv, StepsOfKind, Checked, Heard,
              ReplacedBaseline, AnsweredTruly
<1> QED BY <1>1, <1>2

\* Every variable of a save keeps its type.
THEOREM RemoteTypeCorrect == RemoteSpec => []RemoteTypeOK
<1>1. RemoteInv => RemoteTypeOK BY DEF RemoteInv
<1> QED BY <1>1, RemoteInvInit, RemoteInvStep, PTL DEF RemoteSpec

\* However saves of one file overlap: a save replaces only the version its browser had
\* checked, its answer is what happened to the file, and a torn file comes from an upload
\* over SSH only.
THEOREM SavesHonest == RemoteSpec => []SavesAreHonest
<1>1. RemoteInv => SavesAreHonest
  BY DEF RemoteInv, SaveInv, ReplacedBaseline, AnsweredTruly, SavesAreHonest, SaveReplacesBaseline,
         AnswerIsTrue, TornOnlyByFallback, TornBy, WrittenPC
<1> QED BY <1>1, RemoteInvInit, RemoteInvStep, PTL DEF RemoteSpec

LEMMA MissingStep ==
  ASSUME RemoteInv, [RemoteNext]_remoteVars, dest # Absent, dest' = Absent
  PROVE  \E s \in Savers : SaverAt(s, "remove") /\ saver'[s].pc = "rename"
<1>1. PICK s \in Savers : SaverStep(s) BY DEF RemoteNext, remoteVars
<1>2. s # "none" BY SaversAssumption
<1>3. saver[s] \in SaverRow /\ saver \in [Savers -> SaverRow] BY RemoteTypes DEF RemoteInv
<1>4. \A w : [by |-> s, whole |-> w] # Absent BY <1>2 DEF Absent
<1>5. RemoveOld(s)
  BY <1>1, <1>4 DEF SaverStep, OpenEditor, StageEdit, WriteEdit, CheckSize, CheckHash, Replace,
       AnswerSave, StartUpload, SftpWrite, PosixRename, RenameNew, CatStream, MoveStream, ScpBegin,
       ScpFinish, Put, WriteFile
<1> QED BY <1>3, <1>5 DEF RemoveOld, SaverAt, To, SaverRow

\* Only an upload that removes the old file for its own leaves a moment without the file.
THEOREM MissingOnlyByUploads == RemoteSpec => MissingOnlyByUpload
<1>1. ASSUME RemoteInv, [RemoteNext]_remoteVars
      PROVE  [dest # Absent /\ dest' = Absent =>
                \E s \in Savers : SaverAt(s, "remove") /\ saver'[s].pc = "rename"]_remoteVars
  BY <1>1, MissingStep
<1> QED BY <1>1, RemoteInvInit, RemoteInvStep, PTL DEF RemoteSpec, MissingOnlyByUpload
------------------------------------------------------------------------------
(***************************************************************************)
(* All of them.                                                            *)
(***************************************************************************)

\* Every variable of the web terminal keeps its type.
THEOREM TerminalTypesCorrect == TerminalsSpec => []TypesOK
BY TermTypeCorrect, DeskTypeCorrect, WebTypeCorrect, FileTypeCorrect, RemoteTypeCorrect, PTL
   DEF TerminalsSpec, TypesOK

\* Recordings are complete: the transcript of the shell, the output of its commands, and
\* the recording of a desktop, which is found from its session.
THEOREM TerminalsRecorded == TerminalsSpec => []RecordingsHold
BY TranscriptsComplete, OutputsInOrder, DeskFindable, PTL
   DEF TerminalsSpec, RecordingsHold, ShellRecorded

\* Transfers of files lose nothing midway, and their answers are true.
THEOREM TransfersSound == TerminalsSpec => []TransfersHold
BY NothingLost, OutcomesTrue, PTL DEF TerminalsSpec, TransfersHold

\* A transfer replaces nothing that appeared meanwhile, and only an upload leaves a moment
\* without the file.
THEOREM TerminalFilesKept == TerminalsSpec => FilesKept
BY LateSurvives, MissingOnlyByUploads, PTL DEF TerminalsSpec, FilesKept

\* A session that has ended, by an error of the desktop or by an exit, stays ended.
THEOREM TerminalEndsFinal == TerminalsSpec => EndsAreFinal
BY DeskErrorsStay, ExitEnds, PTL DEF TerminalsSpec, EndsAreFinal
=============================================================================
