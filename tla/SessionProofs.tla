---------------------------- MODULE SessionProofs ----------------------------
(***************************************************************************)
(* What a session promises however its two threads interleave, for every   *)
(* configuration of the limits and the sinks: what the sinks are handed,   *)
(* that the record is final once the session has ended, and how far the    *)
(* command limit is kept.                                                  *)
(***************************************************************************)
EXTENDS Session, FiniteSetTheorems, SequenceTheorems, TLAPS

\* The client is dropped at its last allowed failure, so that failures stays
\* within its type; and what the shell responds to is the head of its chunk.
TypeInv ==
  /\ TypeOK
  /\ link = "up" => failures < AuthFailLimit
  /\ handler = "respond" => chunk # <<>>

\* The end of the session: the sinks first, then the transport.
EndInv ==
  /\ handler \in {"teardown", "ended"} => Len(outcomes) = Len(Sinks)
  /\ handler \in Ended => transport = "closed"

\* What the shell has recorded and may record before it looks at the limit again.
LimitInv ==
  LET n == Cardinality(shell_commands) IN
    /\ handler \in {"recv", "process", "respond"} => max_commands > 0
    /\ handler = "recv" => n < max_commands
    /\ handler = "process" => n + Len(chunk) < max_commands + ChunkLines
    /\ handler = "respond" => n + Len(chunk) <= max_commands + ChunkLines
    /\ ShellCommandsBounded

\* The inductive invariant.
IInv == TypeInv /\ EndInv /\ LimitInv /\ SinksSeeGrowingRecords

---------------------------------------------------------------------------
(* Types.                                                                  *)

LEMMA AddCommandType ==
  ASSUME record \in Records, NEW type \in {"shell", "exec"}
  PROVE  /\ AddCommand(type) \in Records
         /\ AddCommand(type).auth_attempts = record.auth_attempts
         /\ AddCommand(type).commands = Append(record.commands, type)
BY DEF AddCommand, Records

LEMMA ClientType ==
  ASSUME TypeInv, Client
  PROVE  TypeInv'
<1> USE SessionAssumption DEF SessionAssumption, TypeInv, TypeOK, Serving, handlerVars
<1>1. CASE check_auth_password \/ check_auth_publickey
  <2>1. record' \in Records
    <3>1. record \in Records /\ record' = [record EXCEPT !.auth_attempts = @ + 1]
      BY <1>1 DEF check_auth_password, check_auth_publickey
    <3> QED
      BY ONLY <3>1 DEF Records
  <2>2. /\ failures' \in 0..AuthFailLimit /\ link' \in {"up", "gone"}
        /\ authenticated' \in BOOLEAN
        /\ link' = "up" => failures' < AuthFailLimit
    <3>1. /\ failures \in Nat /\ failures < AuthFailLimit /\ AuthFailLimit \in Nat
          /\ link = "up" /\ (authenticated = TRUE \/ authenticated = FALSE)
      BY <1>1 DEF check_auth_password, check_auth_publickey
    <3>2. AuthFails \/ AuthSucceeds
      BY ONLY <1>1 DEF check_auth_password, check_auth_publickey
    <3>3. authenticated' \in BOOLEAN
      BY ONLY <3>1, <3>2, Zenon DEF AuthFails, AuthSucceeds
    <3>4. /\ failures' \in 0..AuthFailLimit /\ link' \in {"up", "gone"}
          /\ link' = "up" => failures' < AuthFailLimit
      BY ONLY <3>1, <3>2 DEF AuthFails, AuthSucceeds
    <3> QED
      BY ONLY <3>3, <3>4
  <2> QED
    BY <1>1, <2>1, <2>2 DEF check_auth_password, check_auth_publickey
<1>2. CASE check_channel_request \/ check_channel_shell_request
  BY <1>2 DEF check_channel_request, check_channel_shell_request
<1>3. ASSUME NEW cmd \in Commands, check_channel_exec_request(cmd)
      PROVE  TypeInv'
  <2>1. /\ exec_commands' \in Seq(Commands)
        /\ Len(exec_commands') = Len(exec_commands) + 1
    BY <1>3, AppendProperties DEF check_channel_exec_request
  <2>2. Len(exec_commands') <= MaxExecs /\ answered' \in 0..Len(exec_commands')
    BY <1>3, <2>1 DEF check_channel_exec_request
  <2>3. record' \in Records
    BY <1>3, AddCommandType DEF check_channel_exec_request
  <2> QED
    BY <1>3, <2>1, <2>2, <2>3 DEF check_channel_exec_request
<1>4. CASE ClientLeaves
  BY <1>4 DEF ClientLeaves
<1>5. ASSUME NEW line \in Lines, ClientTypes(line)
      PROVE  TypeInv'
  <2>1. inbuf' \in Seq(Lines)
    BY <1>5, AppendProperties DEF ClientTypes
  <2> QED
    BY <1>5, <2>1 DEF ClientTypes
<1>6. ASSUME NEW how \in {"eof", "closed"}, ClientCloses(how)
      PROVE  TypeInv'
  BY <1>6 DEF ClientCloses
<1>7. ASSUME NEW what \in {"data", "control", "nothing"}, ClientTakes(what)
      PROVE  TypeInv'
  BY <1>7 DEF ClientTakes
<1> QED
  BY <1>1, <1>2, <1>3, <1>4, <1>5, <1>6, <1>7 DEF Client

LEMMA HandlerType ==
  ASSUME TypeInv, Handler \/ Killed
  PROVE  TypeInv'
<1> USE SessionAssumption DEF SessionAssumption, TypeInv, TypeOK, Goto, clientVars, Handlers, Shell, Ended
<1>1. CASE Negotiate \/ Accept \/ CheckExec \/ WaitShell \/ Greet \/ ShellLoop \/ CloseChannel
  <2>1. CASE Negotiate
    BY <2>1 DEF Negotiate
  <2>2. CASE Accept
    BY <2>2 DEF Accept
  <2>3. CASE CheckExec
    BY <2>3 DEF CheckExec
  <2>4. CASE WaitShell
    BY <2>4 DEF WaitShell
  <2>5. CASE ShellLoop
    BY <2>5 DEF ShellLoop
  <2>6. CASE CloseChannel
    BY <2>6 DEF CloseChannel
  <2>7. CASE Greet
    BY <2>7 DEF Greet
  <2> QED
    BY ONLY <1>1, <2>1, <2>2, <2>3, <2>4, <2>5, <2>6, <2>7
<1>2. CASE AnswerExec
  <2>1. answered' \in 0..Len(exec_commands)
    BY <1>2 DEF AnswerExec
  <2> QED
    BY <1>2, <2>1 DEF AnswerExec
<1>3. CASE Recv
  <2>1. chunk' \in Seq(Lines) /\ inbuf' \in Seq(Lines)
    <3>1. ASSUME NEW k \in 1..ChunkLines, k <= Len(inbuf)
          PROVE  /\ SubSeq(inbuf, 1, k) \in Seq(Lines)
                 /\ SubSeq(inbuf, k + 1, Len(inbuf)) \in Seq(Lines)
      <4>1. Len(inbuf) \in Nat /\ \A i \in 1..Len(inbuf) : inbuf[i] \in Lines
        OBVIOUS
      <4> QED
        BY <3>1, <4>1, SubSeqProperties
    <3> QED
      BY <1>3, <3>1 DEF Recv
  <2> QED
    BY <1>3, <2>1 DEF Recv
<1>4. CASE ProcessLine
  <2>1. chunk' \in Seq(Lines)
    <3>1. /\ chunk \in Seq(Lines)
          /\ \/ chunk' = chunk
             \/ chunk # <<>> /\ chunk' = Tail(chunk)
      BY <1>4 DEF ProcessLine
    <3> QED
      BY ONLY <3>1, HeadTailProperties
  <2>2. record' \in Records
    BY <1>4, AddCommandType DEF ProcessLine
  <2> QED
    BY <1>4, <2>1, <2>2 DEF ProcessLine
<1>5. CASE HandlerRaises
  BY <1>5, EmptySeq DEF HandlerRaises
<1>6. CASE WriteSink
  <2>1. /\ outcomes' \in Seq([ok : BOOLEAN, record : Records])
        /\ Len(outcomes') <= Len(Sinks)
    <3> DEFINE Outcomes == [ok : BOOLEAN, record : Records]
    <3>1. outcomes \in Seq(Outcomes) /\ Len(outcomes) <= Len(Sinks) /\ record \in Records
      OBVIOUS
    <3>2. CASE UNCHANGED outcomes
      BY ONLY <3>1, <3>2
    <3>3. ASSUME Len(outcomes) < Len(Sinks), NEW ok \in BOOLEAN,
                 outcomes' = Append(outcomes, [ok |-> ok, record |-> record])
          PROVE  outcomes' \in Seq(Outcomes) /\ Len(outcomes') <= Len(Sinks)
      <4>1. [ok |-> ok, record |-> record] \in Outcomes
        BY ONLY <3>1
      <4> HIDE DEF Outcomes
      <4> QED
        BY ONLY SessionAssumption, <3>1, <3>3, <4>1, AppendProperties DEF SessionAssumption
    <3> QED
      BY ONLY <1>6, <3>2, <3>3 DEF WriteSink
  <2> QED
    BY <1>6, <2>1 DEF WriteSink
<1>7. CASE Teardown \/ Killed
  BY <1>7 DEF Teardown, Killed
<1>8. CASE Respond
  <2>1. chunk' \in Seq(Lines)
    <3>1. /\ chunk \in Seq(Lines) /\ chunk # <<>>
          /\ chunk' = <<>> \/ chunk' = Tail(chunk)
      BY <1>8 DEF Respond
    <3> QED
      BY ONLY <3>1, HeadTailProperties, EmptySeq
  <2> QED
    BY <1>8, <2>1 DEF Respond
<1> QED
  BY <1>1, <1>2, <1>3, <1>4, <1>5, <1>6, <1>7, <1>8 DEF Handler

LEMMA InitType == Init => TypeInv
<1> SUFFICES ASSUME Init PROVE TypeInv
  OBVIOUS
<1>1. record \in Records
  BY EmptySeq DEF Init, Records
<1>2. /\ inbuf \in Seq(Lines) /\ chunk \in Seq(Lines)
      /\ outcomes \in Seq([ok : BOOLEAN, record : Records])
      /\ Len(outcomes) = 0
  BY EmptySeq DEF Init
<1>3. /\ failures \in 0..AuthFailLimit /\ failures < AuthFailLimit
      /\ exec_commands \in Seq(Commands) /\ Len(exec_commands) <= MaxExecs
      /\ sent \in 0..MaxLines /\ answered \in 0..Len(exec_commands)
      /\ 0 <= Len(Sinks)
  BY SessionAssumption, EmptySeq DEF SessionAssumption, Init
<1>4. /\ handler \in Handlers /\ link = "up" /\ transport = "up"
      /\ authenticated \in BOOLEAN
      /\ channel \in {"none", "open", "eof", "closed"}
      /\ takes \in {"data", "control", "nothing"}
      /\ shell_event \in BOOLEAN /\ exit_status \in BOOLEAN
  BY DEF Init, Handlers
<1> QED
  BY <1>1, <1>2, <1>3, <1>4 DEF TypeInv, TypeOK, Init

LEMMA TypeStep == TypeInv /\ [Next]_vars => TypeInv'
<1>1. TypeInv /\ UNCHANGED vars => TypeInv'
  BY DEF vars, clientVars, handlerVars, TypeInv, TypeOK
<1> QED
  BY <1>1, ClientType, HandlerType DEF Next

\* The types, and the limits that the transport and the queue keep.
THEOREM TypeCorrect == Spec => []TypeOK
<1>1. TypeInv => TypeOK
  BY DEF TypeInv
<1> QED
  BY <1>1, InitType, TypeStep, PTL DEF Spec

---------------------------------------------------------------------------
(* The record only grows.                                                  *)

LEMMA PrefixElements ==
  ASSUME NEW S, NEW s \in Seq(S), NEW t \in Seq(S)
  PROVE  IsPrefix(s, t) <=> Len(s) <= Len(t) /\ \A i \in 1..Len(s) : s[i] = t[i]
<1> Len(s) \in Nat /\ Len(t) \in Nat
  OBVIOUS
<1>1. ASSUME Len(s) <= Len(t)
      PROVE  SubSeq(s, 1, Len(s)) = SubSeq(t, 1, Len(s)) <=> \A i \in 1..Len(s) : s[i] = t[i]
  <2>1. /\ SubSeq(t, 1, Len(s)) \in Seq(S) /\ Len(SubSeq(t, 1, Len(s))) = Len(s)
        /\ \A i \in 1..Len(s) : SubSeq(t, 1, Len(s))[i] = t[i]
    BY <1>1
  <2>2. SubSeq(s, 1, Len(s)) = s
    BY SubSeqFull
  <2> QED
    BY <2>1, <2>2, SeqEqual
<1> QED
  BY <1>1 DEF IsPrefix

LEMMA ExtendsReflexive ==
  ASSUME NEW r \in Records
  PROVE  Extends(r, r)
<1>1. r.commands \in Seq({"shell", "exec"}) /\ r.auth_attempts \in Nat
  BY DEF Records
<1> QED
  BY <1>1, PrefixElements DEF Extends

LEMMA ExtendsTransitive ==
  ASSUME NEW p \in Records, NEW q \in Records, NEW r \in Records,
         Extends(r, q), Extends(q, p)
  PROVE  Extends(r, p)
<1>1. /\ p.commands \in Seq({"shell", "exec"}) /\ p.auth_attempts \in Nat
      /\ q.commands \in Seq({"shell", "exec"}) /\ q.auth_attempts \in Nat
      /\ r.commands \in Seq({"shell", "exec"}) /\ r.auth_attempts \in Nat
  BY DEF Records
<1> QED
  BY <1>1, PrefixElements DEF Extends

\* What a step can do to the record: nothing, unless the transport serves a
\* client or the handler works on shell input, and then it extends it.
LEMMA RecordStep ==
  ASSUME TypeInv, [Next]_vars
  PROVE  \/ record' = record
         \/ /\ Serving \/ handler = "process"
            /\ \/ /\ record'.commands = record.commands
                  /\ record'.auth_attempts = record.auth_attempts + 1
               \/ /\ record' = AddCommand("exec")
                  /\ UNCHANGED handlerVars
               \/ /\ record' = AddCommand("shell")
                  /\ handler = "process" /\ ProcessLine /\ chunk # <<>>
<1>1. CASE check_auth_password \/ check_auth_publickey
  <2>1. record \in Records /\ record' = [record EXCEPT !.auth_attempts = @ + 1] /\ Serving
    BY <1>1 DEF TypeInv, TypeOK, check_auth_password, check_auth_publickey
  <2>2. /\ record'.commands = record.commands
        /\ record'.auth_attempts = record.auth_attempts + 1
    BY ONLY <2>1 DEF Records
  <2> QED
    BY <2>1, <2>2
<1>2. CASE \E cmd \in Commands : check_channel_exec_request(cmd)
  BY <1>2 DEF check_channel_exec_request
<1>3. CASE ProcessLine
  BY <1>3 DEF ProcessLine
<1>4. ASSUME ~(check_auth_password \/ check_auth_publickey), ~ProcessLine,
             ~\E cmd \in Commands : check_channel_exec_request(cmd)
      PROVE  record' = record
  <2>1. CASE Client
    BY <1>4, <2>1 DEF Client, check_channel_request, check_channel_shell_request,
         ClientTypes, ClientCloses, ClientTakes, ClientLeaves
  <2>2. CASE Handler \/ Killed
    BY <1>4, <2>2 DEF Handler, Negotiate, Accept, CheckExec, AnswerExec, WaitShell,
         Greet, ShellLoop, Recv, Respond, HandlerRaises, CloseChannel, WriteSink, Teardown, Killed
  <2>3. CASE UNCHANGED vars
    BY <2>3 DEF vars
  <2> QED
    BY <2>1, <2>2, <2>3 DEF Next
<1> QED
  BY <1>1, <1>2, <1>3, <1>4

LEMMA RecordGrows ==
  ASSUME TypeInv, [Next]_vars
  PROVE  Extends(record', record)
<1>1. record \in Records /\ record' \in Records
  BY TypeStep DEF TypeInv, TypeOK
<1>2. /\ record.commands \in Seq({"shell", "exec"}) /\ record.auth_attempts \in Nat
      /\ record'.commands \in Seq({"shell", "exec"}) /\ record'.auth_attempts \in Nat
  BY <1>1 DEF Records
<1>3. CASE record' = record
  BY <1>1, <1>3, ExtendsReflexive
<1>4. CASE /\ record'.commands = record.commands
           /\ record'.auth_attempts = record.auth_attempts + 1
  BY <1>2, <1>4, PrefixElements DEF Extends
<1>5. ASSUME NEW type \in {"shell", "exec"}, record' = AddCommand(type)
      PROVE  Extends(record', record)
  <2>1. record'.commands = Append(record.commands, type)
        /\ record'.auth_attempts = record.auth_attempts
    BY <1>1, <1>5, AddCommandType
  <2>2. Len(record.commands) <= Len(record'.commands)
        /\ \A i \in 1..Len(record.commands) : record.commands[i] = record'.commands[i]
    BY <1>2, <2>1, AppendProperties
  <2>3. IsPrefix(record.commands, record'.commands)
    BY ONLY <1>2, <2>2, PrefixElements
  <2> QED
    BY ONLY <1>2, <2>1, <2>3 DEF Extends
<1> QED
  BY <1>3, <1>4, <1>5, RecordStep

---------------------------------------------------------------------------
(* The sinks.                                                              *)

\* What a step can do to the outcomes: nothing, or one sink more is written.
LEMMA OutcomesStep ==
  ASSUME TypeInv, [Next]_vars
  PROVE  \/ outcomes' = outcomes
         \/ /\ handler = "write" /\ UNCHANGED <<handler, record>>
            /\ \E ok \in BOOLEAN :
                 outcomes' = Append(outcomes, [ok |-> ok, record |-> record])
<1>1. CASE Client
  BY <1>1 DEF Client, check_auth_password, check_auth_publickey, check_channel_request,
       check_channel_shell_request, check_channel_exec_request, ClientTypes,
       ClientCloses, ClientTakes, ClientLeaves, handlerVars
<1>2. CASE WriteSink
  BY <1>2 DEF WriteSink
<1>3. CASE Negotiate \/ Accept \/ CheckExec \/ AnswerExec \/ WaitShell \/ Greet \/ ShellLoop
             \/ Recv \/ ProcessLine \/ Respond \/ HandlerRaises \/ CloseChannel \/ Teardown \/ Killed
  BY <1>3 DEF Negotiate, Accept, CheckExec, AnswerExec, WaitShell, Greet, ShellLoop, Recv,
       ProcessLine, Respond, HandlerRaises, CloseChannel, Teardown, Killed
<1>4. CASE UNCHANGED vars
  BY <1>4 DEF vars, handlerVars
<1> QED
  BY <1>1, <1>2, <1>3, <1>4 DEF Next, Handler

LEMMA GrowingStep ==
  ASSUME TypeInv, SinksSeeGrowingRecords, [Next]_vars
  PROVE  SinksSeeGrowingRecords'
<1> DEFINE Outcomes == [ok : BOOLEAN, record : Records]
<1>1. /\ record \in Records /\ record' \in Records
      /\ outcomes \in Seq(Outcomes) /\ outcomes' \in Seq(Outcomes)
  BY TypeStep DEF TypeInv, TypeOK
<1> HIDE DEF Outcomes
<1>2. \A k \in DOMAIN outcomes : outcomes[k].record \in Records
  <2>1. \A k \in DOMAIN outcomes : outcomes[k] \in Outcomes
    BY ONLY <1>1
  <2> QED
    BY ONLY <2>1 DEF Outcomes
<1>3. Extends(record', record)
  BY RecordGrows
<1>4. \A k \in DOMAIN outcomes : Extends(record', outcomes[k].record)
  BY <1>1, <1>2, <1>3, ExtendsTransitive DEF SinksSeeGrowingRecords
<1>5. CASE outcomes' = outcomes
  BY <1>4, <1>5 DEF SinksSeeGrowingRecords
<1>6. ASSUME NEW ok \in BOOLEAN, record' = record,
             outcomes' = Append(outcomes, [ok |-> ok, record |-> record])
      PROVE  SinksSeeGrowingRecords'
  <2> DEFINE n == Len(outcomes)
  <2>1. /\ n \in Nat /\ DOMAIN outcomes = 1..n /\ DOMAIN outcomes' = 1..(n + 1)
        /\ \A k \in 1..n : outcomes'[k] = outcomes[k]
        /\ outcomes'[n + 1] = [ok |-> ok, record |-> record]
    BY <1>1, <1>6, AppendProperties
  <2>2. \A k \in 1..n : Extends(record', outcomes'[k].record)
    BY <1>4, <2>1
  <2>3. outcomes'[n + 1].record = record'
    BY <1>6, <2>1
  <2>4. Extends(record', outcomes'[n + 1].record)
    BY <1>1, <2>3, ExtendsReflexive
  <2>5. \A k \in 1..n : \A j \in 1..k : Extends(outcomes'[k].record, outcomes'[j].record)
    BY <2>1 DEF SinksSeeGrowingRecords
  <2>6. \A j \in 1..(n + 1) : Extends(outcomes'[n + 1].record, outcomes'[j].record)
    BY <2>1, <2>2, <2>3, <2>4
  <2>7. \A k \in 1..(n + 1) : k \in 1..n \/ k = n + 1
    BY <2>1
  <2> HIDE DEF n
  <2> QED
    BY <2>1, <2>2, <2>4, <2>5, <2>6, <2>7 DEF SinksSeeGrowingRecords
<1> QED
  BY <1>5, <1>6, OutcomesStep

LEMMA EndStep ==
  ASSUME TypeInv, EndInv, [Next]_vars
  PROVE  EndInv'
<1> Len(outcomes) \in Nat /\ Len(outcomes) <= Len(Sinks) /\ Len(Sinks) \in Nat
  BY SessionAssumption DEF TypeInv, TypeOK, SessionAssumption
<1>1. CASE Client
  BY <1>1 DEF EndInv, Client, check_auth_password, check_auth_publickey,
       check_channel_request, check_channel_shell_request, check_channel_exec_request,
       ClientTypes, ClientCloses, ClientTakes, ClientLeaves, handlerVars
<1>2. CASE WriteSink
  BY <1>2 DEF EndInv, Ended, WriteSink, Goto
<1>3. CASE Negotiate \/ Accept \/ CheckExec \/ AnswerExec \/ WaitShell \/ Greet \/ ShellLoop
             \/ Recv \/ ProcessLine \/ Respond \/ HandlerRaises \/ CloseChannel
  BY <1>3 DEF EndInv, Ended, Goto, Negotiate, Accept, CheckExec, AnswerExec, WaitShell,
       Greet, ShellLoop, Recv, ProcessLine, Respond, HandlerRaises, CloseChannel
<1>4. CASE Teardown \/ Killed
  BY <1>4 DEF EndInv, Ended, Goto, Teardown, Killed
<1>5. CASE UNCHANGED vars
  BY <1>5 DEF EndInv, vars, handlerVars
<1> QED
  BY <1>1, <1>2, <1>3, <1>4, <1>5 DEF Next, Handler

---------------------------------------------------------------------------
(* The command limit.                                                      *)

\* The shell commands are no more than the commands, and one command more is
\* at most one shell command more.
LEMMA ShellCount ==
  ASSUME TypeInv
  PROVE  /\ IsFiniteSet(shell_commands)
         /\ Cardinality(shell_commands) \in Nat
         /\ Cardinality(shell_commands) <= Len(record.commands)
<1>1. record.commands \in Seq({"shell", "exec"})
  BY DEF TypeInv, TypeOK, Records
<1>2. /\ Len(record.commands) \in Nat
      /\ shell_commands \subseteq 1..Len(record.commands)
  BY <1>1 DEF shell_commands
<1>3. IsFiniteSet(1..Len(record.commands)) /\ Cardinality(1..Len(record.commands)) = Len(record.commands)
  BY <1>2, FS_Interval
<1> QED
  BY <1>2, <1>3, FS_Subset, FS_CardinalityType

LEMMA ShellAppend ==
  ASSUME TypeInv, NEW type \in {"shell", "exec"}, record' = AddCommand(type)
  PROVE  IF type = "exec" THEN shell_commands' = shell_commands
         ELSE Cardinality(shell_commands') = Cardinality(shell_commands) + 1
<1>1. record.commands \in Seq({"shell", "exec"})
  BY DEF TypeInv, TypeOK, Records
<1>2. record'.commands = Append(record.commands, type)
  BY AddCommandType DEF TypeInv, TypeOK
<1> DEFINE n == Len(record.commands)
<1>3. /\ n \in Nat /\ DOMAIN record.commands = 1..n
      /\ DOMAIN record'.commands = 1..(n + 1)
      /\ \A k \in 1..n : record'.commands[k] = record.commands[k]
      /\ record'.commands[n + 1] = type
  BY <1>1, <1>2, AppendProperties
<1>4. 1..(n + 1) = (1..n) \cup {n + 1} /\ n + 1 \notin 1..n
  BY <1>3
<1> HIDE DEF n
<1>5. n + 1 \notin shell_commands
  BY <1>3, <1>4 DEF shell_commands
<1>6. CASE type = "exec"
  <2>1. \A k : k \in shell_commands' <=> k \in shell_commands
    BY ONLY <1>3, <1>4, <1>6 DEF shell_commands
  <2> QED
    BY <1>6, <2>1
<1>7. CASE type = "shell"
  <2>1. \A k : k \in shell_commands' <=> k \in shell_commands \/ k = n + 1
    BY ONLY <1>3, <1>4, <1>7 DEF shell_commands
  <2>2. shell_commands' = shell_commands \cup {n + 1}
    BY ONLY <2>1
  <2> QED
    BY <1>5, <1>7, <2>2, ShellCount, FS_AddElement
<1> QED
  BY <1>6, <1>7

\* The client's steps leave the shell commands and the handler's place alone.
LEMMA LimitClient ==
  ASSUME TypeInv, LimitInv, Client
  PROVE  LimitInv'
<1>1. UNCHANGED <<handler, chunk>>
  BY DEF Client, check_auth_password, check_auth_publickey, check_channel_request,
       check_channel_shell_request, check_channel_exec_request, ClientTypes,
       ClientCloses, ClientTakes, ClientLeaves, handlerVars
<1>2. shell_commands' = shell_commands
  <2>1. CASE record' = record
    BY <2>1 DEF shell_commands
  <2>2. CASE record'.commands = record.commands
    BY <2>2 DEF shell_commands
  <2>3. CASE record' = AddCommand("exec")
    BY <2>3, ShellAppend
  <2>4. ~(handler = "process" /\ ProcessLine /\ chunk # <<>>)
    BY <1>1 DEF ProcessLine, Goto
  <2> QED
    BY <2>1, <2>2, <2>3, <2>4, RecordStep DEF Next
<1> QED
  BY <1>1, <1>2 DEF LimitInv, ShellCommandsBounded

LEMMA LimitHandler ==
  ASSUME TypeInv, LimitInv, Handler \/ Killed
  PROVE  LimitInv'
<1> DEFINE n == Cardinality(shell_commands)
<1>1. /\ n \in Nat /\ n <= Len(record.commands) /\ Len(chunk) \in Nat
      /\ chunk \in Seq(Lines) /\ Len(record.commands) \in Nat
      /\ max_commands \in Nat /\ ChunkLines \in Nat \ {0}
  BY ShellCount, SessionAssumption DEF TypeInv, TypeOK, SessionAssumption, Records
<1>2. /\ handler \in {"recv", "process", "respond"} => max_commands > 0
      /\ handler = "recv" => n < max_commands
      /\ handler = "process" => n + Len(chunk) < max_commands + ChunkLines
      /\ handler = "respond" => n + Len(chunk) <= max_commands + ChunkLines
      /\ max_commands = 0 => n <= 0
      /\ max_commands # 0 => n <= max_commands - 1 + ChunkLines
  BY DEF LimitInv, ShellCommandsBounded
<1>3. record' = record => n' = n
  BY DEF shell_commands
<1> HIDE DEF n
\* What is left to show of a step that records nothing.
<1>4. ASSUME record' = record,
             /\ handler' \in {"recv", "process", "respond"} => max_commands > 0
             /\ handler' # "respond"
             /\ handler' = "recv" => n < max_commands
             /\ handler' = "process" => n + Len(chunk') < max_commands + ChunkLines
      PROVE  LimitInv'
  <2>1. ShellCommandsBounded'
    BY <1>2, <1>3, <1>4 DEF LimitInv, ShellCommandsBounded, n
  <2> QED
    BY <1>3, <1>4, <2>1 DEF LimitInv, n
<1>5. CASE \/ Negotiate \/ Accept \/ CheckExec \/ AnswerExec \/ WaitShell
           \/ Greet \/ HandlerRaises \/ CloseChannel \/ WriteSink \/ Teardown \/ Killed
  <2>1. record' = record /\ handler' \notin {"recv", "process", "respond"}
    BY <1>5 DEF Negotiate, Accept, CheckExec, AnswerExec, WaitShell, Greet, HandlerRaises,
         CloseChannel, WriteSink, Teardown, Killed, Goto
  <2> QED
    BY <1>4, <2>1
<1>6. CASE ShellLoop
  <2>1. /\ record' = record
        /\ \/ handler' = "close"
           \/ handler' = "recv" /\ Len(record.commands) < max_commands
    BY <1>6 DEF ShellLoop, Goto
  <2> QED
    BY <1>1, <1>4, <2>1
<1>7. CASE Recv
  <2>1. CASE handler' = "close" /\ record' = record
    BY <1>4, <2>1
  <2>2. ASSUME NEW k \in 1..ChunkLines, k <= Len(inbuf), chunk' = SubSeq(inbuf, 1, k),
               handler' = "process", handler = "recv", record' = record
        PROVE  LimitInv'
    <3>1. inbuf \in Seq(Lines)
      BY DEF TypeInv, TypeOK
    <3>2. k \in Int /\ 1 <= k /\ k <= Len(inbuf) /\ k <= ChunkLines
      BY <1>1, <2>2
    <3>3. Len(chunk') = k
      BY ONLY <2>2, <3>1, <3>2
    <3> QED
      BY <1>1, <1>2, <1>4, <2>2, <3>2, <3>3
  <2> QED
    BY <1>7, <2>1, <2>2 DEF Recv, Goto
<1>8. CASE ProcessLine
  <2>1. handler = "process"
    BY <1>8 DEF ProcessLine
  <2>2. CASE chunk = <<>>
    BY <1>4, <1>8, <2>2 DEF ProcessLine, Goto
  <2>3. CASE chunk # <<>>
    <3>1. Len(chunk) >= 1
      BY <1>1, <2>3
    <3>2. CASE Head(chunk) = "chars"
      <4>1. /\ record' = record /\ handler' = "process" /\ chunk' = Tail(chunk)
        BY <1>8, <2>1, <2>3, <3>2 DEF ProcessLine
      <4>2. Len(chunk') = Len(chunk) - 1
        BY <1>1, <2>3, <4>1, HeadTailProperties
      <4> QED
        BY <1>1, <1>2, <1>4, <2>1, <4>1, <4>2
    <3>3. CASE Head(chunk) # "chars"
      <4>1. record' = AddCommand("shell") /\ handler' = "respond" /\ chunk' = chunk
        BY <1>8, <2>3, <3>3 DEF ProcessLine, Goto
      <4>2. n' = n + 1
        BY <4>1, ShellAppend DEF n
      <4>3. /\ max_commands > 0 /\ n + 1 <= max_commands - 1 + ChunkLines
            /\ n + 1 + Len(chunk) <= max_commands + ChunkLines
        BY <1>1, <1>2, <2>1, <3>1
      <4>4. ShellCommandsBounded'
        BY <4>2, <4>3, <1>1 DEF ShellCommandsBounded, n
      <4> QED
        BY <4>1, <4>2, <4>3, <4>4 DEF LimitInv, n
    <3> QED
      BY <3>2, <3>3
  <2> QED
    BY <2>2, <2>3
<1>9. CASE Respond
  <2>1. /\ handler = "respond" /\ record' = record
        /\ \/ handler' = "close"
           \/ handler' = "process" /\ chunk' = Tail(chunk)
    BY <1>9 DEF Respond, Goto
  <2>2. Len(Tail(chunk)) = Len(chunk) - 1
    BY <1>1, <2>1, HeadTailProperties DEF TypeInv
  <2> QED
    BY <1>1, <1>2, <1>4, <2>1, <2>2
<1> QED
  BY <1>5, <1>6, <1>7, <1>8, <1>9 DEF Handler

LEMMA LimitStep ==
  ASSUME TypeInv, LimitInv, [Next]_vars
  PROVE  LimitInv'
<1>1. CASE UNCHANGED vars
  BY <1>1 DEF vars, handlerVars, LimitInv, ShellCommandsBounded, shell_commands
<1> QED
  BY <1>1, LimitClient, LimitHandler DEF Next

---------------------------------------------------------------------------
(* The theorems.                                                           *)

LEMMA InitInv == Init => IInv
<1> SUFFICES ASSUME Init PROVE IInv
  OBVIOUS
<1>1. SinksSeeGrowingRecords
  BY DEF Init, SinksSeeGrowingRecords
<1>2. EndInv
  BY DEF Init, EndInv, Ended
<1>3. LimitInv
  <2>1. shell_commands = {}
    BY DEF Init, shell_commands
  <2>2. Cardinality(shell_commands) = 0
    BY <2>1, FS_EmptySet
  <2>3. ShellCommandsBounded
    BY <2>2, SessionAssumption DEF ShellCommandsBounded, SessionAssumption
  <2> QED
    BY <2>3 DEF LimitInv, Init
<1> QED
  BY <1>1, <1>2, <1>3, InitType DEF IInv

LEMMA StepInv == IInv /\ [Next]_vars => IInv'
BY TypeStep, EndStep, LimitStep, GrowingStep DEF IInv

\* What sessions keep: the inductive invariant.
THEOREM Inductive == Spec => []IInv
BY InitInv, StepInv, PTL DEF Spec

\* Whatever the transport thread does while the sinks are written, a later
\* sink is handed all that an earlier one has.
THEOREM SinksGrow == Spec => []SinksSeeGrowingRecords
<1>1. IInv => SinksSeeGrowingRecords
  BY DEF IInv
<1> QED
  BY <1>1, Inductive, PTL

\* A session that has ended was handed to every sink, whichever raised.
THEOREM AllSinks == Spec => []EverySinkWritten
<1>1. IInv => EverySinkWritten
  BY DEF IInv, EndInv, EverySinkWritten
<1> QED
  BY <1>1, Inductive, PTL

\* The shell records less than a chunk of commands more than its limit.
THEOREM LimitKept == Spec => []ShellCommandsBounded
<1>1. IInv => ShellCommandsBounded
  BY DEF IInv, LimitInv
<1> QED
  BY <1>1, Inductive, PTL

\* The record of a session that has ended is final, although the transport's
\* thread shares it: no callback comes once the transport is closed.
THEOREM FinalRecord == Spec => RecordFrozenAtEnd
<1>1. ASSUME IInv, [Next]_vars
      PROVE  [handler = "ended" => record' = record]_vars
  <2>1. CASE handler = "ended"
    <3>1. ~Serving /\ handler # "process"
      BY <1>1, <2>1 DEF IInv, EndInv, Ended, Serving
    <3> QED
      BY <1>1, <3>1, RecordStep DEF IInv
  <2> QED
    BY <2>1
<1> QED
  BY <1>1, Inductive, PTL DEF Spec, RecordFrozenAtEnd
=============================================================================
