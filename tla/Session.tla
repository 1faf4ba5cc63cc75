------------------------------ MODULE Session ------------------------------
(***************************************************************************)
(* One honeypot session: the handler thread of SessionHandler.handle, the  *)
(* paramiko transport thread that calls HoneypotServer for what the client *)
(* sends, and the sinks the record is handed to.  Both threads share the   *)
(* AttackRecord, exec_commands and shell_event without a lock.             *)
(*                                                                         *)
(* The client is free: it may send anything its protocol state allows, go  *)
(* silent, stop taking what it is sent, or disconnect.  Timeouts are       *)
(* handler steps that may fire whenever the handler waits for something    *)
(* that has a timeout; neither recv nor a send has one.                    *)
(***************************************************************************)
EXTENDS Integers, Sequences, FiniteSets, SequencesExt

CONSTANTS
  max_auth_attempts,  \* HONEYPOT_MAX_AUTH_ATTEMPTS
  max_commands,       \* HONEYPOT_MAX_COMMANDS
  ChunkLines,         \* lines one recv(1024) can hold
  AuthFailLimit,      \* paramiko drops a client after that many failures
  MaxExecs, MaxLines, \* bounds on what the client sends
  Sinks               \* the sinks of MultiSink, in order

ASSUME SessionAssumption ==
  /\ max_auth_attempts \in Nat /\ max_commands \in Nat
  /\ ChunkLines \in Nat \ {0} /\ AuthFailLimit \in Nat \ {0}
  /\ MaxExecs \in Nat /\ MaxLines \in Nat /\ Len(Sinks) \in Nat

VARIABLES
  handler,        \* where the handler thread is
  link,           \* "up", or "gone" once the transport saw the client leave
  transport,      \* "up" until the handler closes it
  authenticated,  \* the client passed authentication
  failures,       \* paramiko's auth_fail_count
  channel,        \* the first session channel: "none" yet, "open", "eof" once
                  \* the client sends no more on it, "closed" by the client
  takes,          \* what the client takes of what it is sent: channel "data",
                  \* "control" (it opens no window for data), or "nothing"
  shell_event,    \* threading.Event of HoneypotServer
  exec_commands,  \* HoneypotServer.exec_commands
  record,         \* the shared AttackRecord: attempts and commands
  inbuf,          \* lines the channel has buffered
  chunk,          \* lines of the last recv the shell has still to handle
  answered,       \* exec requests the handler has walked over
  exit_status,    \* send_exit_status was called
  outcomes,       \* per sink written so far: did it succeed, with what record
  sent            \* observer: lines the client has sent

clientVars == <<link, authenticated, failures, channel, takes, shell_event,
                exec_commands, sent>>
handlerVars == <<handler, transport, chunk, answered, exit_status, outcomes>>
vars == <<clientVars, handlerVars, record, inbuf>>

---------------------------------------------------------------------------
\* What a line of shell input is: a command, one that logs out, or
\* characters that complete no command (blank lines, editing keys).
Lines == {"cmd", "exit", "chars"}

\* What an exec request asks for: a command with a fake output, or another.
Commands == {"known", "unknown"}

Shell == {"greet", "loop", "recv", "process", "respond"}
Ended == {"ended", "killed"}
Handlers ==
  {"negotiate", "accept", "check", "exec", "wait", "close", "write", "teardown"}
  \cup Shell \cup Ended

Init ==
  /\ handler = "negotiate"
  /\ link = "up"
  /\ transport = "up"
  /\ authenticated = FALSE
  /\ failures = 0
  /\ channel = "none"
  /\ takes = "data"
  /\ shell_event = FALSE
  /\ exec_commands = <<>>
  /\ record = [auth_attempts |-> 0, commands |-> <<>>]
  /\ inbuf = <<>>
  /\ chunk = <<>>
  /\ answered = 0
  /\ exit_status = FALSE
  /\ outcomes = <<>>
  /\ sent = 0

\* A command list that is replaced instead of extended.
AddCommand_Replaces(type) == [record EXCEPT !.commands = <<type>>]

AddCommand(type) == [record EXCEPT !.commands = Append(@, type)]

---------------------------------------------------------------------------
(* The transport thread: callbacks of HoneypotServer.                      *)

\* The transport serves the client once negotiated, until it is closed.
Serving == handler # "negotiate" /\ transport = "up" /\ link = "up"

\* A client that is never dropped, however often it fails.
AuthFails_NeverDrops ==
  /\ failures' = failures + 1
  /\ UNCHANGED <<authenticated, link>>

\* After AuthFailLimit failures paramiko disconnects the client.
AuthFails ==
  /\ failures' = failures + 1
  /\ link' = IF failures + 1 >= AuthFailLimit THEN "gone" ELSE "up"
  /\ UNCHANGED authenticated

AuthSucceeds ==
  /\ authenticated' = TRUE
  /\ UNCHANGED <<failures, link>>

\* check_auth_password: accepted, unless there were too many attempts.
check_auth_password ==
  /\ Serving /\ ~authenticated
  /\ record' = [record EXCEPT !.auth_attempts = @ + 1]
  /\ IF record.auth_attempts + 1 > max_auth_attempts THEN AuthFails ELSE AuthSucceeds
  /\ UNCHANGED <<handlerVars, channel, takes, shell_event, exec_commands,
                 inbuf, sent>>

\* check_auth_publickey: recorded and refused.
check_auth_publickey ==
  /\ Serving /\ ~authenticated
  /\ record' = [record EXCEPT !.auth_attempts = @ + 1]
  /\ AuthFails
  /\ UNCHANGED <<handlerVars, channel, takes, shell_event, exec_commands,
                 inbuf, sent>>

\* check_channel_request accepts "session" and nothing else.
check_channel_request ==
  /\ Serving /\ authenticated /\ channel = "none"
  /\ channel' = "open"
  /\ UNCHANGED <<handlerVars, link, authenticated, failures, takes, shell_event,
                 exec_commands, record, inbuf, sent>>

\* A shell is requested on this channel or on a further one.
check_channel_shell_request ==
  /\ Serving /\ channel # "none" /\ ~shell_event
  /\ shell_event' = TRUE
  /\ UNCHANGED <<handlerVars, link, authenticated, failures, channel, takes,
                 exec_commands, record, inbuf, sent>>

\* Any number of exec requests, on this channel or on further ones.
check_channel_exec_request(cmd) ==
  /\ Serving /\ channel # "none"
  /\ Len(exec_commands) < MaxExecs
  /\ exec_commands' = Append(exec_commands, cmd)
  /\ record' = AddCommand("exec")
  /\ UNCHANGED <<handlerVars, link, authenticated, failures, channel, takes,
                 shell_event, inbuf, sent>>

\* Channel data is buffered for recv.
ClientTypes(line) ==
  /\ Serving /\ channel = "open"
  /\ sent < MaxLines
  /\ sent' = sent + 1
  /\ inbuf' = Append(inbuf, line)
  /\ UNCHANGED <<handlerVars, link, authenticated, failures, channel, takes,
                 shell_event, exec_commands, record>>

\* The client ends its input, or closes the channel, and keeps the connection.
ClientCloses(how) ==
  /\ Serving
  /\ \/ channel = "open"
     \/ channel = "eof" /\ how = "closed"
  /\ channel' = how
  /\ UNCHANGED <<handlerVars, link, authenticated, failures, takes,
                 shell_event, exec_commands, record, inbuf, sent>>

\* The client opens its receive window or leaves it shut, reads its end of
\* the connection or stops to; of consequence once there is a channel.
ClientTakes(what) ==
  /\ Serving /\ channel # "none" /\ takes # what
  /\ takes' = what
  /\ UNCHANGED <<handlerVars, link, authenticated, failures, channel,
                 shell_event, exec_commands, record, inbuf, sent>>

\* The client closes the connection, or it breaks and the transport notices.
ClientLeaves ==
  /\ transport = "up"
  /\ link = "up"
  /\ link' = "gone"
  /\ UNCHANGED <<handlerVars, authenticated, failures, channel, takes,
                 shell_event, exec_commands, record, inbuf, sent>>

Client ==
  \/ check_auth_password
  \/ check_auth_publickey
  \/ check_channel_request
  \/ check_channel_shell_request
  \/ \E cmd \in Commands : check_channel_exec_request(cmd)
  \/ \E line \in Lines : ClientTypes(line)
  \/ \E how \in {"eof", "closed"} : ClientCloses(how)
  \/ \E what \in {"data", "control", "nothing"} : ClientTakes(what)
  \/ ClientLeaves

---------------------------------------------------------------------------
(* The handler thread.                                                     *)

Goto(p) == handler' = p

\* channel.sendall: waits, without a timeout, for the client's window.
\* Once the channel is closed or the client gone it raises: HandlerRaises.
Sendable == takes = "data" /\ channel # "closed"

\* A packet that needs no window waits for the connection to take it; once
\* the client is gone it is dropped.
Postable == takes # "nothing" \/ link = "gone"

\* Where the handler has channel data to send next.
Sends ==
  \/ handler \in {"greet", "respond"}
  \/ handler = "process" /\ chunk # <<>>
  \/ /\ handler = "exec" /\ answered < Len(exec_commands)
     /\ exec_commands[answered + 1] = "known"

\* Where it has a packet without data to send: exit status or channel close.
Posts ==
  \/ handler = "exec" /\ answered = Len(exec_commands)
  \/ handler = "close" /\ channel # "closed"

\* start_server returns, or raises because the transport gave up: finally.
Negotiate ==
  /\ handler = "negotiate"
  /\ \/ link = "up" /\ Goto("accept") /\ UNCHANGED link
     \/ link' = "gone" /\ Goto("write")
  /\ UNCHANGED <<authenticated, failures, channel, takes, shell_event, exec_commands,
                 sent, transport, chunk, answered, exit_status, outcomes, record, inbuf>>

\* An accept without auth_timeout.
Accept_NoTimeout ==
  /\ handler = "accept"
  /\ channel # "none" /\ Goto("check")
  /\ UNCHANGED <<clientVars, transport, chunk, answered, exit_status, outcomes,
                 record, inbuf>>

\* transport.accept(auth_timeout): a channel, or None after the timeout.
Accept ==
  /\ handler = "accept"
  /\ IF channel # "none" THEN Goto("check") ELSE Goto("write")
  /\ UNCHANGED <<clientVars, transport, chunk, answered, exit_status, outcomes,
                 record, inbuf>>

\* if server.exec_commands: looked at once, right after the channel opened.
CheckExec ==
  /\ handler = "check"
  /\ IF exec_commands # <<>> THEN Goto("exec") ELSE Goto("wait")
  /\ UNCHANGED <<clientVars, transport, chunk, answered, exit_status, outcomes,
                 record, inbuf>>

\* for cmd in commands: the list may still grow while it is walked.  A
\* command without a fake output is passed over.
AnswerExec ==
  /\ handler = "exec"
  /\ Sends => Sendable
  /\ IF answered < Len(exec_commands)
       THEN answered' = answered + 1 /\ UNCHANGED <<handler, exit_status>>
       ELSE Postable /\ exit_status' = TRUE /\ Goto("close") /\ UNCHANGED answered
  /\ UNCHANGED <<clientVars, transport, chunk, outcomes, record, inbuf>>

\* shell_event.wait(auth_timeout), then is_set().
WaitShell ==
  /\ handler = "wait"
  /\ IF shell_event THEN Goto("greet") ELSE Goto("close")
  /\ UNCHANGED <<clientVars, transport, chunk, answered, exit_status, outcomes,
                 record, inbuf>>

\* The welcome text and the first prompt.
Greet ==
  /\ handler = "greet" /\ Sendable
  /\ Goto("loop")
  /\ UNCHANGED <<clientVars, transport, chunk, answered, exit_status, outcomes,
                 record, inbuf>>

\* A command limit that is only noticed once it is exceeded.
ShellLoop_OffByOne ==
  /\ handler = "loop"
  /\ \/ Goto("close")
     \/ Len(record.commands) <= max_commands /\ Goto("recv")
  /\ UNCHANGED <<clientVars, transport, chunk, answered, exit_status, outcomes,
                 record, inbuf>>

\* Top of the shell loop: the deadline has passed or the limit is reached, or
\* the handler goes on to read.
ShellLoop ==
  /\ handler = "loop"
  /\ \/ Goto("close")
     \/ Len(record.commands) < max_commands /\ Goto("recv")
  /\ UNCHANGED <<clientVars, transport, chunk, answered, exit_status, outcomes,
                 record, inbuf>>

\* A read that does not take an empty result for the end of the input.
Recv_IgnoresEof ==
  /\ handler = "recv"
  /\ \E k \in 1..ChunkLines :
       /\ k <= Len(inbuf)
       /\ chunk' = SubSeq(inbuf, 1, k)
       /\ inbuf' = SubSeq(inbuf, k + 1, Len(inbuf))
       /\ Goto("process")
  /\ UNCHANGED <<clientVars, transport, answered, exit_status, outcomes, record>>

\* channel.recv(1024): what is buffered, up to a chunk; nothing once the
\* client is gone; and no timeout, as the channel was given none.
Recv ==
  /\ handler = "recv"
  /\ \/ \E k \in 1..ChunkLines :
          /\ k <= Len(inbuf)
          /\ chunk' = SubSeq(inbuf, 1, k)
          /\ inbuf' = SubSeq(inbuf, k + 1, Len(inbuf))
          /\ Goto("process")
     \/ /\ inbuf = <<>> /\ (link = "gone" \/ channel # "open")
        /\ Goto("close") /\ UNCHANGED <<chunk, inbuf>>
  /\ UNCHANGED <<clientVars, transport, answered, exit_status, outcomes, record>>

\* The lines of a chunk, one after the other: what was typed is echoed, and a
\* command is recorded before it is responded to.
ProcessLine ==
  /\ handler = "process"
  /\ Sends => Sendable
  /\ IF chunk = <<>>
       THEN Goto("loop") /\ UNCHANGED <<chunk, record>>
     ELSE IF Head(chunk) = "chars"
       THEN chunk' = Tail(chunk) /\ UNCHANGED <<handler, record>>
       ELSE record' = AddCommand("shell") /\ Goto("respond") /\ UNCHANGED chunk
  /\ UNCHANGED <<clientVars, transport, answered, exit_status, outcomes, inbuf>>

\* The response and the next prompt; or the farewell, which ends the shell.
Respond ==
  /\ handler = "respond" /\ Sendable
  /\ IF Head(chunk) = "exit"
       THEN chunk' = <<>> /\ Goto("close")
       ELSE chunk' = Tail(chunk) /\ Goto("process")
  /\ UNCHANGED <<clientVars, transport, answered, exit_status, outcomes, record, inbuf>>

\* Channel data for a client that has left or closed the channel: the send
\* raises, also one that waits for the window already.  To the finally.
HandlerRaises ==
  /\ Sends /\ (link = "gone" \/ channel = "closed")
  /\ Goto("write")
  /\ chunk' = <<>>
  /\ UNCHANGED <<clientVars, transport, answered, exit_status, outcomes, record, inbuf>>

\* channel.close() tells the client, unless it has closed the channel itself.
CloseChannel ==
  /\ handler = "close"
  /\ Posts => Postable
  /\ Goto("write")
  /\ UNCHANGED <<clientVars, transport, chunk, answered, exit_status, outcomes,
                 record, inbuf>>

---------------------------------------------------------------------------
(* finally: MultiSink.write, then the transport and the socket are closed. *)

\* A fan-out that stops at the first sink that raises.
WriteSink_StopsAtFailure ==
  /\ handler = "write"
  /\ IF Len(outcomes) < Len(Sinks) /\ \A k \in DOMAIN outcomes : outcomes[k].ok
       THEN /\ \E ok \in BOOLEAN :
                 outcomes' = Append(outcomes, [ok |-> ok, record |-> record])
            /\ UNCHANGED handler
       ELSE Goto("teardown") /\ UNCHANGED outcomes
  /\ UNCHANGED <<clientVars, transport, chunk, answered, exit_status, record, inbuf>>

\* Each sink reads the shared record when its turn comes; one that raises is
\* logged and the next one is written all the same.
WriteSink ==
  /\ handler = "write"
  /\ IF Len(outcomes) < Len(Sinks)
       THEN /\ \E ok \in BOOLEAN :
                 outcomes' = Append(outcomes, [ok |-> ok, record |-> record])
            /\ UNCHANGED handler
       ELSE Goto("teardown") /\ UNCHANGED outcomes
  /\ UNCHANGED <<clientVars, transport, chunk, answered, exit_status, record, inbuf>>

\* A finally that forgets to close the transport.
Teardown_LeavesTransport ==
  /\ handler = "teardown"
  /\ Goto("ended")
  /\ UNCHANGED <<clientVars, transport, chunk, answered, exit_status, outcomes,
                 record, inbuf>>

Teardown ==
  /\ handler = "teardown"
  /\ transport' = "closed"
  /\ Goto("ended")
  /\ UNCHANGED <<clientVars, chunk, answered, exit_status, outcomes, record, inbuf>>

\* The process ends: daemon threads, the transport's included, end with it.
Killed ==
  /\ handler \notin Ended
  /\ Goto("killed")
  /\ transport' = "closed"
  /\ UNCHANGED <<clientVars, chunk, answered, exit_status, outcomes,
                 record, inbuf>>

Handler ==
  \/ Negotiate
  \/ Accept
  \/ CheckExec
  \/ AnswerExec
  \/ WaitShell
  \/ Greet
  \/ ShellLoop
  \/ Recv
  \/ ProcessLine
  \/ Respond
  \/ HandlerRaises
  \/ CloseChannel
  \/ WriteSink
  \/ Teardown

Next == Client \/ Handler \/ Killed

Spec == Init /\ [][Next]_vars

\* The handler thread runs whenever it can; nothing is assumed of the client.
FairSpec == Spec /\ WF_vars(Handler)

---------------------------------------------------------------------------
(* Properties.                                                             *)

Records == [auth_attempts : Nat, commands : Seq({"shell", "exec"})]

\* The types and the limits that the transport and the queue keep.
TypeOK ==
  /\ handler \in Handlers
  /\ link \in {"up", "gone"} /\ transport \in {"up", "closed"}
  /\ authenticated \in BOOLEAN
  /\ channel \in {"none", "open", "eof", "closed"}
  /\ takes \in {"data", "control", "nothing"}
  /\ shell_event \in BOOLEAN /\ exit_status \in BOOLEAN
  /\ failures \in 0..AuthFailLimit
  /\ exec_commands \in Seq(Commands) /\ Len(exec_commands) <= MaxExecs
  /\ answered \in 0..Len(exec_commands) /\ sent \in 0..MaxLines
  /\ record \in Records
  /\ inbuf \in Seq(Lines) /\ chunk \in Seq(Lines)
  /\ outcomes \in Seq([ok : BOOLEAN, record : Records])
  /\ Len(outcomes) <= Len(Sinks)

Extends(r, q) == /\ q.auth_attempts <= r.auth_attempts
                 /\ IsPrefix(q.commands, r.commands)

\* The sinks may see different records, as the transport thread goes on
\* while they are written, but only ever longer ones: a later sink has all
\* that an earlier one has, and the record has all that any sink has.
SinksSeeGrowingRecords ==
  \A k \in DOMAIN outcomes :
    /\ Extends(record, outcomes[k].record)
    /\ \A j \in 1..k : Extends(outcomes[k].record, outcomes[j].record)

\* Whatever way the session ends, short of the process being killed, and
\* whichever sinks raise, every sink was handed the record.
EverySinkWritten == handler = "ended" => Len(outcomes) = Len(Sinks)

shell_commands == {k \in DOMAIN record.commands : record.commands[k] = "shell"}

\* What the command limit does guarantee: the limit is checked once per recv,
\* so the shell records less than a chunk more than max_commands.
ShellCommandsBounded ==
  Cardinality(shell_commands)
    <= IF max_commands = 0 THEN 0 ELSE max_commands - 1 + ChunkLines

\* After the handler has closed the transport no callback of it touches the
\* record any more, although the transport has its own thread.
RecordFrozenAtEnd == [][handler = "ended" => record' = record]_vars

\* The handler waits for a connected client to take what it is sent.
Blocked ==
  /\ link = "up"
  /\ \/ Sends /\ channel # "closed" /\ takes # "data"
     \/ Posts /\ takes = "nothing"

\* A handler always ends, or keeps coming back to wait for its client: for
\* shell input in recv, or in a send for the client to take what it sends.
\* Every other wait of it ends whatever the client does.
EndsOrWaitsForClient ==
  (<>(handler \in Ended)) \/ ([]<>(handler = "recv" \/ Blocked))

\* Once the client has left, the session ends, shell input or not.
DisconnectEndsSession == link = "gone" ~> handler \in Ended

\* ssh_server.py: an accepted exec request is answered with fake output and
\* an exit status, then the channel is closed.
ExecAnswered ==
  handler = "close" /\ link = "up" /\ exec_commands # <<>> /\ ~shell_event => exit_status

\* config.py: the session limits prevent hung sockets, so a session ends.
SessionEnds == <>(handler \in Ended)

=============================================================================
