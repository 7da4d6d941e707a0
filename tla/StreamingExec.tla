--------------------------- MODULE StreamingExec ----------------------------
(***************************************************************************)
(* One streaming exec on one session channel: run_streaming_exec of        *)
(* crates/russh-extra/src/server.rs and the StreamingExecContext it hands  *)
(* to the user's handler.                                                  *)
(*                                                                         *)
(* Three tasks share the channel.  The session loop runs the russh         *)
(* callbacks (data, channel_eof, channel_close) one at a time and passes   *)
(* stdin to the sender filed in stdin_txs.  The handler task is user code: *)
(* it reads stdin and puts commands in the cmd mpsc.  The relay task moves *)
(* commands from the mpsc to the SSH channel, reports the exit, waits for  *)
(* the handler and closes the channel.  Everything between two awaits is   *)
(* one step.                                                               *)
(*                                                                         *)
(* The handler may hand its context to a task of its own and return; the   *)
(* context then lives on ("detached").                                     *)
(***************************************************************************)
EXTENDS Naturals, Sequences

CONSTANTS
    ExitStatus,  \* the exits a handler may report: status codes and "TERM"
    MaxOut,      \* bound on the commands a handler sends
    MaxIn        \* bound on the stdin chunks a client sends

ASSUME ConstantsAssumption ==
    /\ {"0", "1", "TERM"} \subseteq ExitStatus
    /\ MaxOut \in Nat /\ MaxIn \in Nat

VARIABLES
    session,     \* the connection: up or gone
    client,      \* this channel as the session loop last heard: open, eof, closed
    stdin_tx,    \* is a sender filed in stdin_txs for the channel?
    stdin,       \* the stdin mpsc
    sent,        \* history: stdin chunks the client has sent
    read,        \* history: stdin chunks read_stdin has returned
    stdin_end,   \* has read_stdin returned None?
    handler,     \* the handler future: none, run, ok, err, panic
    ctx,         \* the StreamingExecContext: none, held, detached, dropped
    reading,     \* is its holder inside read_stdin?
    cmds,        \* the cmd mpsc
    accepted,    \* history: commands whose send returned Ok
    relay,       \* the relay task
    exit_sent,
    out          \* what the relay has put on the SSH channel

stdinVars == <<stdin, sent, read, stdin_end, reading>>
vars == <<session, client, stdin_tx, stdinVars, handler, ctx, cmds, accepted,
          relay, exit_sent, out>>

Stdout == [t |-> "stdout", v |-> "none"]
Stderr == [t |-> "stderr", v |-> "none"]
Exit(s) == [t |-> "exit", v |-> s]
Eof == [t |-> "eof", v |-> "none"]
Close == [t |-> "close", v |-> "none"]
Commands == {Stdout, Stderr} \cup {Exit(s) : s \in ExitStatus}

Connected == session = "up" /\ client # "closed"
HandlerDone == handler \in {"ok", "err", "panic"}

(* Both clones of cmd_tx are gone: the task's own goes with the handler    *)
(* future, the other with the context.                                     *)
NoSender == HandlerDone /\ ctx = "dropped"

(* cmd_rx is closed after the loop is left by an exit, dropped with the    *)
(* relay.                                                                  *)
CmdOpen == relay \in {"loop", "break"}

(* Messages to a channel that is gone are lost: the result of every        *)
(* handle call is ignored.                                                 *)
Put(m) == out' = IF Connected THEN Append(out, m) ELSE out

Init ==
    /\ session = "up" /\ client = "open"
    /\ stdin_tx = FALSE
    /\ stdin = << >> /\ sent = 0 /\ read = 0
    /\ stdin_end = FALSE /\ reading = FALSE
    /\ handler = "none" /\ ctx = "none"
    /\ cmds = << >> /\ accepted = << >>
    /\ relay = "none" /\ exit_sent = FALSE
    /\ out = << >>

-----------------------------------------------------------------------------
(* The session loop.                                                       *)

(* exec_request found a streaming route.                                   *)
RunStreamingExec ==
    /\ Connected /\ relay = "none"
    /\ stdin_tx' = TRUE
    /\ handler' = "run" /\ ctx' = "held"
    /\ relay' = "loop"
    /\ UNCHANGED <<session, client, stdinVars, cmds, accepted, exit_sent, out>>

(* Data for a channel with no sender, or whose receiver is gone, is        *)
(* dropped.                                                                *)
Data ==
    /\ session = "up" /\ client = "open" /\ sent < MaxIn
    /\ relay # "none"
    /\ sent' = sent + 1
    /\ stdin' = IF stdin_tx /\ ctx # "dropped" THEN Append(stdin, sent') ELSE stdin
    /\ UNCHANGED <<session, client, stdin_tx, read, stdin_end, reading, handler, ctx,
                   cmds, accepted, relay, exit_sent, out>>

(* Mutant: the client's EOF leaves the sender filed.                       *)
Bug_EofKeepsSender ==
    /\ session = "up" /\ client = "open" /\ relay # "none"
    /\ client' = "eof"
    /\ UNCHANGED <<session, stdin_tx, stdinVars, handler, ctx, cmds, accepted,
                   relay, exit_sent, out>>

ChannelEof ==
    /\ session = "up" /\ client = "open" /\ relay # "none"
    /\ client' = "eof"
    /\ stdin_tx' = FALSE
    /\ UNCHANGED <<session, stdinVars, handler, ctx, cmds, accepted, relay,
                   exit_sent, out>>

ChannelClose ==
    /\ session = "up" /\ client # "closed" /\ relay # "none"
    /\ client' = "closed"
    /\ stdin_tx' = FALSE
    /\ UNCHANGED <<session, stdinVars, handler, ctx, cmds, accepted, relay,
                   exit_sent, out>>

(* The connection ends and the HighLevelRusshHandler is dropped.  No       *)
(* channel callback runs; the relay keeps its own Arc of stdin_txs.        *)
SessionEnds ==
    /\ session = "up" /\ relay # "none"
    /\ session' = "gone"
    /\ UNCHANGED <<client, stdin_tx, stdinVars, handler, ctx, cmds, accepted,
                   relay, exit_sent, out>>

-----------------------------------------------------------------------------
(* The handler: user code, free to call the context in any order.          *)

InHand == ctx \in {"held", "detached"} /\ ~reading

(* stdout, stderr, exit_status and exit_signal: an unbounded send, refused *)
(* only once the receiver is closed.                                       *)
SendCmd(m) ==
    /\ InHand /\ Len(accepted) < MaxOut
    /\ CmdOpen
    /\ cmds' = Append(cmds, m)
    /\ accepted' = Append(accepted, m)
    /\ UNCHANGED <<session, client, stdin_tx, stdinVars, handler, ctx, relay,
                   exit_sent, out>>

(* A handler that was told the stream has ended does not ask again.        *)
ReadStdin ==
    /\ InHand /\ ~stdin_end
    /\ reading' = TRUE
    /\ UNCHANGED <<session, client, stdin_tx, stdin, sent, read, stdin_end,
                   handler, ctx, cmds, accepted, relay, exit_sent, out>>

(* Mutant: the end of the stream overtakes the chunks still queued.        *)
Bug_EndFirst ==
    /\ reading
    /\ reading' = FALSE
    /\ \/ /\ stdin_tx /\ stdin # << >>
          /\ read' = Head(stdin)
          /\ stdin' = Tail(stdin)
          /\ UNCHANGED stdin_end
       \/ /\ ~stdin_tx
          /\ stdin_end' = TRUE
          /\ UNCHANGED <<stdin, read>>
    /\ UNCHANGED <<session, client, stdin_tx, sent, handler, ctx, cmds, accepted,
                   relay, exit_sent, out>>

(* recv() returns a chunk, or None when the queue is empty and the sender  *)
(* is gone.                                                                *)
StdinReady ==
    /\ reading
    /\ reading' = FALSE
    /\ \/ /\ stdin # << >>
          /\ read' = Head(stdin)
          /\ stdin' = Tail(stdin)
          /\ UNCHANGED stdin_end
       \/ /\ stdin = << >> /\ ~stdin_tx
          /\ stdin_end' = TRUE
          /\ UNCHANGED <<stdin, read>>
    /\ UNCHANGED <<session, client, stdin_tx, sent, handler, ctx, cmds, accepted,
                   relay, exit_sent, out>>

(* The handler moves its context into a task it spawns.                    *)
Detach ==
    /\ handler = "run" /\ ctx = "held" /\ ~reading
    /\ ctx' = "detached"
    /\ UNCHANGED <<session, client, stdin_tx, stdinVars, handler, cmds, accepted,
                   relay, exit_sent, out>>

(* The handler future completes or panics, and drops the context if it     *)
(* still has it.                                                           *)
HandlerReturns ==
    /\ handler = "run" /\ (ctx = "held" => ~reading)
    /\ handler' \in {"ok", "err", "panic"}
    /\ ctx' = IF ctx = "held" THEN "dropped" ELSE ctx
    /\ stdin' = IF ctx = "held" THEN << >> ELSE stdin
    /\ UNCHANGED <<session, client, stdin_tx, sent, read, stdin_end, reading,
                   cmds, accepted, relay, exit_sent, out>>

DropContext ==
    /\ ctx = "detached" /\ ~reading
    /\ ctx' = "dropped"
    /\ stdin' = << >>
    /\ UNCHANGED <<session, client, stdin_tx, sent, read, stdin_end, reading,
                   handler, cmds, accepted, relay, exit_sent, out>>

-----------------------------------------------------------------------------
(* The relay task.                                                         *)

RelayData ==
    /\ relay = "loop" /\ cmds # << >> /\ Head(cmds).t # "exit"
    /\ cmds' = Tail(cmds)
    /\ Put(Head(cmds))
    /\ UNCHANGED <<session, client, stdin_tx, stdinVars, handler, ctx, accepted,
                   relay, exit_sent>>

(* Mutant: the loop goes on after the exit.                                *)
Bug_NoBreak ==
    /\ relay = "loop" /\ cmds # << >> /\ Head(cmds).t = "exit"
    /\ cmds' = Tail(cmds)
    /\ exit_sent' = TRUE
    /\ Put(Head(cmds))
    /\ UNCHANGED <<session, client, stdin_tx, stdinVars, handler, ctx, accepted,
                   relay>>

RelayExit ==
    /\ relay = "loop" /\ cmds # << >> /\ Head(cmds).t = "exit"
    /\ cmds' = Tail(cmds)
    /\ exit_sent' = TRUE
    /\ Put(Head(cmds))
    /\ relay' = "break"
    /\ UNCHANGED <<session, client, stdin_tx, stdinVars, handler, ctx, accepted>>

(* Mutant: the loop ends with the handler, not with the queue.             *)
Bug_EndWithHandler ==
    /\ relay = "loop" /\ NoSender
    /\ relay' = "join"
    /\ UNCHANGED <<session, client, stdin_tx, stdinVars, handler, ctx, cmds,
                   accepted, exit_sent, out>>

(* recv() returns None.                                                    *)
RelayEnd ==
    /\ relay = "loop" /\ cmds = << >> /\ NoSender
    /\ relay' = "join"
    /\ UNCHANGED <<session, client, stdin_tx, stdinVars, handler, ctx, cmds,
                   accepted, exit_sent, out>>

(* cmd_rx.close(): what is still queued is never looked at again.          *)
RelayCloseRx ==
    /\ relay = "break"
    /\ relay' = "join"
    /\ UNCHANGED <<session, client, stdin_tx, stdinVars, handler, ctx, cmds,
                   accepted, exit_sent, out>>

(* Mutant: a failed handler gets no exit status of its own.                *)
Bug_MissingStatus ==
    /\ relay = "join" /\ HandlerDone
    /\ relay' = "cleanup"
    /\ IF exit_sent THEN UNCHANGED out
                    ELSE Put(Exit(IF handler = "ok" THEN "0" ELSE "Missing"))
    /\ UNCHANGED <<session, client, stdin_tx, stdinVars, handler, ctx, cmds,
                   accepted, exit_sent>>

(* handler_task.await, then an exit status if the handler gave none.       *)
RelayJoin ==
    /\ relay = "join" /\ HandlerDone
    /\ relay' = "cleanup"
    /\ IF exit_sent THEN UNCHANGED out
                    ELSE Put(Exit(IF handler = "ok" THEN "0" ELSE "1"))
    /\ UNCHANGED <<session, client, stdin_tx, stdinVars, handler, ctx, cmds,
                   accepted, exit_sent>>

RelayCleanup ==
    /\ relay = "cleanup"
    /\ relay' = "eof"
    /\ stdin_tx' = FALSE
    /\ UNCHANGED <<session, client, stdinVars, handler, ctx, cmds, accepted,
                   exit_sent, out>>

RelayEof ==
    /\ relay = "eof"
    /\ relay' = "close"
    /\ Put(Eof)
    /\ UNCHANGED <<session, client, stdin_tx, stdinVars, handler, ctx, cmds,
                   accepted, exit_sent>>

RelayClose ==
    /\ relay = "close"
    /\ relay' = "done"
    /\ Put(Close)
    /\ UNCHANGED <<session, client, stdin_tx, stdinVars, handler, ctx, cmds,
                   accepted, exit_sent>>

-----------------------------------------------------------------------------

SessionLoop == RunStreamingExec \/ Data \/ ChannelEof \/ ChannelClose \/ SessionEnds
Handler == \/ \E m \in Commands : SendCmd(m)
           \/ ReadStdin \/ StdinReady \/ Detach \/ HandlerReturns \/ DropContext
Relay == \/ RelayData \/ RelayExit \/ RelayEnd \/ RelayCloseRx \/ RelayJoin
         \/ RelayCleanup \/ RelayEof \/ RelayClose

Next == SessionLoop \/ Handler \/ Relay

Spec == Init /\ [][Next]_vars

(* tokio polls the relay and a ready read_stdin.  Whoever has the context  *)
(* goes on until it reads or is done with it, and a handler whose context  *)
(* is gone returns.                                                        *)
Fairness ==
    /\ WF_vars(Relay)
    /\ WF_vars(StdinReady)
    /\ WF_vars(ReadStdin \/ HandlerReturns \/ DropContext)
    /\ WF_vars(ctx # "held" /\ HandlerReturns)

FairSpec == Spec /\ Fairness

-----------------------------------------------------------------------------
(* Properties.                                                             *)

HandlerStates == {"none", "run", "ok", "err", "panic"}
RelayStates == {"none", "loop", "break", "join", "cleanup", "eof", "close", "done"}

TypeOK ==
    /\ session \in {"up", "gone"}
    /\ client \in {"open", "eof", "closed"}
    /\ stdin_tx \in BOOLEAN
    /\ stdin \in Seq(1 .. MaxIn)
    /\ sent \in 0 .. MaxIn
    /\ read \in 0 .. MaxIn
    /\ stdin_end \in BOOLEAN
    /\ reading \in BOOLEAN
    /\ handler \in HandlerStates
    /\ ctx \in {"none", "held", "detached", "dropped"}
    /\ cmds \in Seq(Commands)
    /\ accepted \in Seq(Commands)
    /\ relay \in RelayStates
    /\ exit_sent \in BOOLEAN
    /\ out \in Seq(Commands \cup {Eof, Close})

(* The channel implements what ExecChannel promises.                       *)
Channel == INSTANCE ExecChannel WITH written <- accepted, connected <- Connected

(* The client sees the handler's output in order, cut off by the first     *)
(* exit the handler reports, then exactly one exit message, EOF and Close, *)
(* whenever the handler returns, panics or gives its context away.         *)
ImplementsChannel == Channel!Spec

(* A client still there when the relay finishes has received everything    *)
(* the handler wrote before its exit, the exit the handler chose, EOF and  *)
(* Close.  A handler that reported none exits with 0 if it returned Ok and *)
(* not with 0 if it failed or panicked; the code makes that a status 1,    *)
(* the design a signal.                                                    *)
ExitsReported == {k \in 1 .. Len(accepted) : accepted[k].t = "exit"}
FirstExit == CHOOSE k \in ExitsReported : \A j \in ExitsReported : k <= j
Verdicts == IF handler = "ok" THEN {"0"} ELSE ExitStatus \ {"0"}
Endings ==
    IF ExitsReported = {}
    THEN {Append(accepted, Exit(s)) : s \in Verdicts}
    ELSE {SubSeq(accepted, 1, FirstExit)}
NothingLost ==
    (relay = "done" /\ Connected) => \E e \in Endings : out = e \o <<Eof, Close>>

(* read_stdin says None only after it has handed over every chunk the      *)
(* client sent, unless the exec is already over.                           *)
StdinComplete ==
    (stdin_end /\ relay \notin {"eof", "close", "done"}) => read = sent

(* A client that ends its input, or closes the channel, ends the exec: no  *)
(* order of the three tasks leaves the handler and the relay waiting for   *)
(* each other.                                                             *)
ClientEndsExec == (client # "open") ~> (relay = "done")

=============================================================================
