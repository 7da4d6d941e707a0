------------------------ MODULE StreamingExecProofs -------------------------
(***************************************************************************)
(* Proofs about StreamingExec for any number of commands and stdin chunks  *)
(* and any set of exit messages, among them that it implements ExecChannel.*)
(***************************************************************************)
EXTENDS StreamingExec, TLAPS

Over == {"eof", "close", "done"}
Joined == {"cleanup", "eof", "close", "done"}
NoExit(s) == \A i \in 1 .. Len(s) : s[i].t # "exit"

(* The three tasks: nothing has happened before the exec, the relay passes *)
(* its join only behind the handler, and whoever reads has the context.    *)
Phases ==
    /\ relay = "none" => ctx = "none" /\ client = "open" /\ ~stdin_end
    /\ relay \in {"none", "loop"} => ~exit_sent
    /\ relay \in Joined => HandlerDone
    /\ relay = "break" => exit_sent
    /\ reading => ctx \in {"held", "detached"}

(* In the loop, what was accepted is what is out and what is queued.       *)
LoopOutput ==
    (Connected /\ relay \in {"none", "loop"}) =>
       /\ NoExit(out)
       /\ Len(accepted) = Len(out) + Len(cmds)
       /\ \A i \in 1 .. Len(out) : accepted[i] = out[i]
       /\ \A i \in 1 .. Len(cmds) : accepted[Len(out) + i] = cmds[i]

(* After an exit, the output is what was accepted up to the first exit.    *)
ExitOutput ==
    (Connected /\ exit_sent /\ relay \in {"break", "join"}) =>
       /\ Len(out) \in 1 .. Len(accepted)
       /\ \A i \in 1 .. Len(out) : accepted[i] = out[i]
       /\ \A i \in 1 .. Len(out) : out[i].t = "exit" <=> i = Len(out)

(* A handler that reported no exit leaves all it wrote.                    *)
JoinOutput ==
    (Connected /\ ~exit_sent /\ relay = "join") => out = accepted /\ NoExit(out)

(* From the join on the output is settled: what the handler wrote, or what *)
(* it wrote up to its exit, with the exit the relay makes up if need be.   *)
Told ==
    IF ExitsReported = {}
    THEN Append(accepted, Exit(IF handler = "ok" THEN "0" ELSE "1"))
    ELSE SubSeq(accepted, 1, FirstExit)
FinalOutput ==
    Connected =>
       /\ relay \in {"cleanup", "eof"} =>
             out = Told /\ Told # << >> /\ Told[Len(Told)].t = "exit"
       /\ relay = "close" => out = Append(Told, Eof)
       /\ relay = "done" => out = Append(Append(Told, Eof), Close)

(* The sender is filed from the exec until EOF, close or the cleanup, and  *)
(* read_stdin says None only after that.                                   *)
SenderFiled ==
    /\ (client = "open" /\ relay \notin Over \cup {"none"}) => stdin_tx
    /\ client # "open" => ~stdin_tx
    /\ stdin_end => ~stdin_tx

(* Until the cleanup a context that is alive has in its queue what was     *)
(* sent and not read.                                                      *)
StdinQueued ==
    (relay \notin Over /\ ctx # "dropped") =>
       /\ sent = read + Len(stdin)
       /\ \A i \in 1 .. Len(stdin) : stdin[i] = read + i

OutputInv == LoopOutput /\ ExitOutput /\ JoinOutput /\ FinalOutput
StdinInv == SenderFiled /\ StdinQueued /\ StdinComplete

IndInv == TypeOK /\ Phases /\ OutputInv /\ StdinInv

-----------------------------------------------------------------------------
(* What Append and Tail do to the elements of a queue.                     *)
LEMMA Appended ==
    ASSUME NEW S, NEW s \in Seq(S), NEW e \in S
    PROVE  /\ Append(s, e) \in Seq(S)
           /\ Len(s) \in Nat /\ Len(Append(s, e)) = Len(s) + 1
           /\ \A i \in 1 .. Len(s) : Append(s, e)[i] = s[i]
           /\ Append(s, e)[Len(s) + 1] = e
  OBVIOUS

LEMMA Rest ==
    ASSUME NEW S, NEW s \in Seq(S), s # << >>
    PROVE  /\ Head(s) = s[1] /\ Head(s) \in S
           /\ Tail(s) \in Seq(S)
           /\ Len(s) \in Nat \ {0} /\ Len(Tail(s)) = Len(s) - 1
           /\ \A i \in 1 .. Len(Tail(s)) : Tail(s)[i] = s[i + 1]
  OBVIOUS

(* What the messages are.                                                  *)
LEMMA Messages ==
    /\ \A m \in Commands : m.t \in {"stdout", "stderr", "exit"}
    /\ Exit("0") \in Commands /\ Exit("1") \in Commands
    /\ \A s : Exit(s).t = "exit"
    /\ Eof.t = "eof" /\ Close.t = "close"
  BY ConstantsAssumption DEF Commands, Stdout, Stderr, Exit, Eof, Close

(* The types are kept by every step.                                       *)
LEMMA StepTypeOK == TypeOK /\ [Next]_vars => TypeOK'
  <1> SUFFICES ASSUME TypeOK, [Next]_vars PROVE TypeOK'
    OBVIOUS
  <1> DEFINE Msgs == Commands \cup {Eof, Close}
  <1>0. Exit("0") \in Msgs /\ Exit("1") \in Msgs
    BY Messages
  <1>m. out \in Seq(Msgs)
    BY DEF TypeOK
  <1>h. \A m \in Msgs : Append(out, m) \in Seq(Msgs)
    BY <1>m
  <1> USE ConstantsAssumption
  <1>1. CASE SessionLoop
    <2>1. CASE RunStreamingExec
      BY <2>1 DEF TypeOK, RunStreamingExec, stdinVars, HandlerStates, RelayStates
    <2>2. CASE Data
      <3>1. sent' \in 1 .. MaxIn
        BY <2>2 DEF TypeOK, Data
      <3>2. stdin' \in Seq(1 .. MaxIn)
        <4> DEFINE S == 1 .. MaxIn
        <4>1. stdin \in Seq(S) /\ sent' \in S
          BY <3>1 DEF TypeOK
        <4>2. Append(stdin, sent') \in Seq(S)
          BY <4>1, Appended
        <4> HIDE DEF S
        <4>3. stdin' \in Seq(S)
          BY <2>2, <4>1, <4>2 DEF Data
        <4> QED
          BY <4>3 DEF S
      <3> QED
        BY <2>2, <3>1, <3>2 DEF TypeOK, Data
    <2>3. CASE ChannelEof \/ ChannelClose \/ SessionEnds
      BY <2>3 DEF TypeOK, ChannelEof, ChannelClose, SessionEnds, stdinVars
    <2> QED
      BY <1>1, <2>1, <2>2, <2>3 DEF SessionLoop
  <1>2. CASE Handler
    <2>1. ASSUME NEW m \in Commands, SendCmd(m) PROVE TypeOK'
      BY <2>1 DEF TypeOK, SendCmd, stdinVars
    <2>2. CASE ReadStdin \/ Detach
      BY <2>2 DEF TypeOK, ReadStdin, Detach, stdinVars
    <2>3. CASE StdinReady
      <3> DEFINE S == 1 .. MaxIn
      <3>1. stdin \in Seq(S) /\ S \subseteq 0 .. MaxIn /\ read \in 0 .. MaxIn
        BY DEF TypeOK
      <3>2. stdin # << >> => Tail(stdin) \in Seq(S) /\ Head(stdin) \in S
        BY <3>1, Rest
      <3> HIDE DEF S
      <3>3. stdin' \in Seq(S) /\ read' \in 0 .. MaxIn
        BY <2>3, <3>1, <3>2 DEF StdinReady
      <3>4. stdin' \in Seq(1 .. MaxIn)
        BY <3>3 DEF S
      <3> QED
        BY <2>3, <3>3, <3>4 DEF TypeOK, StdinReady
    <2>4. CASE HandlerReturns
      <3>1. stdin' \in Seq(1 .. MaxIn)
        <4> DEFINE S == Seq(1 .. MaxIn)
        <4>1. stdin \in S /\ << >> \in S
          BY DEF TypeOK
        <4> HIDE DEF S
        <4>2. stdin' \in S
          BY <2>4, <4>1 DEF HandlerReturns
        <4> QED
          BY <4>2 DEF S
      <3>2. ctx' \in {"none", "held", "detached", "dropped"} /\ handler' \in HandlerStates
        BY <2>4 DEF TypeOK, HandlerReturns, HandlerStates
      <3> QED
        BY <2>4, <3>1, <3>2 DEF TypeOK, HandlerReturns
    <2>5. CASE DropContext
      BY <2>5 DEF TypeOK, DropContext
    <2> QED
      BY <1>2, <2>1, <2>2, <2>3, <2>4, <2>5 DEF Handler
  <1>3. CASE Relay
    <2>0. cmds # << >> => Tail(cmds) \in Seq(Commands)
      BY Rest DEF TypeOK
    <2>1. (relay' \in RelayStates /\ exit_sent' \in BOOLEAN /\ stdin_tx' \in BOOLEAN
             /\ cmds' \in Seq(Commands))
      <3>1. CASE RelayData \/ RelayExit
        BY <2>0, <3>1 DEF TypeOK, RelayData, RelayExit, RelayStates
      <3>2. CASE RelayEnd \/ RelayCloseRx \/ RelayJoin \/ RelayCleanup
        BY <3>2 DEF TypeOK, RelayEnd, RelayCloseRx, RelayJoin, RelayCleanup, RelayStates
      <3>3. CASE RelayEof \/ RelayClose
        BY <3>3 DEF TypeOK, RelayEof, RelayClose, RelayStates
      <3> QED
        BY <1>3, <3>1, <3>2, <3>3 DEF Relay
    <2>2. out' \in Seq(Msgs)
      <3>1. CASE RelayData \/ RelayExit
        <4>1. Head(cmds) \in Msgs
          BY <3>1 DEF TypeOK, RelayData, RelayExit
        <4> QED
          BY <3>1, <4>1, <1>h, <1>m DEF RelayData, RelayExit, Put
      <3>2. CASE RelayJoin
        BY <3>2, <1>0, <1>h, <1>m DEF RelayJoin, Put
      <3>3. CASE RelayEnd \/ RelayCloseRx \/ RelayCleanup \/ RelayEof \/ RelayClose
        BY <3>3, <1>h, <1>m DEF RelayEnd, RelayCloseRx, RelayCleanup, RelayEof,
           RelayClose, Put
      <3> QED
        BY <1>3, <3>1, <3>2, <3>3 DEF Relay
    <2>3. UNCHANGED <<session, client, stdinVars, handler, ctx, accepted>>
      BY <1>3 DEF Relay, RelayData, RelayExit, RelayEnd, RelayCloseRx,
         RelayJoin, RelayCleanup, RelayEof, RelayClose
    <2> QED
      BY <2>1, <2>2, <2>3 DEF TypeOK, stdinVars
  <1>4. CASE UNCHANGED vars
    BY <1>4 DEF TypeOK, vars, stdinVars
  <1> QED
    BY <1>1, <1>2, <1>3, <1>4 DEF Next

(* The phases of the three tasks.                                          *)
LEMMA StepPhases == TypeOK /\ Phases /\ [Next]_vars => Phases'
  <1> SUFFICES ASSUME TypeOK, Phases, [Next]_vars PROVE Phases'
    OBVIOUS
  <1> USE DEF TypeOK, Phases, HandlerDone, Joined
  <1>1. CASE SessionLoop
    BY <1>1 DEF SessionLoop, RunStreamingExec, Data, ChannelEof, ChannelClose,
       SessionEnds, stdinVars
  <1>2. CASE Handler
    <2>1. ASSUME NEW m \in Commands, SendCmd(m) PROVE Phases'
      BY <2>1 DEF SendCmd, stdinVars, InHand
    <2>2. CASE ReadStdin \/ Detach \/ DropContext
      BY <2>2 DEF ReadStdin, Detach, DropContext, stdinVars, InHand
    <2>3. CASE StdinReady
      BY <2>3 DEF StdinReady
    <2>4. CASE HandlerReturns
      BY <2>4 DEF HandlerReturns
    <2> QED
      BY <1>2, <2>1, <2>2, <2>3, <2>4 DEF Handler
  <1>3. CASE Relay
    BY <1>3 DEF Relay, RelayData, RelayExit, RelayEnd, RelayCloseRx, RelayJoin,
       RelayCleanup, RelayEof, RelayClose, stdinVars
  <1>4. CASE UNCHANGED vars
    BY <1>4 DEF vars, stdinVars
  <1> QED
    BY <1>1, <1>2, <1>3, <1>4 DEF Next

-----------------------------------------------------------------------------
(* Standard input.                                                         *)

(* The sender is there while chunks may come.                              *)
LEMMA StepSenderFiled ==
    ASSUME TypeOK, Phases, SenderFiled, [Next]_vars
    PROVE  SenderFiled'
  <1> USE DEF TypeOK, Phases, SenderFiled, Over
  <1>1. CASE SessionLoop
    BY <1>1 DEF SessionLoop, RunStreamingExec, Data, ChannelEof, ChannelClose,
       SessionEnds, stdinVars
  <1>2. CASE Handler
    <2>1. ASSUME NEW m \in Commands, SendCmd(m) PROVE SenderFiled'
      BY <2>1 DEF SendCmd, stdinVars
    <2>2. CASE ReadStdin \/ Detach \/ DropContext
      BY <2>2 DEF ReadStdin, Detach, DropContext, stdinVars
    <2>3. CASE StdinReady
      BY <2>3 DEF StdinReady
    <2>4. CASE HandlerReturns
      BY <2>4 DEF HandlerReturns
    <2> QED
      BY <1>2, <2>1, <2>2, <2>3, <2>4 DEF Handler
  <1>3. CASE Relay
    BY <1>3 DEF Relay, RelayData, RelayExit, RelayEnd, RelayCloseRx, RelayJoin,
       RelayCleanup, RelayEof, RelayClose, stdinVars
  <1>4. CASE UNCHANGED vars
    BY <1>4 DEF vars, stdinVars
  <1> QED
    BY <1>1, <1>2, <1>3, <1>4 DEF Next

(* No chunk is lost or overtaken on its way to the handler.                *)
LEMMA StepStdinQueued ==
    ASSUME TypeOK, Phases, SenderFiled, StdinQueued, [Next]_vars
    PROVE  StdinQueued'
  <1> DEFINE S == 1 .. MaxIn
  <1>0. stdin \in Seq(S) /\ sent \in Nat /\ read \in Nat
    BY ConstantsAssumption DEF TypeOK
  <1>1. CASE Data
    <2>1. sent' \in S /\ sent' = sent + 1 /\ read' = read
      BY <1>1, ConstantsAssumption DEF TypeOK, Data
    <2> DEFINE q == Append(stdin, sent')
    <2>2. /\ Len(stdin) \in Nat /\ Len(q) = Len(stdin) + 1
          /\ \A i \in 1 .. Len(stdin) : q[i] = stdin[i]
          /\ q[Len(stdin) + 1] = sent'
      BY <1>0, <2>1, Appended
    <2> HIDE DEF S, q
    <2>3. SUFFICES ASSUME relay \notin Over, ctx # "dropped"
                   PROVE  /\ sent' = read + Len(stdin')
                          /\ \A i \in 1 .. Len(stdin') : stdin'[i] = read + i
      BY <1>1, <2>1 DEF Data, StdinQueued
    <2>4. stdin' = q
      BY <1>1, <2>3 DEF Data, SenderFiled, q
    <2>5. sent = read + Len(stdin) /\ \A i \in 1 .. Len(stdin) : stdin[i] = read + i
      BY <2>3 DEF StdinQueued
    <2> QED
      BY <1>0, <2>1, <2>2, <2>4, <2>5
  <1>2. CASE StdinReady
    <2>1. SUFFICES ASSUME relay \notin Over, ctx # "dropped"
                   PROVE  /\ sent = read' + Len(stdin')
                          /\ \A i \in 1 .. Len(stdin') : stdin'[i] = read' + i
      BY <1>2 DEF StdinReady, StdinQueued
    <2>2. sent = read + Len(stdin) /\ \A i \in 1 .. Len(stdin) : stdin[i] = read + i
      BY <2>1 DEF StdinQueued
    <2>3. CASE stdin # << >> /\ read' = Head(stdin) /\ stdin' = Tail(stdin)
      <3>1. /\ Head(stdin) = stdin[1] /\ Len(stdin) \in Nat \ {0}
            /\ Len(Tail(stdin)) = Len(stdin) - 1
            /\ \A i \in 1 .. Len(Tail(stdin)) : Tail(stdin)[i] = stdin[i + 1]
        BY <1>0, <2>3, Rest
      <3>2. read' = read + 1 /\ Len(stdin') = Len(stdin) - 1
        BY <2>2, <2>3, <3>1
      <3>3. ASSUME NEW i \in 1 .. Len(stdin') PROVE stdin'[i] = read' + i
        <4>1. i + 1 \in 1 .. Len(stdin) /\ stdin'[i] = stdin[i + 1]
          BY <2>3, <3>1, <3>2, <3>3
        <4> QED
          BY <1>0, <2>2, <3>2, <4>1
      <3> QED
        BY <1>0, <2>2, <3>1, <3>2, <3>3
    <2>4. CASE UNCHANGED <<stdin, read>>
      BY <2>2, <2>4
    <2> QED
      BY <1>2, <2>3, <2>4 DEF StdinReady
  <1>3. CASE /\ UNCHANGED <<stdin, sent, read>>
             /\ relay' \notin Over => relay \notin Over
             /\ ctx' # "dropped" => ctx # "dropped"
    BY <1>3 DEF StdinQueued
  <1>4. CASE SessionLoop
    BY <1>1, <1>3, <1>4 DEF SessionLoop, RunStreamingExec, ChannelEof,
       ChannelClose, SessionEnds, stdinVars, Phases, Over
  <1>5. CASE Handler
    <2>1. ASSUME NEW m \in Commands, SendCmd(m) PROVE StdinQueued'
      BY <2>1, <1>3 DEF SendCmd, stdinVars
    <2>2. CASE ReadStdin \/ Detach
      BY <2>2, <1>3 DEF ReadStdin, Detach, stdinVars
    <2>3. CASE HandlerReturns \/ DropContext
      <3>1. CASE ctx' = "dropped"
        BY <3>1 DEF StdinQueued
      <3>2. CASE ctx' # "dropped"
        BY <2>3, <3>2, <1>3 DEF HandlerReturns, DropContext
      <3> QED
        BY <3>1, <3>2
    <2> QED
      BY <1>2, <1>5, <2>1, <2>2, <2>3 DEF Handler
  <1>6. CASE Relay
    BY <1>6, <1>3 DEF Relay, RelayData, RelayExit, RelayEnd, RelayCloseRx,
       RelayJoin, RelayCleanup, RelayEof, RelayClose, stdinVars, Over
  <1>7. CASE UNCHANGED vars
    BY <1>7, <1>3 DEF vars, stdinVars
  <1> QED
    BY <1>4, <1>5, <1>6, <1>7 DEF Next

(* None comes last: after it no chunk is taken, unless the exec is over.   *)
LEMMA StepStdinComplete ==
    ASSUME TypeOK, Phases, SenderFiled, StdinQueued, StdinComplete, [Next]_vars
    PROVE  StdinComplete'
  <1> USE DEF StdinComplete
  <1>1. CASE SessionLoop
    BY <1>1 DEF SessionLoop, RunStreamingExec, Data, ChannelEof, ChannelClose,
       SessionEnds, stdinVars, SenderFiled, Phases, Over
  <1>2. CASE StdinReady
    <2>1. ctx # "dropped"
      BY <1>2 DEF StdinReady, Phases
    <2>2. CASE stdin # << >> /\ UNCHANGED stdin_end
      <3>1. CASE stdin_end /\ relay \notin Over
        <4>1. read = sent /\ sent = read + Len(stdin)
          BY <2>1, <3>1 DEF StdinQueued, Over
        <4>2. Len(stdin) \in Nat \ {0}
          BY <2>2, Rest DEF TypeOK
        <4> QED
          BY <4>1, <4>2, ConstantsAssumption DEF TypeOK
      <3> QED
        BY <1>2, <2>2, <3>1 DEF StdinReady, Over
    <2>3. CASE stdin = << >> /\ UNCHANGED <<stdin, read>>
      <3>1. relay \notin Over => sent = read + 0
        BY <2>1, <2>3 DEF StdinQueued
      <3> QED
        BY <1>2, <2>3, <3>1, ConstantsAssumption DEF StdinReady, TypeOK, Over
    <2> QED
      BY <1>2, <2>2, <2>3 DEF StdinReady
  <1>3. CASE /\ UNCHANGED <<stdin_end, read, sent>>
             /\ relay' \notin Over => relay \notin Over
    BY <1>3 DEF Over
  <1>4. CASE Handler
    <2>1. ASSUME NEW m \in Commands, SendCmd(m) PROVE StdinComplete'
      BY <2>1, <1>3 DEF SendCmd, stdinVars
    <2>2. CASE ReadStdin \/ Detach \/ HandlerReturns \/ DropContext
      BY <2>2, <1>3 DEF ReadStdin, Detach, HandlerReturns, DropContext, stdinVars
    <2> QED
      BY <1>2, <1>4, <2>1, <2>2 DEF Handler
  <1>5. CASE Relay
    BY <1>5, <1>3 DEF Relay, RelayData, RelayExit, RelayEnd, RelayCloseRx,
       RelayJoin, RelayCleanup, RelayEof, RelayClose, stdinVars, Over
  <1>6. CASE UNCHANGED vars
    BY <1>6, <1>3 DEF vars, stdinVars
  <1> QED
    BY <1>1, <1>4, <1>5, <1>6 DEF Next

-----------------------------------------------------------------------------
(* Output.                                                                 *)

(* A step that leaves the output, the queue and the relay alone.           *)
Quiet == UNCHANGED <<cmds, accepted, relay, exit_sent, out>>

(* Which steps are quiet, and that a channel once gone does not return.    *)
LEMMA Steps ==
    ASSUME [Next]_vars
    PROVE  /\ Connected' => Connected
           /\ \/ Quiet
              \/ RunStreamingExec
              \/ \E m \in Commands : SendCmd(m)
              \/ Relay
  <1>1. CASE SessionLoop
    BY <1>1 DEF SessionLoop, RunStreamingExec, Data, ChannelEof, ChannelClose,
       SessionEnds, Connected, Quiet
  <1>2. CASE Handler
    <2>1. ASSUME NEW m \in Commands, SendCmd(m) PROVE Connected' => Connected
      BY <2>1 DEF SendCmd, Connected
    <2>2. CASE ReadStdin \/ StdinReady \/ Detach \/ HandlerReturns \/ DropContext
      BY <2>2 DEF ReadStdin, StdinReady, Detach, HandlerReturns, DropContext,
         Connected, Quiet
    <2> QED
      BY <1>2, <2>1, <2>2 DEF Handler
  <1>3. CASE Relay
    BY <1>3 DEF Relay, RelayData, RelayExit, RelayEnd, RelayCloseRx, RelayJoin,
       RelayCleanup, RelayEof, RelayClose, Connected
  <1>4. CASE UNCHANGED vars
    BY <1>4 DEF vars, Quiet, Connected
  <1> QED
    BY <1>1, <1>2, <1>3, <1>4 DEF Next

(* The handler's commands queue up behind the output.                      *)
LEMMA StepLoopOutput ==
    ASSUME TypeOK, Phases, LoopOutput, [Next]_vars
    PROVE  LoopOutput'
  <1>0. SUFFICES ASSUME Connected', relay' \in {"none", "loop"}
                 PROVE  (/\ NoExit(out)
                         /\ Len(accepted) = Len(out) + Len(cmds)
                         /\ \A i \in 1 .. Len(out) : accepted[i] = out[i]
                         /\ \A i \in 1 .. Len(cmds) : accepted[Len(out) + i] = cmds[i])'
    BY DEF LoopOutput
  <1>1. Connected
    BY <1>0, Steps
  <1>2. relay \in {"none", "loop"} =>
           /\ NoExit(out)
           /\ Len(accepted) = Len(out) + Len(cmds)
           /\ \A i \in 1 .. Len(out) : accepted[i] = out[i]
           /\ \A i \in 1 .. Len(cmds) : accepted[Len(out) + i] = cmds[i]
    BY <1>1 DEF LoopOutput
  <1>3. Len(accepted) \in Nat /\ Len(out) \in Nat /\ Len(cmds) \in Nat
    BY DEF TypeOK
  <1>4. CASE Quiet
    BY <1>0, <1>2, <1>4 DEF Quiet, NoExit
  <1>5. CASE RunStreamingExec
    BY <1>0, <1>2, <1>5 DEF RunStreamingExec, NoExit
  <1>6. ASSUME NEW m \in Commands, SendCmd(m)
        PROVE  (/\ NoExit(out)
                /\ Len(accepted) = Len(out) + Len(cmds)
                /\ \A i \in 1 .. Len(out) : accepted[i] = out[i]
                /\ \A i \in 1 .. Len(cmds) : accepted[Len(out) + i] = cmds[i])'
    <2>1. /\ cmds' = Append(cmds, m) /\ accepted' = Append(accepted, m)
          /\ UNCHANGED <<relay, out>>
      BY <1>6 DEF SendCmd
    <2>2. /\ Len(cmds') = Len(cmds) + 1
          /\ \A i \in 1 .. Len(cmds) : cmds'[i] = cmds[i]
          /\ cmds'[Len(cmds) + 1] = m
      BY <2>1, Appended DEF TypeOK
    <2>3. /\ Len(accepted') = Len(accepted) + 1
          /\ \A i \in 1 .. Len(accepted) : accepted'[i] = accepted[i]
          /\ accepted'[Len(accepted) + 1] = m
      BY <2>1, Appended DEF TypeOK
    <2>4. NoExit(out)'
      BY <1>0, <1>2, <2>1 DEF NoExit
    <2>5. Len(accepted') = Len(out') + Len(cmds')
      <3>1. Len(accepted) = Len(out) + Len(cmds)
        BY <1>0, <1>2, <2>1
      <3>2. Len(accepted') = Len(accepted) + 1 /\ Len(cmds') = Len(cmds) + 1 /\ out' = out
        BY <2>1, <2>2, <2>3
      <3> QED
        BY <1>3, <3>1, <3>2
    <2>6. \A i \in 1 .. Len(out') : accepted'[i] = out'[i]
      BY <1>0, <1>2, <1>3, <2>1, <2>3
    <2>7. ASSUME NEW i \in 1 .. Len(cmds') PROVE accepted'[Len(out') + i] = cmds'[i]
      <3>1. Len(accepted) = Len(out) + Len(cmds)
        BY <1>0, <1>2, <2>1
      <3>2. CASE i \in 1 .. Len(cmds)
        <4>1. Len(out) + i \in 1 .. Len(accepted)
          BY <1>3, <3>1, <3>2
        <4>2. accepted'[Len(out) + i] = accepted[Len(out) + i] /\ cmds'[i] = cmds[i]
          BY <2>2, <2>3, <3>2, <4>1
        <4> QED
          BY <1>0, <1>2, <2>1, <3>2, <4>2
      <3>3. CASE i = Len(cmds) + 1
        <4>1. Len(out') + i = Len(accepted) + 1
          BY <1>3, <2>1, <3>1, <3>3
        <4> QED
          BY <2>2, <2>3, <3>3, <4>1
      <3>4. i \in 1 .. Len(cmds) \/ i = Len(cmds) + 1
        BY <1>3, <2>2
      <3> QED
        BY <3>2, <3>3, <3>4
    <2> QED
      BY <2>4, <2>5, <2>6, <2>7
  <1>7. CASE RelayData
    <2>1. /\ cmds # << >> /\ cmds' = Tail(cmds) /\ Head(cmds).t # "exit"
          /\ out' = Append(out, Head(cmds))
          /\ UNCHANGED <<relay, accepted>>
      BY <1>1, <1>7 DEF RelayData, Put
    <2>2. /\ Head(cmds) = cmds[1] /\ Head(cmds) \in Commands
          /\ Len(cmds) \in Nat \ {0} /\ Len(cmds') = Len(cmds) - 1
          /\ \A i \in 1 .. Len(cmds') : cmds'[i] = cmds[i + 1]
      BY <2>1, Rest DEF TypeOK
    <2>3. /\ Len(out') = Len(out) + 1
          /\ \A i \in 1 .. Len(out) : out'[i] = out[i]
          /\ out'[Len(out) + 1] = Head(cmds)
      <3> DEFINE Msgs == Commands \cup {Eof, Close}
      <3>1. out \in Seq(Msgs) /\ Head(cmds) \in Msgs
        BY <2>2 DEF TypeOK
      <3> HIDE DEF Msgs
      <3> QED
        BY <2>1, <3>1, Appended
    <2>4. NoExit(out)'
      <3> SUFFICES ASSUME NEW i \in 1 .. Len(out') PROVE out'[i].t # "exit"
        BY DEF NoExit
      <3>1. i \in 1 .. Len(out) \/ i = Len(out) + 1
        BY <1>3, <2>3
      <3>2. \A j \in 1 .. Len(out) : out[j].t # "exit"
        BY <1>0, <1>2, <2>1 DEF NoExit
      <3> QED
        BY <2>1, <2>3, <3>1, <3>2
    <2>5. Len(accepted') = Len(out') + Len(cmds')
      <3>1. Len(accepted) = Len(out) + Len(cmds)
        BY <1>0, <1>2, <2>1
      <3>2. accepted' = accepted /\ Len(cmds') = Len(cmds) - 1 /\ Len(out') = Len(out) + 1
        BY <2>1, <2>2, <2>3
      <3> QED
        BY <1>3, <3>1, <3>2
    <2>6. \A i \in 1 .. Len(out') : accepted'[i] = out'[i]
      BY <1>0, <1>2, <1>3, <2>1, <2>2, <2>3
    <2>7. ASSUME NEW i \in 1 .. Len(cmds') PROVE accepted'[Len(out') + i] = cmds'[i]
      <3>1. /\ i + 1 \in 1 .. Len(cmds) /\ cmds'[i] = cmds[i + 1]
            /\ Len(out') + i = Len(out) + (i + 1)
        BY <1>3, <2>2, <2>3, <2>7
      <3> QED
        BY <1>0, <1>2, <2>1, <3>1
    <2> QED
      BY <2>4, <2>5, <2>6, <2>7
  <1>8. Relay => RelayData
    BY <1>0 DEF Relay, RelayExit, RelayEnd, RelayCloseRx, RelayJoin,
       RelayCleanup, RelayEof, RelayClose
  <1> QED
    BY <1>4, <1>5, <1>6, <1>7, <1>8, Steps

(* Behind an exit nothing more gets out, whatever is still accepted.       *)
LEMMA StepExitOutput ==
    ASSUME TypeOK, Phases, LoopOutput, ExitOutput, [Next]_vars
    PROVE  ExitOutput'
  <1> DEFINE Cut == /\ Len(out) \in 1 .. Len(accepted)
                    /\ \A i \in 1 .. Len(out) : accepted[i] = out[i]
                    /\ \A i \in 1 .. Len(out) : out[i].t = "exit" <=> i = Len(out)
  <1>0. SUFFICES ASSUME Connected', exit_sent', relay' \in {"break", "join"}
                 PROVE  Cut'
    BY DEF ExitOutput
  <1>1. Connected
    BY <1>0, Steps
  <1>2. exit_sent /\ relay \in {"break", "join"} => Cut
    BY <1>1 DEF ExitOutput
  <1>3. Len(accepted) \in Nat /\ Len(out) \in Nat /\ Len(cmds) \in Nat
    BY DEF TypeOK
  <1>4. CASE Quiet
    BY <1>0, <1>2, <1>4 DEF Quiet
  <1>5. ASSUME NEW m \in Commands, SendCmd(m) PROVE Cut'
    <2>1. accepted' = Append(accepted, m) /\ UNCHANGED <<relay, exit_sent, out>>
      BY <1>5 DEF SendCmd
    <2>2. /\ Len(accepted') = Len(accepted) + 1
          /\ \A i \in 1 .. Len(accepted) : accepted'[i] = accepted[i]
      BY <2>1, Appended DEF TypeOK
    <2>3. Cut
      BY <1>0, <1>2, <2>1
    <2> QED
      BY <1>3, <2>1, <2>2, <2>3
  <1>6. CASE RelayExit
    <2>1. /\ cmds # << >> /\ Head(cmds).t = "exit" /\ relay = "loop"
          /\ out' = Append(out, Head(cmds)) /\ accepted' = accepted
      BY <1>1, <1>6 DEF RelayExit, Put
    <2>2. Head(cmds) = cmds[1] /\ Head(cmds) \in Commands /\ Len(cmds) \in Nat \ {0}
      BY <2>1, Rest DEF TypeOK
    <2>3. /\ Len(out') = Len(out) + 1
          /\ \A i \in 1 .. Len(out) : out'[i] = out[i]
          /\ out'[Len(out) + 1] = Head(cmds)
      <3> DEFINE Msgs == Commands \cup {Eof, Close}
      <3>1. out \in Seq(Msgs) /\ Head(cmds) \in Msgs
        BY <2>2 DEF TypeOK
      <3> HIDE DEF Msgs
      <3> QED
        BY <2>1, <3>1, Appended
    <2>4. /\ NoExit(out) /\ Len(accepted) = Len(out) + Len(cmds)
          /\ \A i \in 1 .. Len(out) : accepted[i] = out[i]
          /\ accepted[Len(out) + 1] = cmds[1]
      BY <1>1, <2>1, <2>2 DEF LoopOutput
    <2>5. Len(out') \in 1 .. Len(accepted')
      BY <1>3, <2>1, <2>2, <2>3, <2>4
    <2>6. ASSUME NEW i \in 1 .. Len(out')
          PROVE  accepted'[i] = out'[i] /\ (out'[i].t = "exit" <=> i = Len(out'))
      <3>1. CASE i \in 1 .. Len(out)
        BY <1>3, <2>1, <2>3, <2>4, <3>1 DEF NoExit
      <3>2. CASE i = Len(out) + 1
        BY <2>1, <2>2, <2>3, <2>4, <3>2
      <3> QED
        BY <1>3, <2>3, <3>1, <3>2
    <2> QED
      BY <2>5, <2>6
  <1>7. CASE RelayCloseRx
    BY <1>0, <1>2, <1>7 DEF RelayCloseRx
  <1>8. CASE RunStreamingExec \/ (Relay /\ ~RelayExit /\ ~RelayCloseRx)
    BY <1>0, <1>8 DEF Phases, RunStreamingExec, Relay, RelayData, RelayEnd,
       RelayJoin, RelayCleanup, RelayEof, RelayClose
  <1> QED
    BY <1>4, <1>5, <1>6, <1>7, <1>8, Steps

(* The loop ends without an exit when the queue is empty.                  *)
LEMMA StepJoinOutput ==
    ASSUME TypeOK, Phases, LoopOutput, JoinOutput, [Next]_vars
    PROVE  JoinOutput'
  <1>0. SUFFICES ASSUME Connected', ~exit_sent', relay' = "join"
                 PROVE  out' = accepted' /\ NoExit(out)'
    BY DEF JoinOutput
  <1>1. Connected
    BY <1>0, Steps
  <1>2. CASE RelayEnd
    <2>1. cmds = << >> /\ relay = "loop" /\ UNCHANGED <<accepted, out>>
      BY <1>2 DEF RelayEnd
    <2>2. NoExit(out) /\ Len(accepted) = Len(out) + 0
          /\ \A i \in 1 .. Len(out) : accepted[i] = out[i]
      BY <1>1, <2>1 DEF LoopOutput
    <2>3. /\ Len(accepted) = Len(out)
          /\ out \in Seq(Commands \cup {Eof, Close}) /\ accepted \in Seq(Commands)
      BY <2>2 DEF TypeOK
    <2>4. out = accepted
      BY <2>2, <2>3
    <2> QED
      BY <2>1, <2>2, <2>4 DEF NoExit
  <1>3. CASE Quiet
    BY <1>0, <1>1, <1>3 DEF Quiet, JoinOutput, NoExit
  <1>4. CASE RunStreamingExec \/ (Relay /\ ~RelayEnd) \/ \E m \in Commands : SendCmd(m)
    BY <1>0, <1>4 DEF Phases, RunStreamingExec, SendCmd, CmdOpen, Relay, RelayData,
       RelayExit, RelayCloseRx, RelayJoin, RelayCleanup, RelayEof, RelayClose
  <1> QED
    BY <1>2, <1>3, <1>4, Steps

(* What the client is to be told, seen from the output.                    *)
LEMMA ToldAtExit ==
    ASSUME TypeOK, Len(out) \in 1 .. Len(accepted),
           \A i \in 1 .. Len(out) : accepted[i] = out[i],
           \A i \in 1 .. Len(out) : out[i].t = "exit" <=> i = Len(out)
    PROVE  Told = out
  <1> DEFINE n == Len(out)
             First(k) == \A j \in ExitsReported : k <= j
  <1>1. Len(accepted) \in Nat /\ n \in Nat
    BY DEF TypeOK
  <1>2. n \in ExitsReported
    BY <1>1 DEF ExitsReported
  <1>3. First(n)
    BY <1>1 DEF ExitsReported
  <1>4. ASSUME NEW k \in ExitsReported, First(k) PROVE k = n
    BY <1>1, <1>2, <1>3, <1>4 DEF ExitsReported
  <1> HIDE DEF First
  <1>5. (CHOOSE k \in ExitsReported : First(k)) = n
    BY <1>2, <1>3, <1>4
  <1>6. Told = SubSeq(accepted, 1, n)
    BY <1>2, <1>5 DEF Told, First, FirstExit
  <1>7. SubSeq(accepted, 1, n) = out
    <2>1. out \in Seq(Commands \cup {Eof, Close}) /\ accepted \in Seq(Commands)
      BY DEF TypeOK
    <2> QED
      BY <1>1, <2>1
  <1> QED
    BY <1>6, <1>7

LEMMA ToldByDefault ==
    ASSUME accepted \in Seq(Commands), NoExit(accepted)
    PROVE  Told = Append(accepted, Exit(IF handler = "ok" THEN "0" ELSE "1"))
  <1>1. ExitsReported = {}
    BY DEF ExitsReported, NoExit
  <1> QED
    BY <1>1 DEF Told

(* The join settles what the client is told; EOF and Close follow.         *)
LEMMA StepFinalOutput ==
    ASSUME IndInv, [Next]_vars
    PROVE  FinalOutput'
  <1>0. SUFFICES ASSUME Connected', relay' \in Joined
                 PROVE  FinalOutput'
    BY DEF FinalOutput, Joined
  <1>1. Connected
    BY <1>0, Steps
  <1>2. relay \in Joined => UNCHANGED <<accepted, handler>>
    <2>1. CASE SessionLoop \/ Relay
      BY <2>1 DEF SessionLoop, RunStreamingExec, Data, ChannelEof, ChannelClose,
         SessionEnds, Relay, RelayData, RelayExit, RelayEnd, RelayCloseRx,
         RelayJoin, RelayCleanup, RelayEof, RelayClose, Joined
    <2>2. CASE Handler
      BY <2>2 DEF Handler, SendCmd, ReadStdin, StdinReady, Detach, HandlerReturns,
         DropContext, CmdOpen, Joined, IndInv, Phases, HandlerDone
    <2>3. CASE UNCHANGED vars
      BY <2>3 DEF vars
    <2> QED
      BY <2>1, <2>2, <2>3 DEF Next
  <1>3. relay \in Joined => Told' = Told
    BY <1>2 DEF Told, FirstExit, ExitsReported
  <1>4. CASE Quiet
    BY <1>0, <1>1, <1>3, <1>4 DEF Quiet, IndInv, OutputInv, FinalOutput, Joined
  <1>5. CASE RelayJoin
    <2>1. relay = "join" /\ UNCHANGED <<accepted, handler>> /\ relay' = "cleanup"
      BY <1>5 DEF RelayJoin
    <2>2. Told' = Told
      BY <2>1 DEF Told, FirstExit, ExitsReported
    <2>3. CASE exit_sent
      <3>1. out' = out
        BY <1>5, <2>3 DEF RelayJoin
      <3>2. /\ Len(out) \in 1 .. Len(accepted)
            /\ \A i \in 1 .. Len(out) : accepted[i] = out[i]
            /\ \A i \in 1 .. Len(out) : out[i].t = "exit" <=> i = Len(out)
        BY <1>1, <2>1, <2>3 DEF IndInv, OutputInv, ExitOutput
      <3>3. Told = out
        BY <3>2, ToldAtExit DEF IndInv
      <3>4. Len(out) \in 1 .. Len(out) /\ out # << >>
        BY <3>2 DEF IndInv, TypeOK
      <3> QED
        BY <2>1, <2>2, <3>1, <3>2, <3>3, <3>4 DEF FinalOutput
    <2>4. CASE ~exit_sent
      <3> DEFINE e == Exit(IF handler = "ok" THEN "0" ELSE "1")
      <3>1. out' = Append(out, e)
        BY <1>1, <1>5, <2>4 DEF RelayJoin, Put
      <3>2. out = accepted /\ NoExit(out)
        BY <1>1, <2>1, <2>4 DEF IndInv, OutputInv, JoinOutput
      <3>3. e \in Commands /\ e.t = "exit"
        BY Messages
      <3>4. accepted \in Seq(Commands)
        BY DEF IndInv, TypeOK
      <3>5. Told = Append(accepted, e)
        BY <3>2, <3>4, ToldByDefault
      <3> HIDE DEF e
      <3>6. /\ Len(Told) = Len(accepted) + 1 /\ Len(accepted) \in Nat
            /\ Told[Len(accepted) + 1] = e /\ Told \in Seq(Commands)
        BY <3>3, <3>4, <3>5, Appended
      <3>7. Told # << >> /\ Told[Len(Told)].t = "exit"
        BY <3>3, <3>6
      <3> QED
        BY <2>1, <2>2, <3>1, <3>2, <3>5, <3>7 DEF FinalOutput
    <2> QED
      BY <2>3, <2>4
  <1>6. CASE RelayCleanup
    BY <1>1, <1>3, <1>6 DEF RelayCleanup, IndInv, OutputInv, FinalOutput, Joined
  <1>7. CASE RelayEof \/ RelayClose
    BY <1>1, <1>3, <1>7 DEF RelayEof, RelayClose, Put, IndInv, OutputInv,
       FinalOutput, Joined
  <1>8. CASE RunStreamingExec \/ RelayData \/ RelayExit \/ RelayEnd
             \/ RelayCloseRx \/ \E m \in Commands : SendCmd(m)
    BY <1>0, <1>8 DEF RunStreamingExec, RelayData, RelayExit, RelayEnd,
       RelayCloseRx, SendCmd, CmdOpen, Joined
  <1> QED
    BY <1>4, <1>5, <1>6, <1>7, <1>8, Steps DEF Relay

-----------------------------------------------------------------------------
(* The inductive invariant holds throughout.                               *)
LEMMA InitIndInv == Init => IndInv
  <1> SUFFICES ASSUME Init PROVE IndInv
    OBVIOUS
  <1>1. TypeOK
    <2>1. stdin \in Seq(1 .. MaxIn) /\ cmds \in Seq(Commands)
          /\ accepted \in Seq(Commands) /\ out \in Seq(Commands \cup {Eof, Close})
      BY DEF Init
    <2>2. sent \in 0 .. MaxIn /\ read \in 0 .. MaxIn
      BY ConstantsAssumption DEF Init
    <2> QED
      BY <2>1, <2>2 DEF Init, TypeOK, HandlerStates, RelayStates
  <1>2. Phases
    BY DEF Init, Phases, Joined
  <1>3. OutputInv
    BY DEF Init, OutputInv, LoopOutput, ExitOutput, JoinOutput, FinalOutput, NoExit
  <1>4. StdinInv
    BY DEF Init, StdinInv, SenderFiled, StdinQueued, StdinComplete, Over
  <1> QED
    BY <1>1, <1>2, <1>3, <1>4 DEF IndInv

LEMMA NextIndInv == IndInv /\ [Next]_vars => IndInv'
  BY StepTypeOK, StepPhases, StepLoopOutput, StepExitOutput, StepJoinOutput,
     StepFinalOutput, StepSenderFiled, StepStdinQueued, StepStdinComplete
     DEF IndInv, OutputInv, StdinInv

LEMMA IndInvAlways == Spec => []IndInv
  BY InitIndInv, NextIndInv, PTL DEF Spec

(* The queues, the three tasks and the output keep their types for any     *)
(* number of commands and chunks (run_streaming_exec).                     *)
THEOREM TypeCorrect == Spec => []TypeOK
  <1>1. IndInv => TypeOK
    BY DEF IndInv
  <1> QED
    BY <1>1, IndInvAlways, PTL

(* read_stdin says None only after every chunk the client sent, however    *)
(* the session loop, the handler and the relay interleave (data,           *)
(* channel_eof, StreamingExecContext::read_stdin).                         *)
THEOREM StdinIsComplete == Spec => []StdinComplete
  <1>1. IndInv => StdinComplete
    BY DEF IndInv, StdinInv
  <1> QED
    BY <1>1, IndInvAlways, PTL

(* What the client is told is one of the endings NothingLost admits.       *)
LEMMA ToldIsAnEnding == Told \in Endings
  <1>1. CASE ExitsReported = {}
    <2> DEFINE s == IF handler = "ok" THEN "0" ELSE "1"
    <2>1. s \in Verdicts
      BY ConstantsAssumption DEF Verdicts
    <2>2. Told = Append(accepted, Exit(s))
      BY <1>1 DEF Told
    <2> HIDE DEF s
    <2> QED
      BY <1>1, <2>1, <2>2 DEF Endings
  <1>2. CASE ExitsReported # {}
    BY <1>2 DEF Told, Endings
  <1> QED
    BY <1>1, <1>2

(* When the relay is done, a client still there has all that was written   *)
(* before the exit, one exit, EOF and Close (run_streaming_exec).          *)
THEOREM OutputIsComplete == Spec => []NothingLost
  <1>1. IndInv => NothingLost
    <2> SUFFICES ASSUME IndInv, relay = "done", Connected
                 PROVE  out = Told \o <<Eof, Close>>
      BY ToldIsAnEnding DEF NothingLost
    <2>1. out = Append(Append(Told, Eof), Close)
      BY DEF IndInv, OutputInv, FinalOutput
    <2> QED
      BY <2>1
  <1> QED
    BY <1>1, IndInvAlways, PTL

-----------------------------------------------------------------------------
(* The refinement.                                                         *)

(* Output without an exit has not exited for the abstract channel either.  *)
LEMMA StillOpen ==
    ASSUME TypeOK, NoExit(out), Len(out) <= Len(accepted),
           \A i \in 1 .. Len(out) : accepted[i] = out[i]
    PROVE  ~Channel!Exited
  <1> SUFFICES ASSUME out # << >> PROVE out[Len(out)].t \notin {"exit", "eof", "close"}
    BY DEF Channel!Exited, Channel!Last
  <1>1. Len(out) \in 1 .. Len(out) /\ Len(out) \in 1 .. Len(accepted)
    BY DEF TypeOK
  <1>2. out[Len(out)] \in Commands
    BY <1>1 DEF TypeOK
  <1> QED
    BY <1>1, <1>2, Messages DEF NoExit

(* What the relay puts on the channel is what ExecChannel allows next.     *)
LEMMA RelayRefines ==
    ASSUME IndInv, Relay
    PROVE  [Channel!Next]_(Channel!vars)
  <1>0. UNCHANGED <<session, client, accepted>> /\ Connected' = Connected
    BY DEF Relay, RelayData, RelayExit, RelayEnd, RelayCloseRx, RelayJoin,
       RelayCleanup, RelayEof, RelayClose, Connected
  <1>1. CASE out' = out
    BY <1>0, <1>1 DEF Channel!vars
  <1>2. CASE Connected /\ (RelayData \/ RelayExit)
    <2>1. relay = "loop" /\ cmds # << >> /\ out' = Append(out, Head(cmds))
      BY <1>2 DEF RelayData, RelayExit, Put
    <2>2. Head(cmds) = cmds[1] /\ Len(cmds) \in Nat \ {0}
      BY <2>1, Rest DEF IndInv, TypeOK
    <2>3. /\ NoExit(out) /\ Len(accepted) = Len(out) + Len(cmds)
          /\ \A i \in 1 .. Len(out) : accepted[i] = out[i]
          /\ accepted[Len(out) + 1] = cmds[1]
      BY <1>2, <2>1, <2>2 DEF IndInv, OutputInv, LoopOutput
    <2>4. Len(out) < Len(accepted) /\ Len(out) <= Len(accepted)
      <3>1. Len(out) \in Nat
        BY DEF IndInv, TypeOK
      <3> QED
        BY <2>2, <2>3, <3>1
    <2>5. ~Channel!Exited
      BY <2>3, <2>4, StillOpen DEF IndInv
    <2>6. Channel!Deliver
      BY <1>0, <1>2, <2>1, <2>2, <2>3, <2>4, <2>5 DEF Channel!Deliver
    <2> QED
      BY <2>6 DEF Channel!Next
  <1>3. CASE Connected /\ RelayJoin /\ ~exit_sent
    <2> DEFINE s == IF handler = "ok" THEN "0" ELSE "1"
    <2>1. relay = "join" /\ out' = Append(out, Exit(s))
      BY <1>3 DEF RelayJoin, Put
    <2>2. out = accepted /\ NoExit(out)
      BY <1>3, <2>1 DEF IndInv, OutputInv, JoinOutput
    <2>3. ~Channel!Exited
      <3>1. Len(out) <= Len(accepted)
        BY <2>2 DEF IndInv, TypeOK
      <3> QED
        BY <2>2, <3>1, StillOpen DEF IndInv
    <2>4. s \in ExitStatus
      BY ConstantsAssumption
    <2> HIDE DEF s
    <2>5. Channel!Conclude(s)
      BY <1>0, <1>3, <2>1, <2>2, <2>3 DEF Channel!Conclude, Channel!Exit, Exit
    <2> QED
      BY <2>4, <2>5 DEF Channel!Next
  <1>4. CASE Connected /\ RelayEof
    <2>1. /\ out # << >> /\ out[Len(out)].t = "exit" /\ out' = Append(out, Eof)
      BY <1>4 DEF RelayEof, Put, IndInv, OutputInv, FinalOutput
    <2>2. Channel!Finish
      BY <1>0, <1>4, <2>1 DEF Channel!Finish, Channel!Exited, Channel!Last,
         Channel!Eof, Eof
    <2> QED
      BY <2>2 DEF Channel!Next
  <1>5. CASE Connected /\ RelayClose
    <2>1. out = Append(Told, Eof) /\ out' = Append(out, Close)
      BY <1>5 DEF RelayClose, Put, IndInv, OutputInv, FinalOutput
    <2>2. out # << >> /\ out[Len(out)].t = "eof"
      BY <2>1, Messages
    <2>3. Channel!Finish
      BY <1>0, <1>5, <2>1, <2>2 DEF Channel!Finish, Channel!Exited, Channel!Last,
         Channel!Close, Close
    <2> QED
      BY <2>3 DEF Channel!Next
  <1> QED
    BY <1>1, <1>2, <1>3, <1>4, <1>5 DEF Relay, RelayData, RelayExit, RelayEnd,
       RelayCloseRx, RelayJoin, RelayCleanup, RelayEof, RelayClose, Put

(* Every step is a step of ExecChannel or leaves it alone.                 *)
LEMMA StepRefines == IndInv /\ [Next]_vars => [Channel!Next]_(Channel!vars)
  <1> SUFFICES ASSUME IndInv, [Next]_vars PROVE [Channel!Next]_(Channel!vars)
    OBVIOUS
  <1>1. CASE ChannelClose \/ SessionEnds
    <2>1. ~Connected' /\ UNCHANGED <<accepted, out>>
      BY <1>1 DEF ChannelClose, SessionEnds, Connected
    <2>2. Channel!Cut
      BY <2>1 DEF Channel!Cut
    <2> QED
      BY <2>2 DEF Channel!Next
  <1>2. CASE RunStreamingExec \/ Data \/ ChannelEof
    BY <1>2 DEF RunStreamingExec, Data, ChannelEof, Connected, Channel!vars
  <1>3. ASSUME NEW m \in Commands, SendCmd(m) PROVE [Channel!Next]_(Channel!vars)
    <2>1. accepted' = Append(accepted, m) /\ UNCHANGED out /\ Connected' = Connected
      BY <1>3 DEF SendCmd, Connected
    <2>2. Channel!Write(m)
      BY <2>1 DEF Channel!Write
    <2>3. m \in {Channel!Stdout, Channel!Stderr} \cup {Channel!Exit(s) : s \in ExitStatus}
      BY DEF Commands, Channel!Stdout, Channel!Stderr, Channel!Exit, Stdout, Stderr, Exit
    <2> QED
      BY <2>2, <2>3 DEF Channel!Next
  <1>4. CASE ReadStdin \/ StdinReady \/ Detach \/ HandlerReturns \/ DropContext
    BY <1>4 DEF ReadStdin, StdinReady, Detach, HandlerReturns, DropContext,
       Connected, Channel!vars
  <1>5. CASE UNCHANGED vars
    BY <1>5 DEF vars, Connected, Channel!vars
  <1> QED
    BY <1>1, <1>2, <1>3, <1>4, <1>5, RelayRefines DEF Next, SessionLoop, Handler

(* The streaming exec implements ExecChannel: whatever the interleaving,   *)
(* the client sees the handler's output in order up to its exit, one exit, *)
(* EOF and Close (run_streaming_exec and its relay).                       *)
THEOREM ImplementsExecChannel == Spec => ImplementsChannel
  <1>1. Init => Channel!Init
    BY DEF Init, Channel!Init, Connected
  <1> QED
    BY <1>1, IndInvAlways, StepRefines, PTL DEF Spec, ImplementsChannel, Channel!Spec
=============================================================================
