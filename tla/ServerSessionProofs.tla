------------------------ MODULE ServerSessionProofs -------------------------
(***************************************************************************)
(* Proofs about ServerSession for any set of channels, any limit of        *)
(* sessions, any configuration of callbacks and any number of execs.       *)
(***************************************************************************)
EXTENDS ServerSession, FiniteSetTheorems, TLAPS

(* The two callbacks that tell the server about a connection have run as   *)
(* often as there was something to tell.                                   *)
Notices ==
    /\ conn = "up" => notified = 0
    /\ username = "none" => welcomed = 0
    /\ username # "none" => welcomed = 1

(* A relay belongs to an exec, and a channel not opened yet has had none:  *)
(* so a channel with one exec has at most one relay to lose its sender to. *)
RelayCount == \A ch \in Chans : relays[ch] <= execs[ch]
FreshChannels == \A ch \in Chans : chan[ch] = "unused" => execs[ch] = 0

(* No channel of any kind is open before authentication.                   *)
OpenIsAuthenticated == \A ch \in Chans : Open(ch) => username # "none"

(* The inductive invariant.                                                *)
IndInv ==
    /\ TypeOK /\ Notices /\ RelayCount /\ FreshChannels
    /\ OpenIsAuthenticated /\ AuthenticatedFirst
    /\ StdinFollowsExec /\ NoSlotLeak

-----------------------------------------------------------------------------
(* The open sessions are finitely many, so they can be counted.            *)
LEMMA SessionsFinite == IsFiniteSet(Sessions)
  BY ConstantsAssumption, FS_Subset DEF Sessions

(* A connection starts with nothing to its name.                           *)
LEMMA InitIndInv == Init => IndInv
  <1> SUFFICES ASSUME Init PROVE IndInv
    OBVIOUS
  <1>1. TypeOK
    BY ConstantsAssumption DEF Init, TypeOK
  <1>2. Notices /\ RelayCount /\ FreshChannels
    BY DEF Init, Notices, RelayCount, FreshChannels
  <1>3. OpenIsAuthenticated /\ AuthenticatedFirst /\ StdinFollowsExec
    BY DEF Init, OpenIsAuthenticated, AuthenticatedFirst, StdinFollowsExec, Open
  <1>4. NoSlotLeak
    BY SessionsFinite, FS_CardinalityType DEF Init, NoSlotLeak
  <1> QED
    BY <1>1, <1>2, <1>3, <1>4 DEF IndInv

-----------------------------------------------------------------------------
(* One lemma for each kind of step.  The goals are the same five in each:  *)
(* types, counts, authentication, stdin senders and session slots.         *)

(* An authentication method: the username is set once.                     *)
LEMMA DecideStep ==
    ASSUME IndInv, NEW callback, Decide(callback)
    PROVE  IndInv'
  <1>1. TypeOK'
    BY ConstantsAssumption DEF IndInv, TypeOK, Notices, RelayCount, Open,
       Decide, FireAuthSuccess, Answered, Fail, Drop, authVars, sessionVars,
       historyVars
  <1>2. (Notices /\ RelayCount /\ FreshChannels)'
    BY DEF IndInv, TypeOK, Notices, RelayCount, FreshChannels, Open,
       Decide, FireAuthSuccess, Answered, Fail, Drop, authVars, sessionVars,
       historyVars
  <1>3. (OpenIsAuthenticated /\ AuthenticatedFirst)'
    BY DEF IndInv, TypeOK, Notices, OpenIsAuthenticated,
       AuthenticatedFirst, Open, Decide, FireAuthSuccess, Answered, Fail,
       Drop, authVars, sessionVars, historyVars
  <1>4. StdinFollowsExec'
    BY DEF IndInv, TypeOK, StdinFollowsExec, RelayCount, FreshChannels,
       Open, Decide, FireAuthSuccess, Answered, Fail, Drop, authVars,
       sessionVars, historyVars
  <1>5. NoSlotLeak'
    BY DEF IndInv, TypeOK, NoSlotLeak, Sessions, Open, Decide,
       FireAuthSuccess, Answered, Fail, Drop, authVars, sessionVars,
       historyVars
  <1> QED
    BY <1>1, <1>2, <1>3, <1>4, <1>5 DEF IndInv

(* A session channel is opened, and counted, or refused.                   *)
LEMMA ChannelOpenSessionStep ==
    ASSUME IndInv, NEW ch \in Chans, ChannelOpenSession(ch)
    PROVE  IndInv'
  <1>1. TypeOK'
    BY ConstantsAssumption DEF IndInv, TypeOK, Notices, RelayCount, Open,
       ChannelOpenSession, Answered, authVars, sessionVars, historyVars
  <1>2. (Notices /\ RelayCount /\ FreshChannels)'
    BY DEF IndInv, TypeOK, Notices, RelayCount, FreshChannels, Open,
       ChannelOpenSession, Answered, authVars, sessionVars, historyVars
  <1>3. (OpenIsAuthenticated /\ AuthenticatedFirst)'
    BY DEF IndInv, TypeOK, Notices, OpenIsAuthenticated,
       AuthenticatedFirst, Open, ChannelOpenSession, Answered, authVars,
       sessionVars, historyVars
  <1>4. StdinFollowsExec'
    BY DEF IndInv, TypeOK, StdinFollowsExec, RelayCount, FreshChannels,
       Open, ChannelOpenSession, Answered, authVars, sessionVars, historyVars
  <1>5. NoSlotLeak'
    <2>1. CASE chan' = [chan EXCEPT ![ch] = "session"]
      <3>1. Sessions' = Sessions \cup {ch} /\ ch \notin Sessions
        BY <2>1 DEF IndInv, TypeOK, ChannelOpenSession, Sessions
      <3>2. Cardinality(Sessions') = Cardinality(Sessions) + 1
        BY <3>1, SessionsFinite, FS_AddElement
      <3>3. open_sessions' \in {open_sessions, open_sessions + 1}
        BY DEF ChannelOpenSession
      <3> QED
        BY <3>2, <3>3, SessionsFinite, FS_CardinalityType DEF IndInv, TypeOK, NoSlotLeak
    <2>2. CASE chan' = [chan EXCEPT ![ch] = "refused"] /\ open_sessions' = open_sessions
      <3>1. Sessions' = Sessions
        BY <2>2 DEF IndInv, TypeOK, ChannelOpenSession, Sessions
      <3> QED
        BY <2>2, <3>1 DEF IndInv, NoSlotLeak
    <2> QED
      BY <2>1, <2>2 DEF ChannelOpenSession
  <1> QED
    BY <1>1, <1>2, <1>3, <1>4, <1>5 DEF IndInv

(* A channel of another kind is opened or refused; it is not counted.      *)
LEMMA OpenThroughStep ==
    ASSUME IndInv, NEW ch \in Chans, NEW callback, OpenThrough(ch, callback)
    PROVE  IndInv'
  <1>1. TypeOK'
    BY ConstantsAssumption DEF IndInv, TypeOK, Notices, RelayCount, Open,
       OpenThrough, Answered, Fail, Drop, authVars, sessionVars, historyVars
  <1>2. (Notices /\ RelayCount /\ FreshChannels)'
    BY DEF IndInv, TypeOK, Notices, RelayCount, FreshChannels, Open,
       OpenThrough, Answered, Fail, Drop, authVars, sessionVars, historyVars
  <1>3. (OpenIsAuthenticated /\ AuthenticatedFirst)'
    BY DEF IndInv, TypeOK, Notices, OpenIsAuthenticated,
       AuthenticatedFirst, Open, OpenThrough, Answered, Fail, Drop, authVars,
       sessionVars, historyVars
  <1>4. StdinFollowsExec'
    BY DEF IndInv, TypeOK, StdinFollowsExec, RelayCount, FreshChannels,
       Open, OpenThrough, Answered, Fail, Drop, authVars, sessionVars,
       historyVars
  <1>5. NoSlotLeak'
    BY DEF IndInv, TypeOK, NoSlotLeak, Sessions, Open, OpenThrough,
       Answered, Fail, Drop, authVars, sessionVars, historyVars
  <1> QED
    BY <1>1, <1>2, <1>3, <1>4, <1>5 DEF IndInv

(* A channel of any kind is closed: what is filed under it goes with it,   *)
(* and the count of sessions is lowered without going below zero.          *)
LEMMA ChannelCloseStep ==
    ASSUME IndInv, NEW ch \in Chans, ChannelClose(ch)
    PROVE  IndInv'
  <1>1. TypeOK'
    BY ConstantsAssumption DEF IndInv, TypeOK, Notices, RelayCount, Open,
       ChannelClose, Forget, Answered, authVars, sessionVars, historyVars
  <1>2. (Notices /\ RelayCount /\ FreshChannels)'
    BY DEF IndInv, TypeOK, Notices, RelayCount, FreshChannels, Open,
       ChannelClose, Forget, Answered, authVars, sessionVars, historyVars
  <1>3. (OpenIsAuthenticated /\ AuthenticatedFirst)'
    BY DEF IndInv, TypeOK, Notices, OpenIsAuthenticated,
       AuthenticatedFirst, Open, ChannelClose, Forget, Answered, authVars,
       sessionVars, historyVars
  <1>4. StdinFollowsExec'
    BY DEF IndInv, TypeOK, StdinFollowsExec, RelayCount, FreshChannels,
       Open, ChannelClose, Forget, Answered, authVars, sessionVars,
       historyVars
  <1>5. NoSlotLeak'
    <2>1. CASE chan[ch] = "session"
      <3>1. Sessions' = Sessions \ {ch} /\ ch \in Sessions
        BY <2>1 DEF IndInv, TypeOK, ChannelClose, Sessions
      <3>2. Cardinality(Sessions') = Cardinality(Sessions) - 1
        BY <3>1, SessionsFinite, FS_RemoveElement
      <3>3. Cardinality(Sessions) \in Nat /\ Cardinality(Sessions') \in Nat
        BY <3>1, SessionsFinite, FS_CardinalityType, FS_RemoveElement
      <3> QED
        BY <3>2, <3>3 DEF IndInv, TypeOK, NoSlotLeak, ChannelClose
    <2>2. CASE chan[ch] # "session"
      <3>1. Sessions' = Sessions
        BY <2>2 DEF IndInv, TypeOK, ChannelClose, Sessions
      <3> QED
        BY <3>1, SessionsFinite, FS_CardinalityType DEF IndInv, TypeOK, NoSlotLeak, ChannelClose
    <2> QED
      BY <2>1, <2>2
  <1> QED
    BY <1>1, <1>2, <1>3, <1>4, <1>5 DEF IndInv

(* The client's EOF takes the stdin sender away.                           *)
LEMMA ChannelEofStep ==
    ASSUME IndInv, NEW ch \in Chans, ChannelEof(ch)
    PROVE  IndInv'
  <1>1. TypeOK'
    BY ConstantsAssumption DEF IndInv, TypeOK, Notices, RelayCount, Open,
       ChannelEof, Answered, authVars, sessionVars, historyVars
  <1>2. (Notices /\ RelayCount /\ FreshChannels)'
    BY DEF IndInv, TypeOK, Notices, RelayCount, FreshChannels, Open,
       ChannelEof, Answered, authVars, sessionVars, historyVars
  <1>3. (OpenIsAuthenticated /\ AuthenticatedFirst)'
    BY DEF IndInv, TypeOK, Notices, OpenIsAuthenticated,
       AuthenticatedFirst, Open, ChannelEof, Answered, authVars, sessionVars,
       historyVars
  <1>4. StdinFollowsExec'
    BY DEF IndInv, TypeOK, StdinFollowsExec, RelayCount, FreshChannels,
       Open, ChannelEof, Answered, authVars, sessionVars, historyVars
  <1>5. NoSlotLeak'
    BY DEF IndInv, TypeOK, NoSlotLeak, Sessions, Open, ChannelEof,
       Answered, authVars, sessionVars, historyVars
  <1> QED
    BY <1>1, <1>2, <1>3, <1>4, <1>5 DEF IndInv

(* SFTP data with a bad length, or whose response cannot be written.       *)
LEMMA DataStep ==
    ASSUME IndInv, NEW ch \in Chans, Data(ch)
    PROVE  IndInv'
  <1>1. TypeOK'
    BY ConstantsAssumption DEF IndInv, TypeOK, Notices, RelayCount, Open,
       Data, Answered, Fail, Drop, authVars, sessionVars, historyVars
  <1>2. (Notices /\ RelayCount /\ FreshChannels)'
    BY DEF IndInv, TypeOK, Notices, RelayCount, FreshChannels, Open, Data,
       Answered, Fail, Drop, authVars, sessionVars, historyVars
  <1>3. (OpenIsAuthenticated /\ AuthenticatedFirst)'
    BY DEF IndInv, TypeOK, Notices, OpenIsAuthenticated,
       AuthenticatedFirst, Open, Data, Answered, Fail, Drop, authVars, sessionVars,
       historyVars
  <1>4. StdinFollowsExec'
    BY DEF IndInv, TypeOK, StdinFollowsExec, RelayCount, FreshChannels,
       Open, Data, Answered, Fail, Drop, authVars, sessionVars, historyVars
  <1>5. NoSlotLeak'
    BY DEF IndInv, TypeOK, NoSlotLeak, Sessions, Open, Data, Answered, Fail, Drop,
       authVars, sessionVars, historyVars
  <1> QED
    BY <1>1, <1>2, <1>3, <1>4, <1>5 DEF IndInv

(* A streaming exec gets its relay and its stdin sender together.          *)
LEMMA StreamingExecStep ==
    ASSUME IndInv, NEW ch \in Chans, StreamingExec(ch)
    PROVE  IndInv'
  <1>1. TypeOK'
    BY ConstantsAssumption DEF IndInv, TypeOK, Notices, RelayCount, Open,
       StreamingExec, Serve, Answered, Fail, Drop, authVars, sessionVars,
       historyVars
  <1>2. (Notices /\ RelayCount /\ FreshChannels)'
    BY DEF IndInv, TypeOK, Notices, RelayCount, FreshChannels, Open,
       StreamingExec, Serve, Answered, Fail, Drop, authVars, sessionVars,
       historyVars
  <1>3. (OpenIsAuthenticated /\ AuthenticatedFirst)'
    BY DEF IndInv, TypeOK, Notices, OpenIsAuthenticated,
       AuthenticatedFirst, Open, StreamingExec, Serve, Answered, Fail, Drop,
       authVars, sessionVars, historyVars
  <1>4. StdinFollowsExec'
    BY DEF IndInv, TypeOK, StdinFollowsExec, RelayCount, FreshChannels,
       Open, StreamingExec, Serve, Answered, Fail, Drop, authVars,
       sessionVars, historyVars
  <1>5. NoSlotLeak'
    BY DEF IndInv, TypeOK, NoSlotLeak, Sessions, Open, StreamingExec,
       Serve, Answered, Fail, Drop, authVars, sessionVars, historyVars
  <1> QED
    BY <1>1, <1>2, <1>3, <1>4, <1>5 DEF IndInv

(* A buffered exec.                                                        *)
LEMMA BufferedExecStep ==
    ASSUME IndInv, NEW ch \in Chans, BufferedExec(ch)
    PROVE  IndInv'
  <1>1. TypeOK'
    BY ConstantsAssumption DEF IndInv, TypeOK, Notices, RelayCount, Open,
       BufferedExec, Serve, SendExecResponse, Answered, Fail, Drop, authVars,
       sessionVars, historyVars
  <1>2. (Notices /\ RelayCount /\ FreshChannels)'
    BY DEF IndInv, TypeOK, Notices, RelayCount, FreshChannels, Open,
       BufferedExec, Serve, SendExecResponse, Answered, Fail, Drop, authVars,
       sessionVars, historyVars
  <1>3. (OpenIsAuthenticated /\ AuthenticatedFirst)'
    BY DEF IndInv, TypeOK, Notices, OpenIsAuthenticated,
       AuthenticatedFirst, Open, BufferedExec, Serve, SendExecResponse,
       Answered, Fail, Drop, authVars, sessionVars, historyVars
  <1>4. StdinFollowsExec'
    BY DEF IndInv, TypeOK, StdinFollowsExec, RelayCount, FreshChannels,
       Open, BufferedExec, Serve, SendExecResponse, Answered, Fail, Drop,
       authVars, sessionVars, historyVars
  <1>5. NoSlotLeak'
    BY DEF IndInv, TypeOK, NoSlotLeak, Sessions, Open, BufferedExec, Serve,
       SendExecResponse, Answered, Fail, Drop, authVars, sessionVars,
       historyVars
  <1> QED
    BY <1>1, <1>2, <1>3, <1>4, <1>5 DEF IndInv

(* An environment variable.                                                *)
LEMMA EnvRequestStep ==
    ASSUME IndInv, NEW ch \in Chans, EnvRequest(ch)
    PROVE  IndInv'
  <1>1. TypeOK'
    BY ConstantsAssumption DEF IndInv, TypeOK, Notices, RelayCount, Open,
       EnvRequest, Serve, Answered, authVars, sessionVars, historyVars
  <1>2. (Notices /\ RelayCount /\ FreshChannels)'
    BY DEF IndInv, TypeOK, Notices, RelayCount, FreshChannels, Open,
       EnvRequest, Serve, Answered, authVars, sessionVars, historyVars
  <1>3. (OpenIsAuthenticated /\ AuthenticatedFirst)'
    BY DEF IndInv, TypeOK, Notices, OpenIsAuthenticated,
       AuthenticatedFirst, Open, EnvRequest, Serve, Answered, authVars,
       sessionVars, historyVars
  <1>4. StdinFollowsExec'
    BY DEF IndInv, TypeOK, StdinFollowsExec, RelayCount, FreshChannels,
       Open, EnvRequest, Serve, Answered, authVars, sessionVars, historyVars
  <1>5. NoSlotLeak'
    BY DEF IndInv, TypeOK, NoSlotLeak, Sessions, Open, EnvRequest, Serve,
       Answered, authVars, sessionVars, historyVars
  <1> QED
    BY <1>1, <1>2, <1>3, <1>4, <1>5 DEF IndInv

(* The sftp subsystem.                                                     *)
LEMMA SftpRequestStep ==
    ASSUME IndInv, NEW ch \in Chans, SftpRequest(ch)
    PROVE  IndInv'
  <1>1. TypeOK'
    BY ConstantsAssumption DEF IndInv, TypeOK, Notices, RelayCount, Open,
       SftpRequest, Answered, authVars, sessionVars, historyVars
  <1>2. (Notices /\ RelayCount /\ FreshChannels)'
    BY DEF IndInv, TypeOK, Notices, RelayCount, FreshChannels, Open,
       SftpRequest, Answered, authVars, sessionVars, historyVars
  <1>3. (OpenIsAuthenticated /\ AuthenticatedFirst)'
    BY DEF IndInv, TypeOK, Notices, OpenIsAuthenticated,
       AuthenticatedFirst, Open, SftpRequest, Answered, authVars, sessionVars,
       historyVars
  <1>4. StdinFollowsExec'
    BY DEF IndInv, TypeOK, StdinFollowsExec, RelayCount, FreshChannels,
       Open, SftpRequest, Answered, authVars, sessionVars, historyVars
  <1>5. NoSlotLeak'
    BY DEF IndInv, TypeOK, NoSlotLeak, Sessions, Open, SftpRequest,
       Answered, authVars, sessionVars, historyVars
  <1> QED
    BY <1>1, <1>2, <1>3, <1>4, <1>5 DEF IndInv

(* A request on a channel whose callback answers.                          *)
LEMMA ServeThroughStep ==
    ASSUME IndInv, NEW ch \in Chans, NEW callback, ServeThrough(ch, callback)
    PROVE  IndInv'
  <1>1. TypeOK'
    BY ConstantsAssumption DEF IndInv, TypeOK, Notices, RelayCount, Open,
       ServeThrough, Serve, Answered, authVars, sessionVars, historyVars
  <1>2. (Notices /\ RelayCount /\ FreshChannels)'
    BY DEF IndInv, TypeOK, Notices, RelayCount, FreshChannels, Open,
       ServeThrough, Serve, Answered, authVars, sessionVars, historyVars
  <1>3. (OpenIsAuthenticated /\ AuthenticatedFirst)'
    BY DEF IndInv, TypeOK, Notices, OpenIsAuthenticated,
       AuthenticatedFirst, Open, ServeThrough, Serve, Answered, authVars,
       sessionVars, historyVars
  <1>4. StdinFollowsExec'
    BY DEF IndInv, TypeOK, StdinFollowsExec, RelayCount, FreshChannels,
       Open, ServeThrough, Serve, Answered, authVars, sessionVars, historyVars
  <1>5. NoSlotLeak'
    BY DEF IndInv, TypeOK, NoSlotLeak, Sessions, Open, ServeThrough, Serve,
       Answered, authVars, sessionVars, historyVars
  <1> QED
    BY <1>1, <1>2, <1>3, <1>4, <1>5 DEF IndInv

(* A request on a channel whose callback answers or ends the session.      *)
LEMMA ServeOrFailStep ==
    ASSUME IndInv, NEW ch \in Chans, NEW callback, ServeOrFail(ch, callback)
    PROVE  IndInv'
  <1>1. TypeOK'
    BY ConstantsAssumption DEF IndInv, TypeOK, Notices, RelayCount, Open,
       ServeOrFail, Serve, Answered, Fail, Drop, authVars, sessionVars,
       historyVars
  <1>2. (Notices /\ RelayCount /\ FreshChannels)'
    BY DEF IndInv, TypeOK, Notices, RelayCount, FreshChannels, Open,
       ServeOrFail, Serve, Answered, Fail, Drop, authVars, sessionVars,
       historyVars
  <1>3. (OpenIsAuthenticated /\ AuthenticatedFirst)'
    BY DEF IndInv, TypeOK, Notices, OpenIsAuthenticated,
       AuthenticatedFirst, Open, ServeOrFail, Serve, Answered, Fail, Drop,
       authVars, sessionVars, historyVars
  <1>4. StdinFollowsExec'
    BY DEF IndInv, TypeOK, StdinFollowsExec, RelayCount, FreshChannels,
       Open, ServeOrFail, Serve, Answered, Fail, Drop, authVars, sessionVars,
       historyVars
  <1>5. NoSlotLeak'
    BY DEF IndInv, TypeOK, NoSlotLeak, Sessions, Open, ServeOrFail, Serve,
       Answered, Fail, Drop, authVars, sessionVars, historyVars
  <1> QED
    BY <1>1, <1>2, <1>3, <1>4, <1>5 DEF IndInv

(* A callback that ends the session.                                       *)
LEMMA CallbackFailsStep ==
    ASSUME IndInv, NEW callback, CallbackFails(callback)
    PROVE  IndInv'
  <1>1. TypeOK'
    BY ConstantsAssumption DEF IndInv, TypeOK, Notices, RelayCount, Open,
       CallbackFails, Fail, Drop, authVars, sessionVars, historyVars
  <1>2. (Notices /\ RelayCount /\ FreshChannels)'
    BY DEF IndInv, TypeOK, Notices, RelayCount, FreshChannels, Open,
       CallbackFails, Fail, Drop, authVars, sessionVars, historyVars
  <1>3. (OpenIsAuthenticated /\ AuthenticatedFirst)'
    BY DEF IndInv, TypeOK, Notices, OpenIsAuthenticated,
       AuthenticatedFirst, Open, CallbackFails, Fail, Drop, authVars,
       sessionVars, historyVars
  <1>4. StdinFollowsExec'
    BY DEF IndInv, TypeOK, StdinFollowsExec, RelayCount, FreshChannels,
       Open, CallbackFails, Fail, Drop, authVars, sessionVars, historyVars
  <1>5. NoSlotLeak'
    BY DEF IndInv, TypeOK, NoSlotLeak, Sessions, Open, CallbackFails, Fail,
       Drop, authVars, sessionVars, historyVars
  <1> QED
    BY <1>1, <1>2, <1>3, <1>4, <1>5 DEF IndInv

(* A relay ends and takes the stdin sender with it, of another exec        *)
(* perhaps.                                                                *)
LEMMA RelayEndsStep ==
    ASSUME IndInv, NEW ch \in Chans, RelayEnds(ch)
    PROVE  IndInv'
  <1>1. TypeOK'
    BY ConstantsAssumption DEF IndInv, TypeOK, Notices, RelayCount, Open,
       RelayEnds, authVars, sessionVars, historyVars
  <1>2. (Notices /\ RelayCount /\ FreshChannels)'
    BY DEF IndInv, TypeOK, Notices, RelayCount, FreshChannels, Open,
       RelayEnds, authVars, sessionVars, historyVars
  <1>3. (OpenIsAuthenticated /\ AuthenticatedFirst)'
    BY DEF IndInv, TypeOK, Notices, OpenIsAuthenticated,
       AuthenticatedFirst, Open, RelayEnds, authVars, sessionVars, historyVars
  <1>4. StdinFollowsExec'
    BY DEF IndInv, TypeOK, StdinFollowsExec, RelayCount, FreshChannels,
       Open, RelayEnds, authVars, sessionVars, historyVars
  <1>5. NoSlotLeak'
    BY DEF IndInv, TypeOK, NoSlotLeak, Sessions, Open, RelayEnds, authVars,
       sessionVars, historyVars
  <1> QED
    BY <1>1, <1>2, <1>3, <1>4, <1>5 DEF IndInv

(* The connection ends.                                                    *)
LEMMA DisconnectStep ==
    ASSUME IndInv, Disconnect
    PROVE  IndInv'
  <1>1. TypeOK'
    BY ConstantsAssumption DEF IndInv, TypeOK, Notices, RelayCount, Open,
       Disconnect, Drop, authVars, sessionVars, historyVars
  <1>2. (Notices /\ RelayCount /\ FreshChannels)'
    BY DEF IndInv, TypeOK, Notices, RelayCount, FreshChannels, Open,
       Disconnect, Drop, authVars, sessionVars, historyVars
  <1>3. (OpenIsAuthenticated /\ AuthenticatedFirst)'
    BY DEF IndInv, TypeOK, Notices, OpenIsAuthenticated,
       AuthenticatedFirst, Open, Disconnect, Drop, authVars, sessionVars,
       historyVars
  <1>4. StdinFollowsExec'
    BY DEF IndInv, TypeOK, StdinFollowsExec, RelayCount, FreshChannels,
       Open, Disconnect, Drop, authVars, sessionVars, historyVars
  <1>5. NoSlotLeak'
    BY DEF IndInv, TypeOK, NoSlotLeak, Sessions, Open, Disconnect, Drop,
       authVars, sessionVars, historyVars
  <1> QED
    BY <1>1, <1>2, <1>3, <1>4, <1>5 DEF IndInv

-----------------------------------------------------------------------------
(* Every step of the handler and of the relays keeps the invariant.        *)
LEMMA NextIndInv == IndInv /\ [Next]_vars => IndInv'
  <1> SUFFICES ASSUME IndInv, [Next]_vars PROVE IndInv'
    OBVIOUS
  <1>1. CASE Authenticate
    BY <1>1, DecideStep, CallbackFailsStep
       DEF Authenticate, AuthenticationBanner, AuthPassword, AuthPublickey,
       AuthOpensshCertificate, AuthKeyboardInteractive
  <1>2. CASE GlobalRequest
    BY <1>2, CallbackFailsStep
       DEF GlobalRequest, TcpipForward, CancelTcpipForward, StreamlocalForward,
       CancelStreamlocalForward
  <1>3. CASE Disconnect
    BY <1>3, DisconnectStep
  <1>4. ASSUME NEW ch \in Chans, ChannelOpen(ch) PROVE IndInv'
    BY <1>4, ChannelOpenSessionStep, OpenThroughStep
       DEF ChannelOpen, ChannelOpenX11, ChannelOpenDirectTcpip,
       ChannelOpenForwardedTcpip, ChannelOpenDirectStreamlocal
  <1>5. ASSUME NEW ch \in Chans, ChannelRequest(ch) PROVE IndInv'
    BY <1>5, StreamingExecStep, BufferedExecStep, EnvRequestStep,
       SftpRequestStep, ServeThroughStep, ServeOrFailStep
       DEF ChannelRequest, SubsystemRequest, ShellRequest, PtyRequest,
       WindowChangeRequest, AgentRequest, X11Request
  <1>6. ASSUME NEW ch \in Chans,
               ChannelClose(ch) \/ ChannelEof(ch) \/ Data(ch) \/ RelayEnds(ch)
        PROVE  IndInv'
    BY <1>6, ChannelCloseStep, ChannelEofStep, DataStep, RelayEndsStep
  <1>7. CASE UNCHANGED vars
    <2>1. Sessions' = Sessions
      BY <1>7 DEF vars, Sessions
    <2>2. (TypeOK /\ Notices /\ RelayCount /\ FreshChannels)'
      BY <1>7 DEF IndInv, TypeOK, Notices, RelayCount, FreshChannels, vars,
         authVars, sessionVars, historyVars
    <2>3. (OpenIsAuthenticated /\ AuthenticatedFirst /\ StdinFollowsExec)'
      BY <1>7 DEF IndInv, OpenIsAuthenticated, AuthenticatedFirst,
         StdinFollowsExec, Open, vars, authVars, sessionVars, historyVars
    <2>4. NoSlotLeak'
      BY <1>7, <2>1 DEF IndInv, NoSlotLeak, vars, sessionVars
    <2> QED
      BY <2>2, <2>3, <2>4 DEF IndInv
  <1> QED
    BY <1>1, <1>2, <1>3, <1>4, <1>5, <1>6, <1>7 DEF Next

(* The inductive invariant holds throughout a connection.                  *)
LEMMA IndInvAlways == Spec => []IndInv
  <1> QED
    BY InitIndInv, NextIndInv, PTL DEF Spec

(* The handler's counters and tables keep their types; the session count   *)
(* stays within 0 .. max_sessions and on_disconnect is announced once      *)
(* (HighLevelRusshHandler).                                                *)
THEOREM TypeCorrect == Spec => []TypeOK
  <1>1. IndInv => TypeOK
    BY DEF IndInv
  <1> QED
    BY <1>1, IndInvAlways, PTL

(* However channels of all kinds are opened and closed, no session slot is *)
(* lost (channel_open_session, channel_close).                             *)
THEOREM SlotsNeverLeak == Spec => []NoSlotLeak
  <1>1. IndInv => NoSlotLeak
    BY DEF IndInv
  <1> QED
    BY <1>1, IndInvAlways, PTL

(* Whichever of the session loop and the relays moves first, a stdin       *)
(* sender is filed exactly as long as its exec can use it                  *)
(* (run_streaming_exec, channel_eof, channel_close).                       *)
THEOREM StdinSendersFollowExecs == Spec => []StdinFollowsExec
  <1>1. IndInv => StdinFollowsExec
    BY DEF IndInv
  <1> QED
    BY <1>1, IndInvAlways, PTL

(* Nothing runs, and no request callback is called, for a client that has  *)
(* not authenticated (the request methods of HighLevelRusshHandler).       *)
THEOREM NothingRunsUnauthenticated == Spec => []AuthenticatedFirst
  <1>1. IndInv => AuthenticatedFirst
    BY DEF IndInv
  <1> QED
    BY <1>1, IndInvAlways, PTL

=============================================================================
