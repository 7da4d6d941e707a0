--------------------------- MODULE ServerSession ----------------------------
(***************************************************************************)
(* One connection to the server: the HighLevelRusshHandler of              *)
(* crates/russh-extra/src/server.rs and the SftpServerRuntime it owns.     *)
(*                                                                         *)
(* russh calls the handler's methods one at a time and awaits each, user   *)
(* callbacks included, so each method is one step.  The relay tasks of     *)
(* streaming execs run beside it and share stdin_txs.  A callback may      *)
(* accept, refuse or fail; which callbacks the server was built with is    *)
(* the constant Configured.                                                *)
(*                                                                         *)
(* The client is free to ask anything at any time, before authentication   *)
(* and on any kind of channel.  Channel ids are not used twice.            *)
(***************************************************************************)
EXTENDS Naturals, FiniteSets

CONSTANTS
    Chans,         \* channel ids
    MaxSessions,   \* ServerConfig::max_sessions
    Configured,    \* the callbacks that are Some(..)
    MaxExecs       \* bound on the streaming execs of one channel

AuthCallbacks == {"password_auth", "public_key_auth", "cert_auth",
                  "keyboard_interactive_auth"}
OpenCallbacks == {"x11_channel", "direct_tcpip", "forwarded_tcpip",
                  "direct_streamlocal"}
RequestCallbacks == {"agent_request", "x11_request", "tcpip_forward",
                     "cancel_tcpip_forward", "streamlocal_forward",
                     "cancel_streamlocal_forward", "auth_banner"}
ServeCallbacks == {"exec", "streaming", "env", "sftp", "shell", "pty",
                   "subsystem", "window_change"}
Callbacks == AuthCallbacks \cup OpenCallbacks \cup RequestCallbacks
             \cup ServeCallbacks

ASSUME ConstantsAssumption ==
    /\ IsFiniteSet(Chans)
    /\ MaxSessions \in Nat
    /\ Configured \subseteq Callbacks
    /\ MaxExecs \in Nat

VARIABLES
    conn,          \* up, or ended (russh dropped the handler)
    username,      \* Option<Username>
    chan,          \* what each channel is: unused, refused, session, forward, closed
    open_sessions,
    stdin_txs,     \* the channels with a filed stdin sender
    env_vars,      \* the channels with accepted environment variables
    sftp,          \* the channels of the current SftpServerRuntime
    relays,        \* how many relays of streaming execs each channel has
    execs,         \* history: streaming execs started on each channel
    ended,         \* history: open channels whose client sent EOF
    served,        \* history: open channels a request callback was called for
    welcomed,      \* history: on_auth_success tasks spawned
    closing,       \* channels the server asked russh to close
    last_error,    \* ServerRuntime::last_error
    notified       \* history: on_disconnect tasks spawned

authVars == <<username, welcomed>>
sessionVars == <<open_sessions, stdin_txs, env_vars, sftp, relays>>
historyVars == <<execs, ended, served>>
vars == <<conn, authVars, chan, sessionVars, historyVars, closing, last_error,
          notified>>

Open(ch) == chan[ch] \in {"session", "forward"}

Init ==
    /\ conn = "up" /\ username = "none"
    /\ chan = [ch \in Chans |-> "unused"]
    /\ open_sessions = 0
    /\ stdin_txs = {} /\ env_vars = {} /\ sftp = {}
    /\ relays = [ch \in Chans |-> 0]
    /\ execs = [ch \in Chans |-> 0]
    /\ ended = {} /\ served = {}
    /\ closing = {}
    /\ last_error = "None"
    /\ welcomed = 0
    /\ notified = 0

(* russh drops the handler when the session task ends; Drop spawns         *)
(* on_disconnect.                                                          *)
Drop == conn' = "ended" /\ notified' = notified + 1

(* A callback returned an error: the `?` ends the session, and             *)
(* handle_session_error keeps the first error of the server.               *)
Fail ==
    /\ Drop
    /\ last_error' = IF last_error = "None" THEN "HighLevel" ELSE last_error

(* A callback answered, one way or the other.                              *)
Answered == UNCHANGED <<conn, notified, last_error>>

-----------------------------------------------------------------------------
(* Authentication.  auth_none always rejects, auth_publickey_offered       *)
(* always asks for the signature; russh stops asking once a method was     *)
(* accepted.  A rejection, and a further keyboard-interactive prompt,      *)
(* change nothing.                                                         *)

FireAuthSuccess == welcomed' = welcomed + 1

Decide(callback) ==
    /\ conn = "up" /\ username = "none"
    /\ callback \in Configured
    /\ \/ username' = "user" /\ FireAuthSuccess /\ Answered
       \/ Fail /\ UNCHANGED authVars
    /\ UNCHANGED <<chan, sessionVars, historyVars, closing>>

AuthPassword == Decide("password_auth")
AuthPublickey == Decide("public_key_auth")
AuthOpensshCertificate == Decide("cert_auth")
AuthKeyboardInteractive == Decide("keyboard_interactive_auth")

-----------------------------------------------------------------------------
(* Channels.                                                               *)

(* Mutant: the handler relies on russh to refuse the unauthenticated.      *)
Bug_OpenToAll(ch) ==
    /\ conn = "up" /\ chan[ch] = "unused"
    /\ IF open_sessions >= MaxSessions
       THEN /\ chan' = [chan EXCEPT ![ch] = "refused"]
            /\ UNCHANGED open_sessions
       ELSE /\ chan' = [chan EXCEPT ![ch] = "session"]
            /\ open_sessions' = open_sessions + 1
    /\ Answered
    /\ UNCHANGED <<authVars, stdin_txs, env_vars, sftp, relays, historyVars, closing>>

ChannelOpenSession(ch) ==
    /\ conn = "up" /\ chan[ch] = "unused"
    /\ IF username = "none" \/ open_sessions >= MaxSessions
       THEN /\ chan' = [chan EXCEPT ![ch] = "refused"]
            /\ UNCHANGED open_sessions
       ELSE /\ chan' = [chan EXCEPT ![ch] = "session"]
            /\ open_sessions' = open_sessions + 1
    /\ Answered
    /\ UNCHANGED <<authVars, stdin_txs, env_vars, sftp, relays, historyVars, closing>>

(* The other kinds of channel have the same three answers, and none of     *)
(* them counts a session.                                                  *)
OpenThrough(ch, callback) ==
    /\ conn = "up" /\ chan[ch] = "unused"
    /\ \/ /\ callback \in Configured /\ username # "none"
          /\ chan' = [chan EXCEPT ![ch] = "forward"]
          /\ Answered /\ UNCHANGED closing
       \/ /\ chan' = [chan EXCEPT ![ch] = "refused"]
          /\ closing' = closing \cup {ch}
          /\ Answered
       \/ /\ callback \in Configured /\ username # "none"
          /\ chan' = [chan EXCEPT ![ch] = "refused"]
          /\ closing' = closing \cup {ch}
          /\ Fail
    /\ UNCHANGED <<authVars, sessionVars, historyVars>>

ChannelOpenX11(ch) == OpenThrough(ch, "x11_channel")
ChannelOpenDirectTcpip(ch) == OpenThrough(ch, "direct_tcpip")
ChannelOpenForwardedTcpip(ch) == OpenThrough(ch, "forwarded_tcpip")
ChannelOpenDirectStreamlocal(ch) == OpenThrough(ch, "direct_streamlocal")

(* What is recorded of open channels ends with the channel.                *)
Forget(ch) ==
    /\ ended' = ended \ {ch}
    /\ served' = served \ {ch}
    /\ closing' = closing \ {ch}

(* Mutant: a plain subtraction.                                            *)
Bug_NotSaturating(ch) ==
    /\ conn = "up" /\ Open(ch)
    /\ chan' = [chan EXCEPT ![ch] = "closed"]
    /\ open_sessions' = open_sessions - 1
    /\ stdin_txs' = stdin_txs \ {ch}
    /\ env_vars' = env_vars \ {ch}
    /\ sftp' = sftp \ {ch}
    /\ Forget(ch)
    /\ Answered
    /\ UNCHANGED <<authVars, relays, execs>>

(* Mutant: only a channel with a stdin sender gives its slot back.         *)
Bug_SlotOfExecOnly(ch) ==
    /\ conn = "up" /\ Open(ch)
    /\ chan' = [chan EXCEPT ![ch] = "closed"]
    /\ open_sessions' = IF ch \in stdin_txs /\ open_sessions > 0
                        THEN open_sessions - 1 ELSE open_sessions
    /\ stdin_txs' = stdin_txs \ {ch}
    /\ env_vars' = env_vars \ {ch}
    /\ sftp' = sftp \ {ch}
    /\ Forget(ch)
    /\ Answered
    /\ UNCHANGED <<authVars, relays, execs>>

(* The client's CHANNEL_CLOSE, its answer to ours included.                *)
ChannelClose(ch) ==
    /\ conn = "up" /\ Open(ch)
    /\ chan' = [chan EXCEPT ![ch] = "closed"]
    /\ open_sessions' = IF open_sessions = 0 THEN 0 ELSE open_sessions - 1
    /\ stdin_txs' = stdin_txs \ {ch}
    /\ env_vars' = env_vars \ {ch}
    /\ sftp' = sftp \ {ch}
    /\ Forget(ch)
    /\ Answered
    /\ UNCHANGED <<authVars, relays, execs>>

ChannelEof(ch) ==
    /\ conn = "up" /\ Open(ch) /\ ch \notin ended
    /\ ended' = ended \cup {ch}
    /\ stdin_txs' = stdin_txs \ {ch}
    /\ Answered
    /\ UNCHANGED <<authVars, chan, open_sessions, env_vars, sftp, relays,
                   execs, served, closing>>

(* Data for a channel of the current SFTP runtime is reassembled and       *)
(* dispatched; a length of 0 or above the limit takes the channel out of   *)
(* the runtime, and a response that cannot be written ends the session.    *)
(* Other data goes to the stdin sender or nowhere, which changes nothing   *)
(* here.                                                                   *)
Data(ch) ==
    /\ conn = "up" /\ Open(ch) /\ ch \in sftp
    /\ \/ sftp' = sftp \ {ch} /\ Answered
       \/ Fail /\ UNCHANGED sftp
    /\ UNCHANGED <<authVars, chan, open_sessions, stdin_txs, env_vars, relays,
                   historyVars, closing>>

-----------------------------------------------------------------------------
(* Requests on an open channel.  The handler does not ask what the channel *)
(* is for, or whether something runs on it already.                        *)

(* A callback of the server is called for a request on this channel.       *)
Serve(ch) == served' = served \cup {ch}

(* exec_request for a command with a streaming route, which goes first:    *)
(* run_streaming_exec.                                                     *)
StreamingExec(ch) ==
    /\ conn = "up" /\ Open(ch) /\ "streaming" \in Configured
    /\ execs[ch] < MaxExecs
    /\ IF username = "none"
       THEN Fail /\ UNCHANGED <<relays, execs, stdin_txs, served>>
       ELSE /\ relays' = [relays EXCEPT ![ch] = @ + 1]
            /\ execs' = [execs EXCEPT ![ch] = @ + 1]
            /\ stdin_txs' = stdin_txs \cup {ch}
            /\ Serve(ch)
            /\ Answered
    /\ UNCHANGED <<authVars, chan, open_sessions, env_vars, sftp, ended,
                   closing>>

(* send_exec_response: the output and the exit, with EOF and Close behind. *)
SendExecResponse(ch) == closing' = closing \cup {ch}

(* exec_request for a command without a streaming route: a refusal leaves  *)
(* the channel open.                                                       *)
BufferedExec(ch) ==
    /\ conn = "up" /\ Open(ch)
    /\ IF username = "none"
       THEN Fail /\ UNCHANGED <<closing, served>>
       ELSE \/ Answered /\ UNCHANGED <<closing, served>>
            \/ /\ "exec" \in Configured /\ Serve(ch)
               /\ \/ Answered /\ UNCHANGED closing
                  \/ SendExecResponse(ch) /\ Answered
                  \/ Fail /\ UNCHANGED closing
    /\ UNCHANGED <<authVars, chan, sessionVars, execs, ended>>

(* env_request: recorded unless the callback refuses.                      *)
EnvRequest(ch) ==
    /\ conn = "up" /\ Open(ch)
    /\ IF "env" \in Configured
       THEN Serve(ch) /\ env_vars' \in {env_vars, env_vars \cup {ch}}
       ELSE env_vars' = env_vars \cup {ch} /\ UNCHANGED served
    /\ Answered
    /\ UNCHANGED <<authVars, chan, open_sessions, stdin_txs, sftp, relays,
                   execs, ended, closing>>

(* subsystem_request for "sftp": a new runtime that knows this channel     *)
(* only takes the place of the old one.                                    *)
SftpRequest(ch) ==
    /\ conn = "up" /\ Open(ch) /\ "sftp" \in Configured
    /\ sftp' = {ch}
    /\ Answered
    /\ UNCHANGED <<authVars, chan, open_sessions, stdin_txs, env_vars, relays,
                   historyVars, closing>>

(* Requests whose answer, a success or a failure, changes nothing here;    *)
(* an error of these callbacks is a refusal.  There is no look at the      *)
(* username.                                                               *)
ServeThrough(ch, callback) ==
    /\ conn = "up" /\ Open(ch) /\ callback \in Configured
    /\ Serve(ch)
    /\ Answered
    /\ UNCHANGED <<authVars, chan, sessionVars, execs, ended, closing>>

ShellRequest(ch) == ServeThrough(ch, "shell")
PtyRequest(ch) == ServeThrough(ch, "pty")
WindowChangeRequest(ch) == ServeThrough(ch, "window_change")

(* subsystem_request for any other name, or without an SFTP handler.       *)
SubsystemRequest(ch) == ServeThrough(ch, "subsystem")

(* The same, but the callback's error ends the session.                    *)
ServeOrFail(ch, callback) ==
    /\ conn = "up" /\ Open(ch) /\ callback \in Configured
    /\ Serve(ch)
    /\ Answered \/ Fail
    /\ UNCHANGED <<authVars, chan, sessionVars, execs, ended, closing>>

AgentRequest(ch) == ServeOrFail(ch, "agent_request")
X11Request(ch) == username # "none" /\ ServeOrFail(ch, "x11_request")

(* Requests that belong to no channel: an answer changes nothing, an error *)
(* of the callback ends the session.                                       *)
CallbackFails(callback) ==
    /\ conn = "up" /\ callback \in Configured
    /\ Fail
    /\ UNCHANGED <<authVars, chan, sessionVars, historyVars, closing>>

AuthenticationBanner == username = "none" /\ CallbackFails("auth_banner")
TcpipForward == username # "none" /\ CallbackFails("tcpip_forward")
CancelTcpipForward == username # "none" /\ CallbackFails("cancel_tcpip_forward")
StreamlocalForward == username # "none" /\ CallbackFails("streamlocal_forward")
CancelStreamlocalForward ==
    username # "none" /\ CallbackFails("cancel_streamlocal_forward")

-----------------------------------------------------------------------------

(* Mutant: the relay leaves the sender behind.                             *)
Bug_RelayKeepsSender(ch) ==
    /\ relays[ch] > 0
    /\ relays' = [relays EXCEPT ![ch] = @ - 1]
    /\ closing' = IF Open(ch) THEN closing \cup {ch} ELSE closing
    /\ UNCHANGED <<conn, authVars, chan, open_sessions, stdin_txs, env_vars, sftp,
                   historyVars, last_error, notified>>

(* The relay of a streaming exec is done: the sender is removed and the    *)
(* channel closed.  It outlives the connection.                            *)
RelayEnds(ch) ==
    /\ relays[ch] > 0
    /\ relays' = [relays EXCEPT ![ch] = @ - 1]
    /\ stdin_txs' = stdin_txs \ {ch}
    /\ closing' = IF Open(ch) THEN closing \cup {ch} ELSE closing
    /\ UNCHANGED <<conn, authVars, chan, open_sessions, env_vars, sftp,
                   historyVars, last_error, notified>>

(* The client disconnects (not an error), or the transport fails.          *)
Disconnect ==
    /\ conn = "up"
    /\ Drop
    /\ \/ UNCHANGED last_error
       \/ last_error' = IF last_error = "None" THEN "Russh" ELSE last_error
    /\ UNCHANGED <<authVars, chan, sessionVars, historyVars, closing>>

Authenticate ==
    \/ AuthenticationBanner \/ AuthPassword \/ AuthPublickey
    \/ AuthOpensshCertificate \/ AuthKeyboardInteractive

GlobalRequest ==
    \/ TcpipForward \/ CancelTcpipForward
    \/ StreamlocalForward \/ CancelStreamlocalForward

ChannelOpen(ch) ==
    \/ ChannelOpenSession(ch) \/ ChannelOpenX11(ch) \/ ChannelOpenDirectTcpip(ch)
    \/ ChannelOpenForwardedTcpip(ch) \/ ChannelOpenDirectStreamlocal(ch)

ChannelRequest(ch) ==
    \/ StreamingExec(ch) \/ BufferedExec(ch) \/ EnvRequest(ch)
    \/ SftpRequest(ch) \/ SubsystemRequest(ch) \/ ShellRequest(ch)
    \/ PtyRequest(ch) \/ WindowChangeRequest(ch)
    \/ AgentRequest(ch) \/ X11Request(ch)

Next ==
    \/ Authenticate \/ GlobalRequest \/ Disconnect
    \/ \E ch \in Chans :
          \/ ChannelOpen(ch) \/ ChannelRequest(ch)
          \/ ChannelClose(ch) \/ ChannelEof(ch) \/ Data(ch)
          \/ RelayEnds(ch)

Spec == Init /\ [][Next]_vars

-----------------------------------------------------------------------------
(* Properties.                                                             *)

TypeOK ==
    /\ conn \in {"up", "ended"}
    /\ username \in {"none", "user"}
    /\ chan \in [Chans -> {"unused", "refused", "session", "forward", "closed"}]
    /\ open_sessions \in 0 .. MaxSessions
    /\ stdin_txs \subseteq Chans /\ env_vars \subseteq Chans /\ sftp \subseteq Chans
    /\ relays \in [Chans -> 0 .. MaxExecs] /\ execs \in [Chans -> 0 .. MaxExecs]
    /\ ended \subseteq Chans /\ served \subseteq Chans
    /\ closing \subseteq Chans
    /\ last_error \in {"None", "HighLevel", "Russh"}
    /\ notified \in 0 .. 1 /\ welcomed \in 0 .. 1

Sessions == {ch \in Chans : chan[ch] = "session"}

(* No slot is ever lost: the handler never counts more sessions than are   *)
(* really open, so a client that closes its channels can open new ones.    *)
NoSlotLeak == open_sessions <= Cardinality(Sessions)

(* A stdin sender is filed only for a streaming exec that is still running *)
(* on an open channel, and on a channel used for one exec it is there as   *)
(* long as the client may send input, whichever of the session loop and    *)
(* the relay moves first.                                                  *)
StdinFollowsExec ==
    \A ch \in Chans :
       LET live == relays[ch] > 0 /\ Open(ch)
       IN /\ ch \in stdin_txs => live
          /\ (live /\ execs[ch] = 1 /\ ch \notin ended) => ch \in stdin_txs

(* Nothing runs for a client that has not authenticated, and no callback   *)
(* for a channel request is called, whatever the client asks for and in    *)
(* whatever order: most of the request handlers do not look at the         *)
(* username and rely on there being no open channel without one.           *)
AuthenticatedFirst ==
    \A ch \in Chans :
       (execs[ch] > 0 \/ ch \in served \cup sftp \cup env_vars \cup stdin_txs)
       => welcomed = 1 /\ username # "none"

=============================================================================
