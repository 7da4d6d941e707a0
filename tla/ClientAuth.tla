----------------------------- MODULE ClientAuth -----------------------------
(***************************************************************************)
(* Client::connect and authenticate_configured of                          *)
(* crates/russh-extra/src/client.rs: the transport is connected, then the  *)
(* configured credentials and after them the certificates are tried in     *)
(* order until the server lets the user in.                                *)
(*                                                                         *)
(* The russh handle sends a request to the server and hands the next reply *)
(* of the connection to the call that waits.  A call that times out is     *)
(* dropped, its request is not: the reply, when it comes, is taken by the  *)
(* call of a later credential.                                             *)
(***************************************************************************)
EXTENDS Naturals, Sequences

CONSTANTS
    CredentialLists,  \* configurations; <<>> also stands for no username
    MaxAgentKeys,     \* how many identities an agent lists
    MaxPrompts        \* rounds of questions of a keyboard-interactive server

Plain == {"password", "none"}
Keys == {"key", "badkey"}          \* Identity::KeyFile, Identity::PrivateKey
Certificates == {"cert", "badcert"} \* CertificateCredential
Kinds == Plain \cup Keys \cup Certificates \cup {"agent", "kbd"}

ASSUME AuthAssumption ==
    /\ \A l \in CredentialLists : l \in Seq(Kinds)
    /\ MaxAgentKeys \in Nat \ {0} /\ MaxPrompts \in Nat

(* The errors of russh that the code tells apart, and the error types they *)
(* are turned into.                                                        *)
RusshErrors ==
    {"UnknownKey", "KeyChanged", "WrongServerSig", "ConnectionTimeout",
     "Disconnect", "IO", "Kex", "NoAuthMethod", "UnsupportedAuthMethod",
     "Other"}

MapConnectError == [e \in RusshErrors |->
    CASE e = "UnknownKey" -> "HostKeyUnknown"
      [] e = "KeyChanged" -> "HostKeyChanged"
      [] e = "WrongServerSig" -> "HostKeyRejected"
      [] e = "ConnectionTimeout" -> "Timeout"
      [] e = "Disconnect" -> "Disconnected"
      [] e = "IO" -> "TcpConnect"
      [] e = "Kex" -> "Negotiation"
      [] OTHER -> "Ssh"]

MapAuthError == [e \in RusshErrors |->
    CASE e = "NoAuthMethod" -> "Unavailable"
      [] e = "UnsupportedAuthMethod" -> "UnsupportedMethod"
      [] e = "ConnectionTimeout" -> "Timeout"
      [] e = "Disconnect" -> "Disconnected"
      [] e = "IO" -> "Transport"
      [] OTHER -> "Rejected"]

ConnectErrors == {"UnknownKey", "KeyChanged", "WrongServerSig",
                  "ConnectionTimeout", "Disconnect", "IO", "Kex", "Other"}
AuthErrors == {"ConnectionTimeout", "Disconnect", "IO", "NoAuthMethod",
               "UnsupportedAuthMethod", "Other"}

VARIABLES
    creds,     \* config.credentials() followed by cert_credentials
    apc,       \* where connect is
    cred,      \* the credential being tried
    agent,     \* identities of the agent not tried yet
    saw,       \* saw_partial
    outcome,   \* what connect returned
    asked,     \* requests the server has not answered: the credentials' indices
    replies,   \* answers the handle has not given to a call
    granted,   \* has the server let the user in?
    prompts,   \* questions the server asked
    answered,  \* history: the answers each credential got from the server
    late       \* history: has a request been given up, or failed?

authVars == <<creds, apc, cred, agent, saw, outcome, asked, replies,
              granted, prompts, answered, late>>

AuthInit ==
    /\ creds \in CredentialLists
    /\ apc = "idle" /\ cred = 1 /\ agent = 0
    /\ saw = FALSE
    /\ outcome = "none"
    /\ asked = <<>> /\ replies = <<>>
    /\ granted = FALSE /\ prompts = 0
    /\ answered = [i \in DOMAIN creds |-> {}]
    /\ late = FALSE

Kind == creds[cred]

(* connect returns; its locals are gone.                                   *)
Return(result) ==
    /\ apc' = "done" /\ outcome' = result
    /\ cred' = 1 /\ agent' = 0 /\ saw' = FALSE

(* The next credential.                                                    *)
Skip(partial) ==
    /\ apc' = "try" /\ cred' = cred + 1 /\ agent' = 0
    /\ saw' = (saw \/ partial)
    /\ UNCHANGED outcome

-----------------------------------------------------------------------------
(* authenticate_configured needs a username and a credential.              *)
NothingToTry == creds = <<>>

(* client::connect under the connect timeout, and these checks.            *)
Connect ==
    /\ apc = "idle"
    /\ \/ \E e \in ConnectErrors : Return(MapConnectError[e])
       \/ NothingToTry /\ Return("Unavailable")
       \/ ~NothingToTry /\ apc' = "try" /\ UNCHANGED <<cred, agent, saw, outcome>>
    /\ UNCHANGED <<creds, asked, replies, granted, prompts, answered, late>>

(* The request for a credential is sent, and connect waits for the reply;  *)
(* identities is the number of keys the credential has.                    *)
Request(identities) ==
    /\ apc' = "wait"
    /\ asked' = Append(asked, cred)
    /\ agent' = identities - 1
    /\ UNCHANGED <<cred, saw, outcome>>

(* The next credential.  A private key that cannot be loaded or decrypted, *)
(* and an agent whose socket nobody names, end connect.  The agent that is *)
(* named is connected and asked for its identities first.                  *)
Try ==
    /\ apc = "try" /\ cred <= Len(creds)
    /\ \/ /\ Kind \in {"badkey", "badcert", "agent"}
          /\ Return("Unavailable")
          /\ UNCHANGED asked
       \/ /\ Kind = "agent"
          /\ apc' = "agent"
          /\ UNCHANGED <<cred, agent, saw, outcome, asked>>
       \/ Kind \notin {"badkey", "badcert", "agent"} /\ Request(1)
    /\ UNCHANGED <<creds, replies, granted, prompts, answered, late>>

(* The agent is another process: it lists its identities, of which the     *)
(* first is tried, or refuses, or lists none.  It may also do neither: the *)
(* code waits for it without a timeout.                                    *)
AgentAnswers ==
    /\ apc = "agent"
    /\ \/ Return("Unavailable") /\ UNCHANGED asked
       \/ \E n \in 1 .. MaxAgentKeys : Request(n)
    /\ UNCHANGED <<creds, replies, granted, prompts, answered, late>>

(* Mutant: a key that the server rejects ends the loop as a success.       *)
Bug_RejectedIsOk(reply) ==
    IF reply = "success" \/ Kind = "key" THEN Return("ok") ELSE Skip(reply = "partial")

(* The answer to any request but those of an agent or of a dialogue.       *)
TakeAuthResult(reply) ==
    IF reply = "success" THEN Return("ok") ELSE Skip(reply = "partial")

(* try_agent_auth: identities are tried until one is accepted; only the    *)
(* last failure is returned.                                               *)
TakeAgentResult(reply) ==
    IF reply = "success" THEN Return("ok")
    ELSE IF agent = 0 THEN Skip(reply = "partial")
    ELSE /\ agent' = agent - 1
         /\ UNCHANGED <<apc, cred, saw, outcome>>

(* run_keyboard_interactive: a question is answered or the user gives up;  *)
(* a failure is a rejection, its partial success is not looked at.         *)
TakeDialogue(reply) ==
    IF reply = "success" THEN Return("ok")
    ELSE IF reply = "info"
    THEN UNCHANGED <<apc, cred, agent, saw, outcome>> \/ Skip(FALSE)
    ELSE Skip(FALSE)

Receive ==
    /\ apc = "wait" /\ replies # <<>>
    /\ LET reply == Head(replies) IN
       /\ \/ Kind \notin {"agent", "kbd"} /\ TakeAuthResult(reply)
          \/ Kind = "agent" /\ TakeAgentResult(reply)
          \/ Kind = "kbd" /\ TakeDialogue(reply)
       /\ replies' = Tail(replies)
       /\ asked' = IF \/ Kind = "agent" /\ agent > 0 /\ reply # "success"
                      \/ Kind = "kbd" /\ reply = "info" /\ apc' = "wait"
                   THEN Append(asked, cred) ELSE asked
    /\ UNCHANGED <<creds, granted, prompts, answered, late>>

(* The call fails in russh.  A rejection or a timeout of an identity or of *)
(* a dialogue moves on, any other error ends connect; an error of the      *)
(* agent's signer is Unavailable.                                          *)
CallFails(e) ==
    /\ apc = "wait" /\ replies = <<>>
    /\ LET error == IF Kind = "agent" THEN "Unavailable" ELSE MapAuthError[e] IN
       IF Kind \in {"key", "agent", "kbd"} /\ error \in {"Rejected", "Timeout"}
       THEN Skip(FALSE) ELSE Return(error)
    /\ late' = TRUE
    /\ UNCHANGED <<creds, asked, replies, granted, prompts, answered>>

(* Mutant: the wait for a reply has no timeout.                            *)
Bug_NoTimeOut ==
    /\ apc = "wait" /\ replies = <<>> /\ Kind \in {"key", "agent"}
    /\ Skip(FALSE)
    /\ late' = TRUE
    /\ UNCHANGED <<creds, asked, replies, granted, prompts, answered>>

(* Timeouts::auth elapses: the next credential after an identity, the end  *)
(* of connect after any other.                                             *)
AuthTimeOut ==
    /\ apc = "wait" /\ replies = <<>>
    /\ IF Kind \in {"key", "agent"} THEN Skip(FALSE) ELSE Return("Timeout")
    /\ late' = TRUE
    /\ UNCHANGED <<creds, asked, replies, granted, prompts, answered>>

(* The Session is built around the handle; what served connect is gone.    *)
NewSession ==
    /\ apc = "done" /\ outcome = "ok"
    /\ apc' = "session"
    /\ creds' = <<>> /\ answered' = <<>>
    /\ asked' = <<>> /\ replies' = <<>> /\ prompts' = 0 /\ late' = FALSE
    /\ UNCHANGED <<cred, agent, saw, outcome, granted>>

(* No credential is left.                                                  *)
Exhaust ==
    /\ apc = "try" /\ cred > Len(creds)
    /\ Return(IF saw THEN "Partial" ELSE "Exhausted")
    /\ UNCHANGED <<creds, asked, replies, granted, prompts, answered, late>>

-----------------------------------------------------------------------------
(* The server answers requests in order.  Once the user is let in it       *)
(* answers no further request.                                             *)
ServerAnswers ==
    /\ asked # <<>> /\ apc \in {"try", "agent", "wait"}
    /\ LET c == Head(asked) IN
       \/ /\ granted
          /\ UNCHANGED <<replies, granted, prompts, answered>>
       \/ /\ ~granted
          /\ \E reply \in {"success", "failure", "partial"} :
                /\ replies' = Append(replies, reply)
                /\ granted' = (reply = "success")
                /\ answered' = [answered EXCEPT ![c] = @ \cup {reply}]
          /\ UNCHANGED prompts
       \/ /\ ~granted /\ creds[c] = "kbd" /\ prompts < MaxPrompts
          /\ replies' = Append(replies, "info")
          /\ prompts' = prompts + 1
          /\ UNCHANGED <<granted, answered>>
    /\ asked' = Tail(asked)
    /\ UNCHANGED <<creds, apc, cred, agent, saw, outcome, late>>

AuthStep ==
    Connect \/ Try \/ Receive \/ AuthTimeOut \/ Exhaust \/ NewSession

AuthNext ==
    AuthStep \/ AgentAnswers \/ ServerAnswers \/ \E e \in AuthErrors : CallFails(e)

-----------------------------------------------------------------------------
Outcomes ==
    {"none", "ok", "Partial", "Exhausted"}
    \cup {MapConnectError[e] : e \in ConnectErrors}
    \cup {MapAuthError[e] : e \in AuthErrors}

AuthTypeOK ==
    /\ creds \in CredentialLists \cup {<<>>}
    /\ apc \in {"idle", "try", "agent", "wait", "done", "session"}
    /\ cred \in 1 .. Len(creds) + 1
    /\ agent \in 0 .. MaxAgentKeys - 1
    /\ saw \in BOOLEAN
    /\ outcome \in Outcomes
    /\ asked \in Seq(DOMAIN creds)
    /\ replies \in Seq({"success", "failure", "partial", "info"})
    /\ granted \in BOOLEAN
    /\ prompts \in 0 .. MaxPrompts
    /\ answered \in [DOMAIN creds -> SUBSET {"success", "failure", "partial"}]
    /\ late \in BOOLEAN

(* What connect reports of the server's answers is true.  A session is     *)
(* given out only when the server has let the user in.  Unless a request   *)
(* was given up, "all configured credentials were rejected" and "partially *)
(* succeeded" mean that the server refused every credential, and a partial *)
(* success answered to a password, a key or a certificate is not forgotten *)
(* by the credentials tried after it.                                      *)
VerdictIsTrue ==
    /\ outcome = "ok" => granted
    /\ outcome = "Partial" => \E i \in DOMAIN creds : "partial" \in answered[i]
    /\ outcome \in {"Exhausted", "Partial"} /\ ~late =>
          /\ ~granted
          /\ \A i \in DOMAIN creds :
                creds[i] = "kbd" \/ answered[i] \cap {"failure", "partial"} # {}
    /\ outcome = "Exhausted" /\ ~late =>
          \A i \in DOMAIN creds :
              "partial" \in answered[i] => creds[i] \in {"kbd", "agent"}

=============================================================================
