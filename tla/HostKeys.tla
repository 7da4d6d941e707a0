------------------------------ MODULE HostKeys ------------------------------
(***************************************************************************)
(* The known-hosts store of crates/russh-extra/src/known_hosts.rs and the  *)
(* check_server_key callback of client.rs that consults it.                *)
(*                                                                         *)
(* Clones of one KnownHosts share the entries behind an RwLock.  A         *)
(* connection checks the server's key under the read lock and, if it       *)
(* trusts on first use, adds it under the write lock, which is a second    *)
(* step.  save() holds the read lock while it writes the file, so nothing  *)
(* is added meanwhile, but the file is truncated before it is written.     *)
(*                                                                         *)
(* Host names are compared without case, so a host stands for all its      *)
(* spellings.  The order of the entries and their duplicates make no       *)
(* difference to any operation: the Vec is a set here.  Lines that load    *)
(* skips with a warning are no entries.                                    *)
(***************************************************************************)
EXTENDS Naturals, FiniteSets

CONSTANTS
    Conns,       \* connection attempts of clients that share the store
    EndpointOf,  \* the endpoint each attempt connects to
    AcceptNew,   \* the attempts made with known_hosts_accept_new
    Hosts,
    Ports,       \* ports of endpoints
    HostKeySet,  \* server public keys
    NoKey,
    Files,       \* what the known-hosts file may hold at first
    Merged,      \* stores the program may merge() into this one later
    Replaced,    \* endpoints the program itself may call add_entry for
    MaxRuns      \* bound on the runs of the program

Endpoints == [host : Hosts, port : Ports]

(* Port 0 is a line without a port marker.                                 *)
Entries == [host : Hosts, port : Ports \cup {0}, key : HostKeySet, revoked : BOOLEAN]

ASSUME ConstantsAssumption ==
    /\ EndpointOf \in [Conns -> Endpoints]
    /\ AcceptNew \subseteq Conns
    /\ Ports \subseteq Nat \ {0}
    /\ Files \subseteq SUBSET Entries
    /\ Merged \subseteq SUBSET Entries
    /\ Replaced \subseteq Endpoints
    /\ NoKey \notin HostKeySet
    /\ MaxRuns \in Nat \ {0}

VARIABLES
    entries,  \* KnownHostsInner::entries
    file,     \* the entries in the known-hosts file
    attempt,  \* check_server_key of each attempt: idle, adding, accepted, rejected
    key,      \* the key it is about to add
    saving,   \* is save() between its truncate and its write?
    runs,     \* the runs of the program so far
    trusted,  \* history: <<endpoint, key>> accepted and not taken back
    revoked,  \* history: endpoints revoked and not taken back
    saved,    \* history: trusted and revoked at the last completed save
    stale,    \* history: was a key added for an endpoint known by then?
    wide      \* history: hosts whose other ports an entry for port 22 hit

attemptVars == <<attempt, key>>
historyVars == <<trusted, revoked, saved, stale, wide>>
trustVars == <<entries, file, attemptVars, saving, runs, historyVars>>

-----------------------------------------------------------------------------
(* The store's operators.                                                  *)

(* Does an entry speak about this endpoint?                                *)
Matches(e, ep) == e.host = ep.host /\ e.port \in {0, ep.port}

(* A revocation counts before a key that matches.                          *)
Check(store, ep, k) ==
    LET found == {e \in store : Matches(e, ep)}
    IN IF \E e \in found : e.revoked THEN "Revoked"
       ELSE IF \E e \in found : e.key = k THEN "Match"
       ELSE IF found # {} THEN "Changed"
       ELSE "NotFound"

(* Mutant: the entries of the host make room, whatever their port.         *)
Bug_Host(store, ep, k) ==
    {e \in store : e.host # ep.host}
    \cup {[host |-> ep.host, port |-> ep.port, key |-> k, revoked |-> FALSE]}

(* add_entry: what the new entry replaces, then the new entry.  Port 22    *)
(* replaces every entry of the host.                                       *)
Added(store, ep, k) ==
    {e \in store : ~(/\ e.host = ep.host
                     /\ e.port \in {0, ep.port} \/ ep.port = 22)}
    \cup {[host |-> ep.host, port |-> ep.port, key |-> k, revoked |-> FALSE]}

(* Mutant: the @revoked marker is not written.                             *)
Bug_LoseMarker(store) ==
    {[e EXCEPT !.port = IF e.port = 22 THEN 0 ELSE e.port, !.revoked = FALSE]
        : e \in store}

(* What save() writes, as load() will read it: port 22 has no marker.      *)
Rendered(store) ==
    {[e EXCEPT !.port = IF e.port = 22 THEN 0 ELSE e.port] : e \in store}

(* Port 22 for every port: the hosts of which an add for ep removes what   *)
(* is known about another port, and those of which save() writes a         *)
(* revocation of port 22 as one of every port.                             *)
AddWidens(store, ep) ==
    {e.host : e \in {x \in store : ep.port = 22 /\ x.host = ep.host /\ x.port \notin {0, 22}}}
SaveWidens(store) == {e.host : e \in {x \in store : x.port = 22 /\ x.revoked}}

RevokedIn(store) == {ep \in Endpoints : \E e \in store : Matches(e, ep) /\ e.revoked}

TrustInit ==
    /\ file \in Files
    /\ entries = file
    /\ attempt = [c \in Conns |-> "idle"]
    /\ key = [c \in Conns |-> NoKey]
    /\ saving = FALSE
    /\ runs = 1
    /\ trusted = {}
    /\ revoked = RevokedIn(file)
    /\ saved = [trusted |-> {}, revoked |-> revoked]
    /\ stale = FALSE
    /\ wide = {}

-----------------------------------------------------------------------------
(* check_server_key.                                                       *)

(* Mutant: the offered key is not kept for the add.                        *)
Bug_ForgetKey(c, k) ==
    /\ attempt[c] = "idle"
    /\ Check(entries, EndpointOf[c], k) = "NotFound" /\ c \in AcceptNew
    /\ attempt' = [attempt EXCEPT ![c] = "adding"]
    /\ UNCHANGED <<entries, file, key, saving, runs, historyVars>>

(* The server offers key k.                                                *)
CheckServerKey(c, k) ==
    LET status == Check(entries, EndpointOf[c], k)
        new == status = "NotFound" /\ c \in AcceptNew
    IN /\ attempt[c] = "idle"
       /\ attempt' = [attempt EXCEPT ![c] = IF new THEN "adding"
                                            ELSE IF status = "Match" THEN "accepted"
                                            ELSE "rejected"]
       /\ key' = IF new THEN [key EXCEPT ![c] = k] ELSE key
       /\ trusted' = IF status = "Match"
                     THEN trusted \cup {<<EndpointOf[c], k>>} ELSE trusted
       /\ UNCHANGED <<entries, file, saving, runs, revoked, saved, stale, wide>>

(* The NotFound of the check decides, whatever the store says by now.      *)
AddEntry(c) ==
    /\ attempt[c] = "adding" /\ ~saving
    /\ attempt' = [attempt EXCEPT ![c] = "accepted"]
    /\ entries' = Added(entries, EndpointOf[c], key[c])
    /\ trusted' = trusted \cup {<<EndpointOf[c], key[c]>>}
    /\ stale' = (stale \/ Check(entries, EndpointOf[c], key[c]) # "NotFound")
    /\ wide' = wide \cup AddWidens(entries, EndpointOf[c])
    /\ key' = [key EXCEPT ![c] = NoKey]
    /\ UNCHANGED <<file, saving, runs, revoked, saved>>

(* A key that cannot be serialized is accepted all the same, and not kept. *)
AddFails(c) ==
    /\ attempt[c] = "adding"
    /\ attempt' = [attempt EXCEPT ![c] = "accepted"]
    /\ key' = [key EXCEPT ![c] = NoKey]
    /\ UNCHANGED <<entries, file, saving, runs, historyVars>>

-----------------------------------------------------------------------------
(* The program's own calls.                                                *)

(* Merging takes trust back where the other store revokes.                 *)
Merge(other) ==
    /\ ~saving
    /\ entries' = entries \cup other
    /\ revoked' = revoked \cup RevokedIn(other)
    /\ trusted' = {t \in trusted : t[1] \notin RevokedIn(other)}
    /\ UNCHANGED <<file, attemptVars, saving, runs, saved, stale, wide>>

(* add_entry called to pin another key: what the entries for the endpoint  *)
(* said is taken back, for other ports of the host too if the line had no  *)
(* port.                                                                   *)
Replace(ep, k) ==
    LET unsaid == {other \in Endpoints :
                      \E e \in entries : Matches(e, ep) /\ Matches(e, other)}
    IN /\ ~saving
       /\ entries' = Added(entries, ep, k)
       /\ trusted' = {t \in trusted : t[1] \notin unsaid}
       /\ revoked' = revoked \ unsaid
       /\ wide' = wide \cup AddWidens(entries, ep)
       /\ UNCHANGED <<file, attemptVars, saving, runs, saved, stale>>

(* save(): File::create, with the read lock held ...                       *)
SaveCreate ==
    /\ ~saving
    /\ saving' = TRUE
    /\ file' = {}
    /\ saved' = [trusted |-> {}, revoked |-> {}]
    /\ UNCHANGED <<entries, attemptVars, runs, trusted, revoked, stale, wide>>

(* ... write_all and the permissions; a write that fails leaves what it    *)
(* wrote.                                                                  *)
SaveWrite ==
    /\ saving
    /\ saving' = FALSE
    /\ \/ /\ file' = Rendered(entries)
          /\ saved' = [trusted |-> trusted, revoked |-> revoked]
          /\ wide' = wide \cup SaveWidens(entries)
       \/ /\ file' \in SUBSET Rendered(entries)
          /\ UNCHANGED <<saved, wide>>
    /\ UNCHANGED <<entries, attemptVars, runs, trusted, revoked, stale>>

(* The program ends, in the middle of a save perhaps, and a new run loads  *)
(* the file.                                                               *)
Restart ==
    /\ runs < MaxRuns
    /\ runs' = runs + 1
    /\ file' \in IF saving THEN SUBSET Rendered(entries) ELSE {file}
    /\ entries' = file'
    /\ attempt' = [c \in Conns |-> "idle"]
    /\ key' = [c \in Conns |-> NoKey]
    /\ saving' = FALSE
    /\ trusted' = saved.trusted
    /\ revoked' = saved.revoked
    /\ UNCHANGED <<saved, stale, wide>>

TrustNext ==
    \/ \E c \in Conns : AddEntry(c) \/ AddFails(c) \/ \E k \in HostKeySet : CheckServerKey(c, k)
    \/ \E other \in Merged : Merge(other)
    \/ \E ep \in Replaced, k \in HostKeySet : Replace(ep, k)
    \/ SaveCreate \/ SaveWrite \/ Restart

TrustSpec == TrustInit /\ [][TrustNext]_trustVars

-----------------------------------------------------------------------------
(* Properties.                                                             *)

TrustTypeOK ==
    /\ entries \subseteq Entries /\ file \subseteq Entries
    /\ attempt \in [Conns -> {"idle", "adding", "accepted", "rejected"}]
    /\ key \in [Conns -> HostKeySet \cup {NoKey}]
    /\ saving \in BOOLEAN /\ runs \in 1 .. MaxRuns
    /\ trusted \subseteq Endpoints \X HostKeySet /\ revoked \subseteq Endpoints
    /\ saved \in [trusted : SUBSET (Endpoints \X HostKeySet), revoked : SUBSET Endpoints]
    /\ stale \in BOOLEAN /\ wide \subseteq Hosts

(* A key that was accepted for an endpoint and kept stays known for it,    *)
(* through other connections, merges, completed saves and restarts, on     *)
(* whatever ports its host is used.  Only two things end it: a key added   *)
(* for an endpoint that had become known since the check, and an entry for *)
(* port 22 of its host that was taken for every port.                      *)
AcceptedStaysKnown ==
    ~stale => \A t \in trusted :
        t[1].host \notin wide => Check(entries, t[1], t[2]) = "Match"

(* A revoked endpoint stays revoked in the same way, and nothing is        *)
(* accepted from it.                                                       *)
RevokedStaysRejected ==
    ~stale => \A ep \in revoked : ep.host \notin wide =>
        /\ \A k \in HostKeySet : Check(entries, ep, k) = "Revoked"
        /\ \A t \in trusted : t[1] # ep

=============================================================================
