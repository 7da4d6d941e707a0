---------------------------- MODULE ClientProofs ----------------------------
(***************************************************************************)
(* Proofs about the client: HostKeys, the store that check_server_key asks *)
(* while a connection is made, then ClientSession and the ClientAuth it    *)
(* starts with.                                                            *)
(*                                                                         *)
(* Those about HostKeys are for any set of connections, endpoints, keys    *)
(* and files, whatever ports a host is used on, and any number of runs of  *)
(* the program.  Those about ClientSession are for any configuration, any  *)
(* calls, limits and numbers of messages.                                  *)
(***************************************************************************)
EXTENDS HostKeys, ClientSession, SequenceTheorems, FiniteSetTheorems, WellFoundedInduction,
        TLAPS

-----------------------------------------------------------------------------
(* The known hosts.                                                        *)

(* What the two verdicts that matter say about the entries.                *)
Known(store, ep, k) ==
    /\ \E e \in store : Matches(e, ep) /\ e.key = k
    /\ \A e \in store : Matches(e, ep) => ~e.revoked
RevokedBy(store, ep) == \E e \in store : Matches(e, ep) /\ e.revoked

(* A store keeps the promises made about trusted and revoked endpoints of  *)
(* hosts outside of hit.                                                   *)
Keeps(store, trust, revocations, hit) ==
    /\ \A t \in trust : t[1].host \notin hit => Known(store, t[1], t[2])
    /\ \A ep \in revocations : ep.host \notin hit => RevokedBy(store, ep)

Adding == \A c \in Conns : attempt[c] = "adding" => key[c] \in HostKeySet
SavingIsUnsafe == saving => saved = [trusted |-> {}, revoked |-> {}]
Promises == ~stale => /\ Keeps(entries, trusted, revoked, wide)
                      /\ Keeps(file, saved.trusted, saved.revoked, wide)

(* The inductive invariant: the store keeps what was promised in this run, *)
(* and the file what was promised at the last completed save, of which     *)
(* nothing is left while a save is under way.                              *)
TrustInv == TrustTypeOK /\ Adding /\ SavingIsUnsafe /\ Promises

-----------------------------------------------------------------------------
(* The store's operators.                                                  *)

LEMMA CheckVerdicts ==
    ASSUME NEW store, NEW ep, NEW k
    PROVE  /\ Check(store, ep, k) = "NotFound" <=> \A e \in store : ~Matches(e, ep)
           /\ Check(store, ep, k) = "Match" <=> Known(store, ep, k)
           /\ Check(store, ep, k) = "Revoked" <=> RevokedBy(store, ep)
  <1> DEFINE found == {e \in store : Matches(e, ep)}
  <1>1. CASE found = {}
    <2>1. Check(store, ep, k) = "NotFound"
      BY <1>1 DEF Check
    <2> QED
      BY <1>1, <2>1 DEF Known, RevokedBy
  <1>2. CASE found # {} /\ \E e \in found : e.revoked
    <2>1. Check(store, ep, k) = "Revoked"
      BY <1>2 DEF Check
    <2> QED
      BY <1>2, <2>1 DEF Known, RevokedBy
  <1>3. CASE found # {} /\ ~(\E e \in found : e.revoked) /\ \E e \in found : e.key = k
    <2>1. Check(store, ep, k) = "Match"
      BY <1>3 DEF Check
    <2> QED
      BY <1>3, <2>1 DEF Known, RevokedBy
  <1>4. CASE found # {} /\ ~(\E e \in found : e.revoked) /\ ~(\E e \in found : e.key = k)
    <2>1. Check(store, ep, k) = "Changed"
      BY <1>4 DEF Check
    <2> QED
      BY <1>4, <2>1 DEF Known, RevokedBy
  <1> QED
    BY <1>1, <1>2, <1>3, <1>4

(* Entries are records, and the new entry speaks about its endpoint only.  *)
New(ep, k) == [host |-> ep.host, port |-> ep.port, key |-> k, revoked |-> FALSE]

LEMMA NewMatches ==
    ASSUME NEW ep \in Endpoints, NEW k \in HostKeySet
    PROVE  /\ New(ep, k) \in Entries
           /\ \A x \in Endpoints : Matches(New(ep, k), x) <=> x = ep
  <1>1. New(ep, k) \in Entries
    BY DEF New, Entries, Endpoints
  <1>2. ASSUME NEW x \in Endpoints PROVE Matches(New(ep, k), x) <=> x = ep
    <2>1. ep.port # 0
      BY ConstantsAssumption DEF Endpoints
    <2>2. x = ep <=> x.host = ep.host /\ x.port = ep.port
      BY DEF Endpoints
    <2> QED
      BY <2>1, <2>2 DEF New, Matches
  <1> QED
    BY <1>1, <1>2

(* What add_entry removes speaks about the endpoint, and it removes all    *)
(* that does, unless the host is one that the add hits on other ports.     *)
LEMMA AddedIs ==
    ASSUME NEW store, NEW ep, NEW k
    PROVE  /\ New(ep, k) \in Added(store, ep, k)
           /\ \A e \in Added(store, ep, k) : e \in store \/ e = New(ep, k)
           /\ \A e \in store : e.host \notin AddWidens(store, ep) /\ ~Matches(e, ep) =>
                  e \in Added(store, ep, k)
  <1>1. ASSUME NEW e \in store, e.host \notin AddWidens(store, ep), ~Matches(e, ep)
        PROVE  e \in Added(store, ep, k)
    <2>1. CASE e.host = ep.host /\ ep.port = 22
      <3>1. e.port \in {0, 22}
        BY <1>1, <2>1 DEF AddWidens
      <3> QED
        BY <1>1, <2>1, <3>1 DEF Matches
    <2>2. CASE ~(e.host = ep.host /\ ep.port = 22)
      BY <1>1, <2>2 DEF Matches, Added
    <2> QED
      BY <2>1, <2>2
  <1> QED
    BY <1>1 DEF Added, New

(* What load will read has the entries of the store, those for port 22 for *)
(* every port.                                                             *)
Render(e) == [e EXCEPT !.port = IF e.port = 22 THEN 0 ELSE e.port]

LEMMA RenderIs ==
    ASSUME NEW e \in Entries
    PROVE  /\ Render(e) \in Entries
           /\ Render(e).host = e.host /\ Render(e).key = e.key
           /\ Render(e).revoked = e.revoked
           /\ Render(e).port = IF e.port = 22 THEN 0 ELSE e.port
  <1>1. e = [host |-> e.host, port |-> e.port, key |-> e.key, revoked |-> e.revoked]
    BY DEF Entries
  <1> QED
    BY <1>1 DEF Entries, Render

LEMMA RenderedIs ==
    ASSUME NEW store
    PROVE  Rendered(store) = {Render(e) : e \in store}
  BY DEF Rendered, Render

(* A promise is not broken by hitting more hosts.                          *)
LEMMA HitMore ==
    ASSUME NEW store, NEW T, NEW R, NEW hit, Keeps(store, T, R, hit), NEW more, hit \subseteq more
    PROVE  Keeps(store, T, R, more)
  BY DEF Keeps

(* Writing the store and reading it back keeps its promises.               *)
LEMMA RenderedKeeps ==
    ASSUME NEW store \in SUBSET Entries, NEW T, NEW R, NEW hit, Keeps(store, T, R, hit)
    PROVE  Keeps(Rendered(store), T, R, hit \cup SaveWidens(store))
  <1>1. ASSUME NEW t \in T, t[1].host \notin hit \cup SaveWidens(store)
        PROVE  Known(Rendered(store), t[1], t[2])
    <2>1. Known(store, t[1], t[2])
      BY <1>1 DEF Keeps
    <2>2. ASSUME NEW e \in store PROVE Matches(e, t[1]) => Matches(Render(e), t[1])
      BY RenderIs DEF Matches
    <2>3. \E e \in Rendered(store) : Matches(e, t[1]) /\ e.key = t[2]
      BY <2>1, <2>2, RenderedIs, RenderIs DEF Known
    <2>4. ASSUME NEW e \in store, Matches(Render(e), t[1]) PROVE ~e.revoked
      <3>1. e.host = t[1].host /\ (Matches(e, t[1]) \/ e.port = 22)
        BY <2>4, RenderIs DEF Matches
      <3>2. e.port = 22 => ~e.revoked
        BY <1>1, <3>1 DEF SaveWidens
      <3> QED
        BY <2>1, <3>1, <3>2 DEF Known
    <2>5. ASSUME NEW e \in Rendered(store), Matches(e, t[1]) PROVE ~e.revoked
      BY <2>4, <2>5, RenderedIs, RenderIs
    <2> QED
      BY <2>3, <2>5 DEF Known
  <1>2. ASSUME NEW ep \in R, ep.host \notin hit \cup SaveWidens(store)
        PROVE  RevokedBy(Rendered(store), ep)
    <2>1. PICK e \in store : Matches(e, ep) /\ e.revoked
      BY <1>2 DEF Keeps, RevokedBy
    <2>2. Matches(Render(e), ep) /\ Render(e).revoked
      BY <2>1, RenderIs DEF Matches
    <2> QED
      BY <2>2, RenderedIs DEF RevokedBy
  <1> QED
    BY <1>1, <1>2 DEF Keeps

(* Adding a key for an endpoint nothing is known of.                       *)
LEMMA AddKeeps ==
    ASSUME NEW store, NEW ep \in Endpoints, NEW k \in HostKeySet,
           \A e \in store : ~Matches(e, ep),
           NEW T \in SUBSET (Endpoints \X HostKeySet), NEW R \in SUBSET Endpoints,
           NEW hit, Keeps(store, T, R, hit)
    PROVE  Keeps(Added(store, ep, k), T \cup {<<ep, k>>}, R, hit \cup AddWidens(store, ep))
  <1> DEFINE new == New(ep, k)
             after == Added(store, ep, k)
             more == hit \cup AddWidens(store, ep)
  <1>1. /\ new \in after /\ \A e \in after : e \in store \/ e = new
        /\ \A e \in store : e.host \notin more => e \in after
    BY AddedIs
  <1>2. \A x \in Endpoints : Matches(new, x) <=> x = ep
    BY NewMatches
  <1>3. ~new.revoked /\ new.key = k /\ hit \subseteq more
    BY DEF New
  <1> HIDE DEF new, after, more
  <1>4. Known(after, ep, k)
    BY <1>1, <1>2, <1>3 DEF Known
  <1>5. ASSUME NEW t \in T, t[1].host \notin more PROVE Known(after, t[1], t[2])
    <2>1. Known(store, t[1], t[2])
      BY <1>3, <1>5 DEF Keeps
    <2>2. PICK e \in store : Matches(e, t[1]) /\ e.key = t[2]
      BY <2>1 DEF Known
    <2>3. e \in after
      BY <1>1, <1>5, <2>2 DEF Matches
    <2> QED
      BY <1>1, <1>3, <2>1, <2>2, <2>3 DEF Known
  <1>6. ASSUME NEW x \in R, x.host \notin more PROVE RevokedBy(after, x)
    <2>1. PICK e \in store : Matches(e, x) /\ e.revoked
      BY <1>3, <1>6 DEF Keeps, RevokedBy
    <2>2. e \in after
      BY <1>1, <1>6, <2>1 DEF Matches
    <2> QED
      BY <2>1, <2>2 DEF RevokedBy
  <1> QED
    BY <1>4, <1>5, <1>6 DEF Keeps, after, more

(* Merging, which takes trust back where the other store revokes.          *)
LEMMA MergeKeeps ==
    ASSUME NEW store, NEW other, NEW T \in SUBSET (Endpoints \X HostKeySet), NEW R, NEW hit,
           Keeps(store, T, R, hit)
    PROVE  Keeps(store \cup other, {t \in T : t[1] \notin RevokedIn(other)},
                 R \cup RevokedIn(other), hit)
  <1>1. ASSUME NEW t \in T, t[1] \notin RevokedIn(other), t[1].host \notin hit
        PROVE  Known(store \cup other, t[1], t[2])
    <2>1. t[1] \in Endpoints /\ Known(store, t[1], t[2])
      BY <1>1 DEF Keeps
    <2>2. \A e \in other : Matches(e, t[1]) => ~e.revoked
      BY <1>1, <2>1 DEF RevokedIn
    <2> QED
      BY <2>1, <2>2 DEF Known
  <1>2. ASSUME NEW ep \in R \cup RevokedIn(other), ep.host \notin hit
        PROVE  RevokedBy(store \cup other, ep)
    BY <1>2 DEF Keeps, RevokedBy, RevokedIn
  <1> QED
    BY <1>1, <1>2 DEF Keeps

(* Pinning a key, which takes back what the entries it replaces said.      *)
LEMMA ReplaceKeeps ==
    ASSUME NEW store, NEW ep \in Endpoints, NEW k,
           NEW T \in SUBSET (Endpoints \X HostKeySet), NEW R \in SUBSET Endpoints,
           NEW hit, Keeps(store, T, R, hit), NEW unsaid,
           unsaid = {x \in Endpoints : \E e \in store : Matches(e, ep) /\ Matches(e, x)}
    PROVE  Keeps(Added(store, ep, k), {t \in T : t[1] \notin unsaid}, R \ unsaid,
                 hit \cup AddWidens(store, ep))
  <1> DEFINE new == New(ep, k)
             after == Added(store, ep, k)
             more == hit \cup AddWidens(store, ep)
  <1>1. /\ \A e \in after : e \in store \/ e = new
        /\ \A e \in store : e.host \notin more /\ ~Matches(e, ep) => e \in after
    BY AddedIs
  <1>2. ~new.revoked /\ hit \subseteq more
    BY DEF New
  <1> HIDE DEF new, after, more
  <1>3. ASSUME NEW t \in T, t[1] \notin unsaid, t[1].host \notin more
        PROVE  Known(after, t[1], t[2])
    <2>1. t[1] \in Endpoints /\ Known(store, t[1], t[2])
      BY <1>2, <1>3 DEF Keeps
    <2>2. \A e \in store : Matches(e, t[1]) => ~Matches(e, ep)
      BY <1>3, <2>1
    <2>3. PICK e \in store : Matches(e, t[1]) /\ e.key = t[2]
      BY <2>1 DEF Known
    <2>4. e \in after
      BY <1>1, <1>3, <2>2, <2>3 DEF Matches
    <2> QED
      BY <1>1, <1>2, <2>1, <2>3, <2>4 DEF Known
  <1>4. ASSUME NEW x \in R \ unsaid, x.host \notin more PROVE RevokedBy(after, x)
    <2>1. PICK e \in store : Matches(e, x) /\ e.revoked
      BY <1>2, <1>4 DEF Keeps, RevokedBy
    <2>2. ~Matches(e, ep)
      BY <1>4, <2>1
    <2>3. e \in after
      BY <1>1, <1>4, <2>1, <2>2 DEF Matches
    <2> QED
      BY <2>1, <2>3 DEF RevokedBy
  <1> QED
    BY <1>3, <1>4 DEF Keeps, after, more

-----------------------------------------------------------------------------
(* Type correctness.                                                       *)

LEMMA AddedType ==
    ASSUME NEW store \in SUBSET Entries, NEW ep \in Endpoints, NEW k \in HostKeySet
    PROVE  Added(store, ep, k) \subseteq Entries
  BY NewMatches DEF Added, New

LEMMA RenderedType ==
    ASSUME NEW store \in SUBSET Entries
    PROVE  Rendered(store) \subseteq Entries
  BY RenderedIs, RenderIs

LEMMA WidensHosts ==
    ASSUME NEW store \in SUBSET Entries
    PROVE  SaveWidens(store) \subseteq Hosts /\ \A ep : AddWidens(store, ep) \subseteq Hosts
  BY DEF SaveWidens, AddWidens, Entries

TypeInv == TrustTypeOK /\ Adding

LEMMA InitTypeInv == TrustInit => TypeInv
  <1> SUFFICES ASSUME TrustInit PROVE TypeInv
    OBVIOUS
  <1>0. runs \in 1 .. MaxRuns
    <2>1. runs = 1 /\ MaxRuns \in Nat /\ MaxRuns # 0
      BY ConstantsAssumption DEF TrustInit
    <2> QED
      BY <2>1
  <1> USE ConstantsAssumption DEF TrustInit
  <1>1. saving \in BOOLEAN /\ stale \in BOOLEAN /\ wide \subseteq Hosts
    OBVIOUS
  <1>2. entries \subseteq Entries /\ file \subseteq Entries
    OBVIOUS
  <1>3. trusted \subseteq Endpoints \X HostKeySet /\ revoked \subseteq Endpoints
    BY DEF RevokedIn
  <1>4. saved \in [trusted : SUBSET (Endpoints \X HostKeySet), revoked : SUBSET Endpoints]
    BY <1>3
  <1>5. /\ attempt \in [Conns -> {"idle", "adding", "accepted", "rejected"}]
        /\ key \in [Conns -> HostKeySet \cup {NoKey}]
    OBVIOUS
  <1>6. Adding
    BY DEF Adding
  <1> QED
    BY <1>1, <1>0, <1>2, <1>3, <1>4, <1>5, <1>6 DEF TypeInv, TrustTypeOK

LEMMA StepTypeInv ==
    ASSUME TypeInv, [TrustNext]_trustVars
    PROVE  TypeInv'
  <1> USE ConstantsAssumption DEF TypeInv
  <1>1. ASSUME NEW c \in Conns, NEW k \in HostKeySet, CheckServerKey(c, k) PROVE TypeInv'
    <2> USE <1>1 DEF CheckServerKey
    <2>1. attempt' \in [Conns -> {"idle", "adding", "accepted", "rejected"}]
      BY DEF TrustTypeOK
    <2>2. key' \in [Conns -> HostKeySet \cup {NoKey}]
      BY DEF TrustTypeOK
    <2>3. trusted' \subseteq Endpoints \X HostKeySet
      BY DEF TrustTypeOK
    <2>4. TrustTypeOK'
      BY <2>1, <2>2, <2>3 DEF TrustTypeOK
    <2>5. Adding'
      BY DEF TrustTypeOK, Adding
    <2> QED
      BY <2>4, <2>5
  <1>2. ASSUME NEW c \in Conns, AddEntry(c) PROVE TypeInv'
    <2> USE <1>2 DEF AddEntry
    <2>1. key[c] \in HostKeySet /\ EndpointOf[c] \in Endpoints
      BY DEF Adding
    <2>2. entries' \subseteq Entries
      BY <2>1, AddedType DEF TrustTypeOK
    <2>3. trusted' \subseteq Endpoints \X HostKeySet
      BY <2>1 DEF TrustTypeOK
    <2>4. stale' \in BOOLEAN
      BY DEF TrustTypeOK
    <2>7. wide' \subseteq Hosts
      BY WidensHosts DEF TrustTypeOK
    <2>5. TrustTypeOK'
      BY <2>2, <2>3, <2>4, <2>7 DEF TrustTypeOK
    <2>6. Adding'
      BY DEF TrustTypeOK, Adding
    <2> QED
      BY <2>5, <2>6
  <1>9. ASSUME NEW c \in Conns, AddFails(c) PROVE TypeInv'
    BY <1>9 DEF AddFails, TrustTypeOK, Adding, historyVars
  <1>3. ASSUME NEW other \in Merged, Merge(other) PROVE TypeInv'
    BY <1>3 DEF Merge, TrustTypeOK, Adding, RevokedIn, attemptVars
  <1>4. ASSUME NEW ep \in Replaced, NEW k \in HostKeySet, Replace(ep, k) PROVE TypeInv'
    <2>1. entries' \subseteq Entries
      BY <1>4, AddedType DEF Replace, TrustTypeOK
    <2>2. wide' \subseteq Hosts
      BY <1>4, WidensHosts DEF Replace, TrustTypeOK
    <2> QED
      BY <1>4, <2>1, <2>2 DEF Replace, TrustTypeOK, Adding, attemptVars
  <1>5. ASSUME SaveCreate PROVE TypeInv'
    BY <1>5 DEF SaveCreate, TrustTypeOK, Adding, attemptVars
  <1>6. ASSUME SaveWrite PROVE TypeInv'
    <2>1. file' \subseteq Entries
      BY <1>6, RenderedType DEF SaveWrite, TrustTypeOK
    <2>2. saved' \in [trusted : SUBSET (Endpoints \X HostKeySet), revoked : SUBSET Endpoints]
      BY <1>6 DEF SaveWrite, TrustTypeOK
    <2>3. wide' \subseteq Hosts
      BY <1>6, WidensHosts DEF SaveWrite, TrustTypeOK
    <2> QED
      BY <1>6, <2>1, <2>2, <2>3 DEF SaveWrite, TrustTypeOK, Adding, attemptVars
  <1>7. ASSUME Restart PROVE TypeInv'
    <2>1. file' \subseteq Entries
      BY <1>7, RenderedType DEF Restart, TrustTypeOK
    <2>2. runs' \in 1 .. MaxRuns
      BY <1>7 DEF Restart, TrustTypeOK
    <2>3. /\ attempt' \in [Conns -> {"idle", "adding", "accepted", "rejected"}]
          /\ key' \in [Conns -> HostKeySet \cup {NoKey}]
      BY <1>7 DEF Restart
    <2>4. trusted' \subseteq Endpoints \X HostKeySet /\ revoked' \subseteq Endpoints
      BY <1>7 DEF Restart, TrustTypeOK
    <2>5. TrustTypeOK'
      BY <1>7, <2>1, <2>2, <2>3, <2>4 DEF Restart, TrustTypeOK
    <2>6. Adding'
      BY <1>7 DEF Restart, Adding
    <2> QED
      BY <2>5, <2>6
  <1>8. ASSUME UNCHANGED trustVars PROVE TypeInv'
    BY <1>8 DEF trustVars, attemptVars, historyVars, TrustTypeOK, Adding
  <1> QED
    BY <1>1, <1>2, <1>3, <1>4, <1>5, <1>6, <1>7, <1>8, <1>9 DEF TrustNext

(* Type correctness: in particular only server keys are ever added to the  *)
(* store, though check_server_key adds them a step after its check, and    *)
(* what save writes can be read back.                                      *)
THEOREM TrustIsTyped == TrustSpec => []TrustTypeOK
  <1>1. TypeInv /\ [TrustNext]_trustVars => TypeInv'
    BY StepTypeInv
  <1>2. TypeInv => TrustTypeOK
    BY DEF TypeInv
  <1> QED
    BY InitTypeInv, <1>1, <1>2, PTL DEF TrustSpec

-----------------------------------------------------------------------------
(* The promises.                                                           *)

LEMMA NothingPromised ==
    ASSUME NEW store, NEW hit
    PROVE  Keeps(store, {}, {}, hit)
  BY DEF Keeps

LEMMA InitTrustInv ==
    ASSUME TrustInit
    PROVE  TrustInv
  <1>1. TypeInv
    BY InitTypeInv
  <1>2. SavingIsUnsafe
    BY DEF TrustInit, SavingIsUnsafe
  <1>3. Keeps(entries, {}, RevokedIn(entries), {})
    BY DEF Keeps, RevokedBy, RevokedIn
  <1>4. Promises
    BY <1>3 DEF TrustInit, Promises
  <1> QED
    BY <1>1, <1>2, <1>4 DEF TrustInv, TypeInv

(* An attempt that accepts a known key, or one that nothing was known of.  *)
LEMMA StepCheckServerKey ==
    ASSUME TrustInv, NEW c \in Conns, NEW k \in HostKeySet, CheckServerKey(c, k)
    PROVE  Promises'
  <1> USE DEF CheckServerKey
  <1> SUFFICES ASSUME ~stale PROVE Promises'
    BY DEF Promises
  <1>1. Keeps(entries, trusted, revoked, wide) /\ Keeps(file, saved.trusted, saved.revoked, wide)
    BY DEF TrustInv, Promises
  <1>2. CASE Check(entries, EndpointOf[c], k) = "Match"
    <2>1. Known(entries, EndpointOf[c], k)
      BY <1>2, CheckVerdicts
    <2>2. trusted' = trusted \cup {<<EndpointOf[c], k>>}
      BY <1>2
    <2>3. Keeps(entries, trusted', revoked, wide)
      BY <1>1, <2>1, <2>2 DEF Keeps
    <2> QED
      BY <1>1, <2>3 DEF Promises
  <1>3. CASE Check(entries, EndpointOf[c], k) # "Match"
    BY <1>1, <1>3 DEF Promises
  <1> QED
    BY <1>2, <1>3

LEMMA StepAddEntry ==
    ASSUME TrustInv, NEW c \in Conns, AddEntry(c)
    PROVE  Promises'
  <1> USE DEF AddEntry
  <1> DEFINE ep == EndpointOf[c]
  <1>1. ep \in Endpoints
    BY ConstantsAssumption
  <1>2. ASSUME ~stale' PROVE Keeps(entries', trusted', revoked', wide')
    <2>1. \A e \in entries : ~Matches(e, ep)
      BY <1>2, CheckVerdicts
    <2>2. Keeps(entries, trusted, revoked, wide)
      BY <1>2 DEF TrustInv, Promises
    <2>3. key[c] \in HostKeySet
      BY DEF TrustInv, Adding
    <2>4. trusted \in SUBSET (Endpoints \X HostKeySet) /\ revoked \in SUBSET Endpoints
      BY DEF TrustInv, TrustTypeOK
    <2>5. Keeps(Added(entries, ep, key[c]), trusted \cup {<<ep, key[c]>>}, revoked,
                wide \cup AddWidens(entries, ep))
      BY <1>1, <2>1, <2>2, <2>3, <2>4, AddKeeps
    <2> QED
      BY <2>5
  <1>3. ASSUME ~stale' PROVE Keeps(file', saved.trusted', saved.revoked', wide')
    <2>1. Keeps(file, saved.trusted, saved.revoked, wide) /\ wide \subseteq wide'
      BY <1>3 DEF TrustInv, Promises
    <2>2. Keeps(file, saved.trusted, saved.revoked, wide')
      BY <2>1, HitMore
    <2> QED
      BY <2>2
  <1> QED
    BY <1>2, <1>3 DEF Promises

LEMMA StepMerge ==
    ASSUME TrustInv, NEW other \in Merged, Merge(other)
    PROVE  Promises'
  <1> SUFFICES ASSUME ~stale PROVE Promises'
    BY DEF Merge, Promises
  <1>1. /\ Keeps(entries, trusted, revoked, wide) /\ Keeps(file, saved.trusted, saved.revoked, wide)
        /\ trusted \in SUBSET (Endpoints \X HostKeySet)
    BY DEF TrustInv, Promises, TrustTypeOK
  <1>2. Keeps(entries \cup other, {t \in trusted : t[1] \notin RevokedIn(other)},
              revoked \cup RevokedIn(other), wide)
    BY <1>1, MergeKeeps
  <1> QED
    BY <1>1, <1>2 DEF Merge, Promises

LEMMA StepReplace ==
    ASSUME TrustInv, NEW ep \in Replaced, NEW k \in HostKeySet, Replace(ep, k)
    PROVE  Promises'
  <1> USE DEF Replace
  <1> DEFINE unsaid == {x \in Endpoints : \E e \in entries : Matches(e, ep) /\ Matches(e, x)}
  <1>1. ep \in Endpoints
    BY ConstantsAssumption
  <1>2. trusted \in SUBSET (Endpoints \X HostKeySet) /\ revoked \in SUBSET Endpoints
    BY DEF TrustInv, TrustTypeOK
  <1>3. ASSUME ~stale
        PROVE  Keeps(Added(entries, ep, k), {t \in trusted : t[1] \notin unsaid},
                     revoked \ unsaid, wide \cup AddWidens(entries, ep))
    <2>1. Keeps(entries, trusted, revoked, wide)
      BY <1>3 DEF TrustInv, Promises
    <2> QED
      BY <1>1, <1>2, <2>1, ReplaceKeeps
  <1>4. ASSUME ~stale
        PROVE  Keeps(file, saved.trusted, saved.revoked, wide \cup AddWidens(entries, ep))
    <2>1. Keeps(file, saved.trusted, saved.revoked, wide)
      BY <1>4 DEF TrustInv, Promises
    <2> QED
      BY <2>1, HitMore
  <1> QED
    BY <1>3, <1>4 DEF Promises

LEMMA StepSaveCreate ==
    ASSUME TrustInv, SaveCreate
    PROVE  SavingIsUnsafe' /\ Promises'
  <1> USE DEF SaveCreate
  <1>1. SavingIsUnsafe'
    BY DEF SavingIsUnsafe
  <1>2. Keeps({}, {}, {}, wide)
    BY NothingPromised
  <1>3. saved.trusted' = {} /\ saved.revoked' = {}
    OBVIOUS
  <1>4. Promises'
    BY <1>2, <1>3 DEF TrustInv, Promises
  <1> QED
    BY <1>1, <1>4

LEMMA StepSaveWrite ==
    ASSUME TrustInv, SaveWrite
    PROVE  SavingIsUnsafe' /\ Promises'
  <1> USE DEF SaveWrite
  <1>1. SavingIsUnsafe'
    BY DEF SavingIsUnsafe
  <1>2. CASE /\ file' = Rendered(entries) /\ saved' = [trusted |-> trusted, revoked |-> revoked]
             /\ wide' = wide \cup SaveWidens(entries)
    <2>1. ASSUME ~stale PROVE /\ Keeps(Rendered(entries), trusted, revoked, wide')
                              /\ Keeps(entries, trusted, revoked, wide')
      <3>1. Keeps(entries, trusted, revoked, wide) /\ entries \in SUBSET Entries
        BY <2>1 DEF TrustInv, Promises, TrustTypeOK
      <3> QED
        BY <1>2, <3>1, RenderedKeeps, HitMore
    <2>2. saved.trusted' = trusted /\ saved.revoked' = revoked
      BY <1>2
    <2> QED
      BY <1>1, <1>2, <2>1, <2>2 DEF Promises
  <1>3. CASE UNCHANGED <<saved, wide>>
    <2>1. saved.trusted' = {} /\ saved.revoked' = {}
      BY <1>3 DEF TrustInv, SavingIsUnsafe
    <2>2. Keeps(file', {}, {}, wide)
      BY NothingPromised
    <2> QED
      BY <1>1, <1>3, <2>1, <2>2 DEF TrustInv, Promises
  <1> QED
    BY <1>2, <1>3

LEMMA StepRestart ==
    ASSUME TrustInv, Restart
    PROVE  SavingIsUnsafe' /\ Promises'
  <1> USE DEF Restart
  <1>1. SavingIsUnsafe'
    BY DEF SavingIsUnsafe
  <1>2. saved.trusted' = saved.trusted /\ saved.revoked' = saved.revoked
    OBVIOUS
  <1>3. CASE saving
    <2>1. saved.trusted = {} /\ saved.revoked = {}
      BY <1>3 DEF TrustInv, SavingIsUnsafe
    <2>2. Keeps(file', {}, {}, wide)
      BY NothingPromised
    <2> QED
      BY <1>1, <1>2, <2>1, <2>2 DEF Promises
  <1>4. CASE ~saving
    <2>1. file' = file
      BY <1>4
    <2> QED
      BY <1>1, <1>2, <2>1 DEF TrustInv, Promises
  <1> QED
    BY <1>3, <1>4 DEF TrustInv, TrustTypeOK

LEMMA NextTrustInv ==
    ASSUME TrustInv, [TrustNext]_trustVars
    PROVE  TrustInv'
  <1>1. TypeInv'
    BY StepTypeInv DEF TrustInv, TypeInv
  <1> SUFFICES SavingIsUnsafe' /\ Promises'
    BY <1>1 DEF TrustInv, TypeInv
  <1>2. ASSUME NEW c \in Conns, NEW k \in HostKeySet, CheckServerKey(c, k)
        PROVE  SavingIsUnsafe' /\ Promises'
    BY <1>2, StepCheckServerKey DEF CheckServerKey, TrustInv, SavingIsUnsafe
  <1>3. ASSUME NEW c \in Conns, AddEntry(c) PROVE SavingIsUnsafe' /\ Promises'
    BY <1>3, StepAddEntry DEF AddEntry, TrustInv, SavingIsUnsafe
  <1>4. ASSUME NEW other \in Merged, Merge(other) PROVE SavingIsUnsafe' /\ Promises'
    BY <1>4, StepMerge DEF Merge, TrustInv, SavingIsUnsafe
  <1>5. ASSUME NEW ep \in Replaced, NEW k \in HostKeySet, Replace(ep, k)
        PROVE  SavingIsUnsafe' /\ Promises'
    BY <1>5, StepReplace DEF Replace, TrustInv, SavingIsUnsafe
  <1>6. ASSUME UNCHANGED trustVars PROVE SavingIsUnsafe' /\ Promises'
    BY <1>6 DEF trustVars, historyVars, TrustInv, SavingIsUnsafe, Promises
  <1>7. ASSUME NEW c \in Conns, AddFails(c) PROVE SavingIsUnsafe' /\ Promises'
    BY <1>7 DEF AddFails, historyVars, TrustInv, SavingIsUnsafe, Promises
  <1> QED
    BY <1>2, <1>3, <1>4, <1>5, <1>6, <1>7, StepSaveCreate, StepSaveWrite, StepRestart
    DEF TrustNext

LEMMA TrustInvAlways == TrustSpec => []TrustInv
  <1>1. TrustInit => TrustInv
    BY InitTrustInv
  <1>2. TrustInv /\ [TrustNext]_trustVars => TrustInv'
    BY NextTrustInv
  <1> QED
    BY <1>1, <1>2, PTL DEF TrustSpec

(* A key once accepted, by a match or on first use, is still accepted      *)
(* after any adds, merges, saves that end, saves that fail and restarts,   *)
(* on whatever ports its host is used, unless an add came after its        *)
(* endpoint had become known or port 22 of its host was taken for all.     *)
THEOREM TrustLasts == TrustSpec => []AcceptedStaysKnown
  <1>1. TrustInv => AcceptedStaysKnown
    BY CheckVerdicts DEF TrustInv, Promises, Keeps, AcceptedStaysKnown
  <1> QED
    BY <1>1, TrustInvAlways, PTL

(* A revoked endpoint is refused with every key, before and after a save   *)
(* and a restart, and no key of it counts as trusted, with the same two    *)
(* exceptions.                                                             *)
THEOREM RevocationLasts == TrustSpec => []RevokedStaysRejected
  <1>1. ASSUME TrustInv, ~stale, NEW ep \in revoked, ep.host \notin wide
        PROVE  /\ \A k \in HostKeySet : Check(entries, ep, k) = "Revoked"
               /\ \A t \in trusted : t[1] # ep
    <2>1. Keeps(entries, trusted, revoked, wide)
      BY <1>1 DEF TrustInv, Promises
    <2>2. RevokedBy(entries, ep)
      BY <1>1, <2>1 DEF Keeps
    <2>3. ASSUME NEW t \in trusted, t[1] = ep PROVE FALSE
      <3>1. Known(entries, ep, t[2])
        BY <1>1, <2>1, <2>3 DEF Keeps
      <3> QED
        BY <2>2, <3>1 DEF Known, RevokedBy
    <2> QED
      BY <2>2, <2>3, CheckVerdicts
  <1>2. TrustInv => RevokedStaysRejected
    BY <1>1 DEF RevokedStaysRejected
  <1> QED
    BY <1>2, TrustInvAlways, PTL

-----------------------------------------------------------------------------
(* connect.                                                                *)

Verdicts == {"none", "ok", "Partial", "Exhausted"}
AuthReplies == {"success", "failure", "partial", "info"}
Refusals == {"failure", "partial"}
Answers == {"success", "failure", "partial"}

(* The locals of connect are reset when it returns, and a call that waits  *)
(* is about a credential.                                                  *)
Phases ==
    /\ outcome = "none" <=> apc \notin {"done", "session"}
    /\ apc = "session" => outcome = "ok"
    /\ apc \in {"idle", "done", "session"} => cred = 1 /\ ~saw
    /\ apc \in {"agent", "wait"} => cred <= Len(creds)

(* What connect has seen or will see is what the server said.              *)
SomePartial == \E i \in DOMAIN creds : "partial" \in answered[i]
Heard ==
    /\ \A i \in DOMAIN replies : replies[i] = "success" => granted
    /\ \A i \in DOMAIN replies : replies[i] = "partial" => SomePartial
    /\ saw => SomePartial

(* Unless a request was given up, the only one under way is that of the    *)
(* credential being tried, and those before it were refused.               *)
Waits == asked = <<cred>> /\ replies = <<>> /\ ~granted
         /\ (Kind \notin {"agent", "kbd"} => answered[cred] = {})
Replied(r) ==
    /\ asked = <<>> /\ replies = <<r>>
    /\ granted <=> r = "success"
    /\ r \in Refusals => r \in answered[cred]
    /\ r = "info" => Kind = "kbd"
    /\ Kind \notin {"agent", "kbd"} => answered[cred] = {r}
Refused(i) ==
    /\ creds[i] = "kbd" \/ answered[i] \cap Refusals # {}
    /\ ~saw => ("partial" \in answered[i] => creds[i] \in {"kbd", "agent"})
Lockstep ==
    ~late =>
        /\ apc \in {"idle", "try", "agent"} =>
              /\ asked = <<>> /\ replies = <<>> /\ ~granted
              /\ \A i \in DOMAIN creds : i >= cred => answered[i] = {}
        /\ apc = "wait" =>
              /\ Waits \/ \E r \in AuthReplies : Replied(r)
              /\ \A i \in DOMAIN creds : i > cred => answered[i] = {}
        /\ apc \in {"try", "agent", "wait"} => \A i \in DOMAIN creds : i < cred => Refused(i)

AuthInv == AuthTypeOK /\ Phases /\ Heard /\ Lockstep /\ VerdictIsTrue

LEMMA ErrorTypes ==
    /\ \A e \in ConnectErrors : MapConnectError[e] \in Outcomes \ Verdicts
    /\ \A e \in AuthErrors : MapAuthError[e] \in Outcomes \ Verdicts
    /\ "Unavailable" \in Outcomes \ Verdicts /\ "Timeout" \in Outcomes \ Verdicts
    /\ Verdicts \subseteq Outcomes
  <1>1. ASSUME NEW e \in ConnectErrors PROVE MapConnectError[e] \notin Verdicts
    BY DEF ConnectErrors, MapConnectError, RusshErrors, Verdicts
  <1>2. ASSUME NEW e \in AuthErrors PROVE MapAuthError[e] \notin Verdicts
    BY DEF AuthErrors, MapAuthError, RusshErrors, Verdicts
  <1>3. MapAuthError["NoAuthMethod"] = "Unavailable" /\ MapAuthError["ConnectionTimeout"] = "Timeout"
    BY DEF MapAuthError, RusshErrors
  <1>4. {"NoAuthMethod", "ConnectionTimeout"} \subseteq AuthErrors
    BY DEF AuthErrors
  <1>5. Verdicts \subseteq Outcomes
    BY DEF Outcomes, Verdicts
  <1>6. \A e \in ConnectErrors : MapConnectError[e] \in Outcomes
    BY DEF Outcomes
  <1>7. \A e \in AuthErrors : MapAuthError[e] \in Outcomes
    BY DEF Outcomes
  <1>8. "Unavailable" \in Outcomes \ Verdicts /\ "Timeout" \in Outcomes \ Verdicts
    BY <1>2, <1>3, <1>4, <1>7
  <1> QED
    BY <1>1, <1>2, <1>5, <1>6, <1>7, <1>8

LEMMA CredsAre ==
    ASSUME AuthTypeOK
    PROVE  /\ creds \in Seq(Kinds) /\ Len(creds) \in Nat /\ DOMAIN creds = 1 .. Len(creds)
           /\ cred \in Nat \ {0} /\ cred <= Len(creds) + 1
           /\ agent \in Nat /\ MaxAgentKeys \in Nat \ {0}
  <1>1. creds \in Seq(Kinds)
    BY AuthAssumption DEF AuthTypeOK
  <1>2. Len(creds) \in Nat /\ DOMAIN creds = 1 .. Len(creds)
    BY <1>1
  <1> QED
    BY <1>1, <1>2, AuthAssumption DEF AuthTypeOK

LEMMA RepliesTaken ==
    ASSUME AuthInv, replies' = replies \/ (replies # <<>> /\ replies' = Tail(replies)),
           UNCHANGED <<creds, granted, answered>>
    PROVE  /\ replies' \in Seq(AuthReplies)
           /\ \A i \in DOMAIN replies' : replies'[i] = "success" => granted'
           /\ \A i \in DOMAIN replies' : replies'[i] = "partial" => SomePartial'
  <1>1. replies \in Seq(AuthReplies) /\ Heard
    BY DEF AuthInv, AuthTypeOK, AuthReplies
  <1>2. SomePartial' = SomePartial
    BY DEF SomePartial
  <1>3. replies' \in Seq(AuthReplies) /\ \A i \in DOMAIN replies' : \E j \in DOMAIN replies : replies'[i] = replies[j]
    <2>1. CASE replies' = replies
      BY <1>1, <2>1
    <2>2. CASE replies # <<>> /\ replies' = Tail(replies)
      BY <1>1, <2>2
    <2> QED
      BY <2>1, <2>2
  <1> QED
    BY <1>1, <1>2, <1>3 DEF Heard

(* connect returns.                                                        *)
LEMMA Returned ==
    ASSUME AuthInv, NEW v \in Outcomes, v # "none", Return(v),
           UNCHANGED <<creds, granted, prompts, answered>>,
           asked' \in Seq(DOMAIN creds),
           replies' = replies \/ (replies # <<>> /\ replies' = Tail(replies)),
           late' \in BOOLEAN,
           v \in Verdicts => VerdictIsTrue'
    PROVE  AuthInv'
  <1> USE DEF Return
  <1>1. /\ replies' \in Seq(AuthReplies)
        /\ \A i \in DOMAIN replies' : replies'[i] = "success" => granted'
        /\ \A i \in DOMAIN replies' : replies'[i] = "partial" => SomePartial'
    BY RepliesTaken
  <1>2. AuthTypeOK'
    <2>1. cred' \in 1 .. (Len(creds') + 1)
      BY CredsAre DEF AuthInv
    <2>2. agent' \in 0 .. (MaxAgentKeys - 1)
      BY AuthAssumption
    <2>3. asked' \in Seq(DOMAIN creds')
      OBVIOUS
    <2> QED
      BY <1>1, <2>1, <2>2, <2>3 DEF AuthInv, AuthTypeOK, AuthReplies
  <1>3. Phases'
    BY DEF Phases
  <1>4. Heard'
    BY <1>1 DEF Heard
  <1>5. Lockstep'
    BY DEF Lockstep
  <1>6. VerdictIsTrue'
    BY DEF VerdictIsTrue, Verdicts
  <1> QED
    BY <1>2, <1>3, <1>4, <1>5, <1>6 DEF AuthInv

(* The next credential.                                                    *)
LEMMA Skipped ==
    ASSUME AuthInv, apc = "wait", NEW p \in BOOLEAN, Skip(p), p => SomePartial,
           UNCHANGED <<creds, granted, prompts, answered>>,
           asked' \in Seq(DOMAIN creds),
           replies' = replies \/ (replies # <<>> /\ replies' = Tail(replies)),
           late' \in BOOLEAN,
           ~late' => /\ asked' = <<>> /\ replies' = <<>> /\ ~granted /\ ~late
                     /\ Kind = "kbd" \/ answered[cred] \cap Refusals # {}
                     /\ ~(saw \/ p) /\ "partial" \in answered[cred] => Kind \in {"kbd", "agent"}
    PROVE  AuthInv'
  <1> USE DEF Skip
  <1>1. /\ replies' \in Seq(AuthReplies)
        /\ \A i \in DOMAIN replies' : replies'[i] = "success" => granted'
        /\ \A i \in DOMAIN replies' : replies'[i] = "partial" => SomePartial'
    BY RepliesTaken
  <1>2. AuthTypeOK'
    <2>1. cred <= Len(creds) /\ cred \in Nat \ {0} /\ Len(creds) \in Nat /\ creds' = creds
      BY CredsAre DEF AuthInv, Phases
    <2>2. cred' \in 1 .. (Len(creds') + 1)
      BY <2>1
    <2>3. agent' \in 0 .. (MaxAgentKeys - 1)
      BY AuthAssumption
    <2>4. saw' \in BOOLEAN
      BY DEF AuthInv, AuthTypeOK
    <2> QED
      BY <1>1, <2>2, <2>3, <2>4 DEF AuthInv, AuthTypeOK, AuthReplies
  <1>3. Phases'
    BY DEF Phases, AuthInv
  <1>4. Heard'
    BY <1>1 DEF Heard, AuthInv, SomePartial
  <1>5. VerdictIsTrue'
    BY DEF AuthInv, Phases, VerdictIsTrue
  <1>6. Lockstep'
    <2> SUFFICES ASSUME ~late' PROVE
             /\ asked' = <<>> /\ replies' = <<>> /\ ~granted'
             /\ \A i \in DOMAIN creds' : i >= cred' => answered'[i] = {}
             /\ \A i \in DOMAIN creds' : i < cred' => Refused(i)'
      BY DEF Lockstep
    <2>1. \A i \in DOMAIN creds : i \in Nat /\ cred \in Nat
      BY CredsAre DEF AuthInv
    <2>2. ASSUME NEW i \in DOMAIN creds, i >= cred' PROVE answered'[i] = {}
      <3>1. i > cred
        BY <2>1, <2>2
      <3> QED
        BY <3>1 DEF AuthInv, Lockstep
    <2>3. ASSUME NEW i \in DOMAIN creds, i < cred' PROVE Refused(i)'
      <3>1. i < cred \/ i = cred
        BY <2>1, <2>3
      <3>2. CASE i < cred
        <4>1. Refused(i)
          BY <3>2 DEF AuthInv, Lockstep
        <4> QED
          BY <4>1 DEF Refused
      <3>3. CASE i = cred
        BY <3>3 DEF Refused, Kind
      <3> QED
        BY <3>1, <3>2, <3>3
    <2> QED
      BY <2>2, <2>3
  <1> QED
    BY <1>2, <1>3, <1>4, <1>5, <1>6 DEF AuthInv

LEMMA InitAuthInv == AuthInit => AuthInv
  <1> SUFFICES ASSUME AuthInit PROVE AuthInv
    OBVIOUS
  <1> USE DEF AuthInit
  <1>1. creds \in Seq(Kinds) /\ Len(creds) \in Nat
    BY AuthAssumption
  <1>2. AuthTypeOK
    <2>1. cred \in 1 .. (Len(creds) + 1)
      BY <1>1
    <2>2. agent \in 0 .. (MaxAgentKeys - 1) /\ prompts \in 0 .. MaxPrompts
      BY AuthAssumption
    <2>3. outcome \in Outcomes
      BY ErrorTypes DEF Verdicts
    <2>4. answered \in [DOMAIN creds -> SUBSET {"success", "failure", "partial"}]
      OBVIOUS
    <2>5. asked \in Seq(DOMAIN creds) /\ replies \in Seq({"success", "failure", "partial", "info"})
      OBVIOUS
    <2> QED
      BY <2>1, <2>2, <2>3, <2>4, <2>5 DEF AuthTypeOK
  <1>3. Phases /\ Heard /\ VerdictIsTrue
    BY DEF Phases, Heard, VerdictIsTrue
  <1>4. Lockstep
    BY DEF Lockstep
  <1> QED
    BY <1>2, <1>3, <1>4 DEF AuthInv

LEMMA StepConnect ==
    ASSUME AuthInv, Connect
    PROVE  AuthInv'
  <1>1. /\ apc = "idle"
        /\ UNCHANGED <<creds, asked, replies, granted, prompts, answered, late>>
    BY DEF Connect
  <1>2. asked' \in Seq(DOMAIN creds) /\ late' \in BOOLEAN
    BY <1>1 DEF AuthInv, AuthTypeOK
  <1>3. ASSUME NEW v \in Outcomes \ Verdicts, Return(v) PROVE AuthInv'
    BY <1>1, <1>2, <1>3, Returned DEF Verdicts
  <1>4. CASE apc' = "try" /\ UNCHANGED <<cred, agent, saw, outcome>>
    <2>1. AuthTypeOK'
      BY <1>1, <1>4 DEF AuthInv, AuthTypeOK
    <2>2. Phases'
      BY <1>1, <1>4 DEF AuthInv, Phases
    <2>3. Heard'
      BY <1>1, <1>4 DEF AuthInv, Heard, SomePartial
    <2>4. VerdictIsTrue'
      BY <1>1, <1>4 DEF AuthInv, VerdictIsTrue
    <2>5. \A i \in DOMAIN creds : ~(i < cred)
      BY <1>1, CredsAre DEF AuthInv, Phases
    <2>6. Lockstep'
      BY <1>1, <1>4, <2>5 DEF AuthInv, Lockstep
    <2> QED
      BY <2>1, <2>2, <2>3, <2>4, <2>6 DEF AuthInv
  <1> QED
    BY <1>3, <1>4, ErrorTypes DEF Connect

(* A credential is given up or its request goes out: by Try at once, or    *)
(* when the agent has answered.                                            *)
LEMMA Requested ==
    ASSUME AuthInv, apc \in {"try", "agent"}, cred <= Len(creds),
           UNCHANGED <<creds, replies, granted, prompts, answered, late>>,
           \/ Return("Unavailable") /\ UNCHANGED asked
           \/ \E n \in 1 .. MaxAgentKeys : Request(n)
    PROVE  AuthInv'
  <1>1. /\ apc \in {"try", "agent"} /\ cred <= Len(creds)
        /\ UNCHANGED <<creds, replies, granted, prompts, answered, late>>
    OBVIOUS
  <1>2. late' \in BOOLEAN /\ asked \in Seq(DOMAIN creds)
    BY <1>1 DEF AuthInv, AuthTypeOK
  <1>3. CASE Return("Unavailable") /\ UNCHANGED asked
    BY <1>1, <1>2, <1>3, Returned, ErrorTypes DEF Verdicts
  <1>5. CASE \E n \in 1 .. MaxAgentKeys : Request(n)
    <2>8. PICK n \in 1 .. MaxAgentKeys : Request(n)
      BY <1>5
    <2>9. /\ apc' = "wait" /\ asked' = Append(asked, cred)
          /\ agent' \in 0 .. (MaxAgentKeys - 1) /\ UNCHANGED <<cred, saw, outcome>>
      BY <2>8, AuthAssumption DEF Request
    <2>1. cred \in DOMAIN creds
      BY <1>1, CredsAre DEF AuthInv
    <2>2. asked' \in Seq(DOMAIN creds')
      BY <1>1, <1>2, <2>1, <2>9
    <2>4. AuthTypeOK'
      BY <1>1, <2>2, <2>9 DEF AuthInv, AuthTypeOK
    <2>5. Phases'
      BY <1>1, <2>9 DEF AuthInv, Phases
    <2>6. Heard' /\ VerdictIsTrue'
      BY <1>1, <2>9 DEF AuthInv, Heard, SomePartial, VerdictIsTrue
    <2>7. Lockstep'
      <3> SUFFICES ASSUME ~late PROVE
               /\ Waits'
               /\ \A i \in DOMAIN creds : i > cred => answered[i] = {}
               /\ \A i \in DOMAIN creds : i < cred => Refused(i)
        BY <1>1, <2>9 DEF Lockstep, Refused
      <3>1. /\ asked = <<>> /\ replies = <<>> /\ ~granted
            /\ \A i \in DOMAIN creds : i >= cred => answered[i] = {}
            /\ \A i \in DOMAIN creds : i < cred => Refused(i)
        BY <1>1 DEF AuthInv, Lockstep
      <3>2. cred >= cred /\ \A i \in DOMAIN creds : i > cred => i >= cred
        BY CredsAre DEF AuthInv
      <3>3. answered[cred] = {}
        BY <2>1, <3>1, <3>2
      <3>4. asked' = <<cred>>
        BY <2>9, <3>1
      <3>5. Waits'
        BY <1>1, <2>9, <3>1, <3>3, <3>4 DEF Waits
      <3> QED
        BY <3>1, <3>2, <3>5
    <2> QED
      BY <2>4, <2>5, <2>6, <2>7 DEF AuthInv
  <1> QED
    BY <1>3, <1>5

LEMMA StepTry ==
    ASSUME AuthInv, Try
    PROVE  AuthInv'
  <1>1. /\ apc = "try" /\ cred <= Len(creds)
        /\ UNCHANGED <<creds, replies, granted, prompts, answered, late>>
    BY DEF Try
  <1>2. 1 \in 1 .. MaxAgentKeys
    BY AuthAssumption
  <1>3. CASE (Return("Unavailable") /\ UNCHANGED asked) \/ Request(1)
    BY <1>1, <1>2, <1>3, Requested
  <1>4. CASE apc' = "agent" /\ UNCHANGED <<cred, agent, saw, outcome, asked>>
    <2>1. AuthTypeOK'
      BY <1>1, <1>4 DEF AuthInv, AuthTypeOK
    <2>2. Phases'
      BY <1>1, <1>4 DEF AuthInv, Phases
    <2>3. Heard' /\ VerdictIsTrue'
      BY <1>1, <1>4 DEF AuthInv, Heard, SomePartial, VerdictIsTrue
    <2>4. Lockstep'
      BY <1>1, <1>4 DEF AuthInv, Lockstep, Refused
    <2> QED
      BY <2>1, <2>2, <2>3, <2>4 DEF AuthInv
  <1> QED
    BY <1>3, <1>4 DEF Try

LEMMA StepAgentAnswers ==
    ASSUME AuthInv, AgentAnswers
    PROVE  AuthInv'
  <1>1. /\ apc = "agent"
        /\ UNCHANGED <<creds, replies, granted, prompts, answered, late>>
        /\ \/ Return("Unavailable") /\ UNCHANGED asked
           \/ \E n \in 1 .. MaxAgentKeys : Request(n)
    BY DEF AgentAnswers
  <1>2. cred <= Len(creds)
    BY <1>1 DEF AuthInv, Phases
  <1> QED
    BY <1>1, <1>2, Requested

LEMMA StepCallEnds ==
    ASSUME AuthInv, AuthTimeOut \/ \E e \in AuthErrors : CallFails(e)
    PROVE  AuthInv'
  <1>1. /\ apc = "wait" /\ late' = TRUE
        /\ UNCHANGED <<creds, asked, replies, granted, prompts, answered>>
    BY DEF AuthTimeOut, CallFails
  <1>2. asked' \in Seq(DOMAIN creds)
    BY <1>1 DEF AuthInv, AuthTypeOK
  <1>3. Skip(FALSE) \/ \E v \in Outcomes \ Verdicts : Return(v)
    <2>1. CASE AuthTimeOut
      BY <2>1, ErrorTypes DEF AuthTimeOut
    <2>2. ASSUME NEW e \in AuthErrors, CallFails(e) PROVE Skip(FALSE) \/ \E v \in Outcomes \ Verdicts : Return(v)
      <3>1. MapAuthError[e] \in Outcomes \ Verdicts /\ "Unavailable" \in Outcomes \ Verdicts
        BY ErrorTypes
      <3> QED
        BY <2>2, <3>1 DEF CallFails
    <2> QED
      BY <2>1, <2>2
  <1>4. CASE Skip(FALSE)
    BY <1>1, <1>2, <1>4, Skipped
  <1>5. ASSUME NEW v \in Outcomes \ Verdicts, Return(v) PROVE AuthInv'
    BY <1>1, <1>2, <1>5, Returned DEF Verdicts
  <1> QED
    BY <1>3, <1>4, <1>5

LEMMA StepExhaust ==
    ASSUME AuthInv, Exhaust
    PROVE  AuthInv'
  <1>1. /\ apc = "try" /\ cred > Len(creds)
        /\ UNCHANGED <<creds, asked, replies, granted, prompts, answered, late>>
    BY DEF Exhaust
  <1>2. asked' \in Seq(DOMAIN creds) /\ late' \in BOOLEAN
    BY <1>1 DEF AuthInv, AuthTypeOK
  <1> DEFINE v == IF saw THEN "Partial" ELSE "Exhausted"
  <1>3. Return(v) /\ v \in Outcomes /\ v # "none" /\ outcome' = v
    BY ErrorTypes DEF Exhaust, Verdicts, Return
  <1>4. \A i \in DOMAIN creds : i < cred
    BY <1>1, CredsAre DEF AuthInv
  <1>5. saw => SomePartial
    BY DEF AuthInv, Heard
  <1>6. ~late => ~granted /\ \A i \in DOMAIN creds : Refused(i)
    BY <1>1, <1>4 DEF AuthInv, Lockstep
  <1>7. VerdictIsTrue'
    BY <1>1, <1>3, <1>5, <1>6 DEF VerdictIsTrue, SomePartial, Refused, Refusals
  <1> QED
    BY <1>1, <1>2, <1>3, <1>7, Returned

LEMMA StepNewSession ==
    ASSUME AuthInv, NewSession
    PROVE  AuthInv'
  <1> USE DEF NewSession
  <1>1. cred = 1 /\ granted
    BY DEF AuthInv, Phases, VerdictIsTrue
  <1>2. AuthTypeOK'
    <2>1. cred' \in 1 .. (Len(creds') + 1) /\ prompts' \in 0 .. MaxPrompts
      BY <1>1, AuthAssumption
    <2>2. /\ asked' \in Seq(DOMAIN creds')
          /\ replies' \in Seq({"success", "failure", "partial", "info"})
      OBVIOUS
    <2>3. answered' \in [DOMAIN creds' -> SUBSET {"success", "failure", "partial"}]
      OBVIOUS
    <2> QED
      BY <2>1, <2>2, <2>3 DEF AuthInv, AuthTypeOK
  <1>4. ~saw
    BY DEF AuthInv, Phases
  <1>3. Phases'
    BY <1>1, <1>4 DEF Phases
  <1>5. Heard'
    BY <1>4 DEF Heard
  <1>6. Lockstep' /\ VerdictIsTrue'
    BY <1>1 DEF Lockstep, VerdictIsTrue
  <1> QED
    BY <1>2, <1>3, <1>5, <1>6 DEF AuthInv

LEMMA StepReceive ==
    ASSUME AuthInv, Receive
    PROVE  AuthInv'
  <1> DEFINE reply == Head(replies)
  <1>1. /\ apc = "wait" /\ replies # <<>> /\ replies' = Tail(replies)
        /\ UNCHANGED <<creds, granted, prompts, answered, late>>
    BY DEF Receive
  <1>2. /\ replies \in Seq(AuthReplies) /\ asked \in Seq(DOMAIN creds)
        /\ late' \in BOOLEAN /\ cred \in DOMAIN creds
    BY <1>1, CredsAre DEF AuthInv, AuthTypeOK, AuthReplies, Phases
  <1>3. 1 \in DOMAIN replies /\ replies[1] = reply /\ reply \in AuthReplies
    BY <1>1, <1>2
  <1>4. (reply = "success" => granted) /\ (reply = "partial" => SomePartial)
    BY <1>3 DEF AuthInv, Heard
  <1>5. ~late => Replied(reply) /\ Tail(replies) = <<>>
    <2> SUFFICES ASSUME ~late PROVE Replied(reply) /\ Tail(replies) = <<>>
      OBVIOUS
    <2>1. PICK r \in AuthReplies : Replied(r)
      BY <1>1 DEF AuthInv, Lockstep, Waits
    <2>2. replies = <<r>>
      BY <2>1 DEF Replied
    <2>3. reply = r /\ Tail(replies) = <<>>
      BY <2>2
    <2> QED
      BY <2>1, <2>3
  <1>6. CASE reply = "success"
    <2>1. Return("ok") /\ asked' = asked
      BY <1>6 DEF Receive, TakeAuthResult, TakeAgentResult, TakeDialogue
    <2>2. VerdictIsTrue'
      BY <1>1, <1>4, <1>6, <2>1 DEF VerdictIsTrue, Return
    <2>3. "ok" \in Outcomes
      BY ErrorTypes DEF Verdicts
    <2> QED
      BY <1>1, <1>2, <2>1, <2>2, <2>3, Returned
  <1>7. CASE /\ reply # "success"
             /\ \/ Kind \in {"agent", "kbd"} /\ Skip(FALSE)
                \/ Kind # "kbd" /\ Skip(reply = "partial")
             /\ asked' = asked
    <2>1. PICK p \in BOOLEAN : /\ Skip(p) /\ (p => reply = "partial")
                               /\ Kind \notin {"agent", "kbd"} => (p <=> reply = "partial")
      BY <1>7
    <2>2. ~late' => /\ asked' = <<>> /\ replies' = <<>> /\ ~granted /\ ~late
                    /\ Kind = "kbd" \/ answered[cred] \cap Refusals # {}
                    /\ ~(saw \/ p) /\ "partial" \in answered[cred] => Kind \in {"kbd", "agent"}
      <3> SUFFICES ASSUME ~late PROVE
               /\ asked = <<>> /\ ~granted
               /\ Kind = "kbd" \/ answered[cred] \cap Refusals # {}
               /\ ~(saw \/ p) /\ "partial" \in answered[cred] => Kind \in {"kbd", "agent"}
        BY <1>1, <1>5, <1>7
      <3>1. Replied(reply)
        BY <1>5
      <3> HIDE DEF reply
      <3>2. asked = <<>> /\ ~granted
        BY <1>7, <3>1 DEF Replied
      <3>3. Kind = "kbd" \/ answered[cred] \cap Refusals # {}
        BY <1>3, <1>7, <3>1 DEF Replied, AuthReplies, Refusals
      <3>4. ~(saw \/ p) /\ "partial" \in answered[cred] => Kind \in {"kbd", "agent"}
        BY <2>1, <3>1 DEF Replied
      <3> QED
        BY <3>2, <3>3, <3>4
    <2> QED
      BY <1>1, <1>2, <1>4, <2>1, <2>2, <1>7, Skipped
  <1>8. CASE /\ reply # "success" /\ Kind \in {"agent", "kbd"}
             /\ asked' = Append(asked, cred)
             /\ agent' = agent \/ (agent # 0 /\ agent' = agent - 1)
             /\ UNCHANGED <<apc, cred, saw, outcome>>
    <2>1. /\ replies' \in Seq(AuthReplies)
          /\ \A i \in DOMAIN replies' : replies'[i] = "success" => granted'
          /\ \A i \in DOMAIN replies' : replies'[i] = "partial" => SomePartial'
      BY <1>1, RepliesTaken
    <2>2. asked' \in Seq(DOMAIN creds')
      BY <1>1, <1>2, <1>8
    <2>3. agent' \in 0 .. (MaxAgentKeys - 1)
      BY <1>8, CredsAre DEF AuthInv, AuthTypeOK
    <2>4. AuthTypeOK'
      BY <1>1, <1>8, <2>1, <2>2, <2>3 DEF AuthInv, AuthTypeOK, AuthReplies
    <2>5. Phases' /\ VerdictIsTrue'
      BY <1>1, <1>8 DEF AuthInv, Phases, VerdictIsTrue
    <2>6. Heard'
      BY <1>1, <1>8, <2>1 DEF AuthInv, Heard, SomePartial
    <2>7. Lockstep'
      <3> SUFFICES ASSUME ~late PROVE
               /\ Waits'
               /\ \A i \in DOMAIN creds : i > cred => answered[i] = {}
               /\ \A i \in DOMAIN creds : i < cred => Refused(i)
        BY <1>1, <1>8 DEF Lockstep, Refused
      <3>1. asked = <<>> /\ ~granted /\ replies' = <<>>
        BY <1>1, <1>5, <1>8 DEF Replied
      <3>2. asked' = <<cred>>
        BY <1>8, <3>1
      <3>3. Waits'
        BY <1>1, <1>8, <3>1, <3>2 DEF Waits, Kind
      <3> QED
        BY <1>1, <3>3 DEF AuthInv, Lockstep
    <2> QED
      BY <2>4, <2>5, <2>6, <2>7 DEF AuthInv
  <1>9. agent \in Nat
    BY CredsAre DEF AuthInv
  <1>10. CASE reply # "success"
    <2>1. CASE Kind \notin {"agent", "kbd"}
      <3>1. TakeAuthResult(reply) /\ asked' = asked
        BY <2>1 DEF Receive
      <3> QED
        BY <1>7, <1>10, <2>1, <3>1 DEF TakeAuthResult
    <2>2. CASE Kind = "agent"
      <3>1. TakeAgentResult(reply) /\ asked' = IF agent > 0 THEN Append(asked, cred) ELSE asked
        BY <1>10, <2>2 DEF Receive
      <3>2. CASE agent = 0
        <4>1. Skip(reply = "partial") /\ asked' = asked
          BY <1>10, <3>1, <3>2 DEF TakeAgentResult
        <4> QED
          BY <1>7, <1>10, <2>2, <4>1
      <3>3. CASE agent > 0
        <4>1. agent' = agent - 1 /\ UNCHANGED <<apc, cred, saw, outcome>> /\ agent # 0
          BY <1>9, <1>10, <3>1, <3>3 DEF TakeAgentResult
        <4> QED
          BY <1>8, <1>10, <2>2, <3>1, <3>3, <4>1
      <3> QED
        BY <1>9, <3>2, <3>3
    <2>3. CASE Kind = "kbd"
      <3>1. TakeDialogue(reply)
        BY <2>3 DEF Receive
      <3>2. asked' = IF reply = "info" /\ apc' = "wait" THEN Append(asked, cred) ELSE asked
        BY <2>3 DEF Receive
      <3>3. CASE Skip(FALSE)
        <4>1. apc' = "try"
          BY <3>3 DEF Skip
        <4>2. asked' = asked
          BY <3>2, <4>1
        <4> QED
          BY <1>7, <1>10, <2>3, <3>3, <4>2
      <3>4. CASE reply = "info" /\ UNCHANGED <<apc, cred, agent, saw, outcome>>
        BY <1>1, <1>8, <1>10, <2>3, <3>2, <3>4
      <3> QED
        BY <1>10, <3>1, <3>3, <3>4 DEF TakeDialogue
    <2> QED
      BY <2>1, <2>2, <2>3
  <1> QED
    BY <1>6, <1>10

LEMMA StepServerAnswers ==
    ASSUME AuthInv, ServerAnswers
    PROVE  AuthInv'
  <1> DEFINE c == Head(asked)
  <1>1. /\ asked # <<>> /\ apc \in {"try", "agent", "wait"} /\ asked' = Tail(asked)
        /\ UNCHANGED <<creds, apc, cred, agent, saw, outcome, late>>
    BY DEF ServerAnswers
  <1>2. /\ asked \in Seq(DOMAIN creds) /\ replies \in Seq(AuthReplies)
        /\ answered \in [DOMAIN creds -> SUBSET Answers]
    BY DEF AuthInv, AuthTypeOK, AuthReplies, Answers
  <1>3. c \in DOMAIN creds /\ asked' \in Seq(DOMAIN creds')
    BY <1>1, <1>2
  <1>4. Phases' /\ outcome = "none"
    BY <1>1 DEF AuthInv, Phases
  <1>5. VerdictIsTrue'
    BY <1>1, <1>4 DEF VerdictIsTrue
  <1>6. ASSUME ~late PROVE /\ apc = "wait" /\ asked = <<cred>> /\ replies = <<>> /\ ~granted
                           /\ Kind \notin {"agent", "kbd"} => answered[cred] = {}
                           /\ c = cred /\ asked' = <<>>
    <2>1. apc = "wait" /\ Waits
      BY <1>1, <1>6 DEF AuthInv, Lockstep, Replied
    <2>2. asked = <<cred>>
      BY <2>1 DEF Waits
    <2>3. Head(asked) = cred /\ Tail(asked) = <<>>
      BY <2>2
    <2> QED
      BY <1>1, <2>1, <2>3 DEF Waits
  <1>7. CASE granted /\ UNCHANGED <<replies, granted, prompts, answered>>
    <2>1. late
      BY <1>6, <1>7
    <2>2. AuthTypeOK'
      BY <1>1, <1>3, <1>7 DEF AuthInv, AuthTypeOK
    <2>3. Heard'
      BY <1>1, <1>7 DEF AuthInv, Heard, SomePartial
    <2>4. Lockstep'
      BY <1>1, <2>1 DEF Lockstep
    <2> QED
      BY <1>4, <1>5, <2>2, <2>3, <2>4 DEF AuthInv
  <1>8. ASSUME ~granted, NEW r \in AuthReplies, replies' = Append(replies, r),
               granted' = (r = "success"),
               prompts' \in 0 .. MaxPrompts,
               answered' = IF r = "info" THEN answered
                           ELSE [answered EXCEPT ![c] = @ \cup {r}],
               r = "info" => creds[c] = "kbd"
        PROVE  AuthInv'
    <2> HIDE DEF c
    <2>1. /\ answered' \in [DOMAIN creds -> SUBSET Answers]
          /\ \A i \in DOMAIN creds : answered[i] \subseteq answered'[i]
          /\ \A i \in DOMAIN creds : i # c => answered'[i] = answered[i]
          /\ answered'[c] = IF r = "info" THEN answered[c] ELSE answered[c] \cup {r}
      <3>1. CASE r = "info"
        BY <1>2, <1>8, <3>1
      <3>2. CASE r # "info"
        <4>1. r \in Answers
          BY <3>2 DEF AuthReplies, Answers
        <4> HIDE DEF Answers
        <4> QED
          BY <1>2, <1>3, <1>8, <3>2, <4>1
      <3> QED
        BY <3>1, <3>2
    <2>2. /\ replies' \in Seq(AuthReplies)
          /\ \A i \in DOMAIN replies' : replies'[i] = r \/ \E j \in DOMAIN replies : replies'[i] = replies[j]
      BY <1>2, <1>8
    <2>3. AuthTypeOK'
      BY <1>1, <1>3, <1>8, <2>1, <2>2 DEF AuthInv, AuthTypeOK, AuthReplies, Answers
    <2>4. SomePartial => SomePartial'
      BY <1>1, <2>1 DEF SomePartial
    <2>5. r = "partial" => SomePartial'
      BY <1>1, <1>3, <2>1 DEF SomePartial
    <2>6. Heard'
      <3>1. \A j \in DOMAIN replies : replies[j] # "success" /\ (replies[j] = "partial" => SomePartial)
        BY <1>8 DEF AuthInv, Heard
      <3>2. saw' => SomePartial'
        BY <1>1, <2>4 DEF AuthInv, Heard
      <3> QED
        BY <1>8, <2>2, <2>4, <2>5, <3>1, <3>2 DEF Heard
    <2>7. Lockstep'
      <3> SUFFICES ASSUME ~late PROVE Lockstep'
        BY <1>1 DEF Lockstep
      <3>1. /\ apc = "wait" /\ replies = <<>> /\ c = cred /\ asked' = <<>>
            /\ Kind \notin {"agent", "kbd"} => answered[cred] = {}
        BY <1>6
      <3>2. \A i \in DOMAIN creds : i \in Nat /\ cred \in Nat
        BY CredsAre DEF AuthInv
      <3>3. replies' = <<r>>
        BY <1>8, <3>1
      <3>4. Replied(r)'
        <4>1. Kind' = Kind /\ answered'[cred'] = answered'[c] /\ Kind = creds[c]
          BY <1>1, <3>1 DEF Kind
        <4>2. granted' <=> r = "success"
          BY <1>8
        <4>3. r \in Refusals => r \in answered'[cred']
          BY <2>1, <4>1 DEF Refusals
        <4>4. r = "info" => Kind' = "kbd"
          BY <1>8, <4>1
        <4>5. Kind' \notin {"agent", "kbd"} => answered'[cred'] = {r}
          BY <1>8, <2>1, <3>1, <4>1, <4>4
        <4> QED
          BY <3>1, <3>3, <4>2, <4>3, <4>4, <4>5 DEF Replied
      <3>5. ASSUME NEW i \in DOMAIN creds, i > cred PROVE answered'[i] = {}
        BY <2>1, <3>1, <3>2, <3>5 DEF AuthInv, Lockstep
      <3>6. ASSUME NEW i \in DOMAIN creds, i < cred PROVE Refused(i)'
        <4>1. i # cred
          BY <3>2, <3>6
        <4>2. Refused(i)
          BY <3>1, <3>6 DEF AuthInv, Lockstep
        <4> QED
          BY <1>1, <2>1, <3>1, <4>1, <4>2 DEF Refused
      <3>7. apc' = "wait" /\ creds' = creds /\ cred' = cred
        BY <1>1, <3>1
      <3>8. Waits' \/ \E x \in AuthReplies : Replied(x)'
        BY <3>4
      <3> QED
        BY <3>5, <3>6, <3>7, <3>8 DEF Lockstep
    <2> QED
      BY <1>4, <1>5, <2>3, <2>6, <2>7 DEF AuthInv
  <1>9. ASSUME ~granted, NEW r \in {"success", "failure", "partial"},
               replies' = Append(replies, r), granted' = (r = "success"),
               answered' = [answered EXCEPT ![c] = @ \cup {r}], UNCHANGED prompts
        PROVE  AuthInv'
    <2>1. prompts' \in 0 .. MaxPrompts
      BY <1>9 DEF AuthInv, AuthTypeOK
    <2>2. r \in AuthReplies /\ r # "info"
      BY <1>9 DEF AuthReplies
    <2> HIDE DEF c
    <2> QED
      BY <1>8, <1>9, <2>1, <2>2
  <1>10. CASE /\ ~granted /\ creds[c] = "kbd" /\ prompts < MaxPrompts
              /\ replies' = Append(replies, "info")
              /\ prompts' = prompts + 1
              /\ UNCHANGED <<granted, answered>>
    <2>1. prompts' \in 0 .. MaxPrompts
      BY <1>10, AuthAssumption DEF AuthInv, AuthTypeOK
    <2>2. "info" \in AuthReplies /\ granted' = FALSE
      BY <1>10 DEF AuthReplies, AuthInv, AuthTypeOK
    <2> HIDE DEF c
    <2>3. granted' = ("info" = "success")
      BY <2>2
    <2> QED
      BY <1>8, <1>10, <2>1, <2>2, <2>3
  <1> QED
    BY <1>7, <1>9, <1>10 DEF ServerAnswers

LEMMA StepAuth ==
    ASSUME AuthInv, [Next]_vars
    PROVE  AuthInv'
  <1>1. CASE UNCHANGED authVars
    BY <1>1 DEF authVars, AuthInv, AuthTypeOK, Phases, Heard, SomePartial, Lockstep,
                Waits, Replied, Refused, Kind, VerdictIsTrue
  <1>2. CASE AuthNext
    BY <1>2, StepConnect, StepTry, StepAgentAnswers, StepReceive, StepCallEnds, StepExhaust, StepNewSession,
       StepServerAnswers DEF AuthNext, AuthStep
  <1> QED
    BY <1>1, <1>2 DEF Next, vars

(* What connect reports is what the server said: a session is given out    *)
(* only to a user that was let in, and no verdict claims a refusal or      *)
(* forgets a partial success, for any list of credentials, any number of   *)
(* agent identities and prompts, and any timing of answers and timeouts.   *)
THEOREM VerdictIsHonest == Spec => []VerdictIsTrue
  <1>1. Init => AuthInv
    BY InitAuthInv DEF Init
  <1>2. AuthInv /\ [Next]_vars => AuthInv'
    BY StepAuth
  <1>3. AuthInv => VerdictIsTrue
    BY DEF AuthInv
  <1> QED
    BY <1>1, <1>2, <1>3, PTL DEF Spec

-----------------------------------------------------------------------------
(* The calls on the session.                                               *)

Places == {"idle", "lock", "open", "loop", "eof", "pty", "env", "start", "done", "gone"}
Quiet == {"idle", "lock", "open", "gone"}
Active == {"open", "loop", "eof", "pty", "env", "start"}
Interactive == {"shell", "subsystem"}
Asks == {"exec", "pty", "env", "shell", "subsystem"}
Wire == Asks \cup {"stdin", "eof", "close"}
CommandLocals == [stdout : 0 .. Limit, stderr : 0 .. Limit,
                  exit : {"missing", "status", "signal"},
                  confirmed : BOOLEAN, stdin_sent : BOOLEAN]

CallTypes(c) ==
    /\ pc[c] \in Places /\ result[c] \in Results
    /\ inbox[c] \in Seq(Messages) /\ got[c] \in Seq(Messages)
    /\ sent[c] \in Seq(Wire)
    /\ open[c] \in BOOLEAN /\ env[c] \in Nat /\ cmd[c] \in CommandLocals

(* A call without a channel has sent and received nothing, and a call that *)
(* has not returned has no result.                                         *)
Fresh(c) ==
    /\ pc[c] \in Quiet =>
          /\ sent[c] = <<>> /\ got[c] = <<>> /\ inbox[c] = <<>>
          /\ open[c] = FALSE /\ cmd[c] = Locals
    /\ pc[c] # "done" => result[c] = "none"

(* Which call can be where.                                                *)
PtyShell(c) == Config[c].op = "shell" /\ Config[c].pty
Roles(c) ==
    /\ pc[c] \in {"loop", "eof"} => Config[c].op = "command"
    /\ pc[c] = "start" => Config[c].op \in Interactive
    /\ pc[c] \in {"pty", "env"} => PtyShell(c)

Has(s, t) == \E i \in DOMAIN s : s[i].t = t
AllReplies(s) == \A i \in DOMAIN s : s[i].t \in Replies

(* exit is the first exit among the messages s.                            *)
ExitIs(s, exit) ==
    \/ exit = "missing" /\ \A i \in DOMAIN s : ~IsExit(s[i])
    \/ \E i \in DOMAIN s : /\ IsExit(s[i]) /\ exit = s[i].t
                           /\ \A j \in DOMAIN s : j < i => ~IsExit(s[j])

(* b bytes of type t are among the messages s: tot[i] is the sum up to i.  *)
Counts(s, t, b) ==
    \E tot \in [0 .. Len(s) -> Nat] :
        /\ tot[0] = 0 /\ tot[Len(s)] = b
        /\ \A i \in 1 .. Len(s) : tot[i] = tot[i - 1] + Weight(s[i], t)

(* stdout and stderr hold what has come, and TooMuch has come when it is   *)
(* more than the limit on one of them.                                     *)
Held(c) == Counts(got[c], "data", cmd[c].stdout) /\ Counts(got[c], "extended", cmd[c].stderr)
TooMuch(c) ==
    \E b \in Nat : b > Limit /\ (Counts(got[c], "data", b) \/ Counts(got[c], "extended", b))

(* A command in its loop has not been refused, has sent stdin if it noted  *)
(* that it did or is about to send the EOF, and only once confirmed.       *)
StdinIsRight(c) ==
    \/ sent[c] \in {<<>>, <<"exec">>, <<"exec", "close">>}
    \/ /\ sent[c] \in {<<"exec", "stdin", "eof">>, <<"exec", "stdin", "eof", "close">>}
       /\ Has(got[c], "success")
    \/ /\ sent[c] = <<"exec", "stdin">>
       /\ Has(got[c], "success") /\ (pc[c] = "eof" \/ ~connected)
InLoop(c) ==
    /\ sent[c] = IF cmd[c].stdin_sent THEN <<"exec", "stdin", "eof">>
                 ELSE IF pc[c] = "eof" THEN <<"exec", "stdin">> ELSE <<"exec">>
    /\ pc[c] = "eof" => ~cmd[c].stdin_sent /\ cmd[c].confirmed
    /\ cmd[c].stdin_sent \/ cmd[c].confirmed => Has(got[c], "success")
    /\ ~Has(got[c], "failure")
    /\ ExitIs(got[c], cmd[c].exit) /\ Held(c)
CommandDone(c) ==
    /\ StdinIsRight(c)
    /\ IF result[c] = "Read" THEN TooMuch(c) ELSE Held(c)
    /\ result[c] = "ok" =>
          /\ Has(got[c], "success") /\ ~Has(got[c], "failure")
          /\ got[c] # <<>> /\ (~connected \/ got[c][Len(got[c])].t = "close")
          /\ ExitIs(got[c], cmd[c].exit)
CommandOK(c) ==
    Config[c].op = "command" =>
        /\ pc[c] \in {"loop", "eof"} => InLoop(c) /\ (open[c] \/ Has(inbox[c], "close"))
        /\ pc[c] = "done" => CommandDone(c)

(* Shell::open has taken a message for each request but the last as long   *)
(* as the connection is up, and one for each when it returns a shell.      *)
PtyGranted(c) == PtyShell(c) => got[c] # <<>> /\ got[c][1].t = "success"
Asking(c) ==
    /\ sent[c] \in Seq(Asks)
    /\ AllReplies(got[c]) /\ (connected \/ pc[c] = "start") =>
          Len(sent[c]) = Len(got[c]) + 1 /\ PtyGranted(c)
ShellDone(c) ==
    result[c] = "ok" /\ AllReplies(got[c]) =>
        /\ sent[c] \in Seq(Asks) /\ Len(sent[c]) = Len(got[c])
        /\ got[c] # <<>> /\ got[c][Len(got[c])].t = "success"
        /\ PtyGranted(c)
ShellOK(c) ==
    Config[c].op \in Interactive =>
        /\ pc[c] = "pty" => sent[c] = <<"pty">> /\ got[c] = <<>>
        /\ pc[c] \in {"env", "start"} => Asking(c)
        /\ pc[c] \in {"pty", "env", "start"} /\ ~open[c] =>
              Has(got[c], "close") \/ Has(inbox[c], "close")
        /\ pc[c] = "done" => ShellDone(c)

CallInv(c) == CallTypes(c) /\ Fresh(c) /\ Roles(c) /\ CommandOK(c) /\ ShellOK(c)

(* The handle is locked by the one call that uses it.                      *)
OneUser ==
    /\ handle \in Calls \cup {Nobody}
    /\ \A c \in Calls : handle = c <=> pc[c] \in Active

(* The variables are functions of the calls.                               *)
OnCalls(f) == f = [c \in Calls |-> f[c]]
Shape ==
    /\ OnCalls(pc) /\ OnCalls(result) /\ OnCalls(inbox) /\ OnCalls(got)
    /\ OnCalls(sent) /\ OnCalls(open) /\ OnCalls(env) /\ OnCalls(cmd)
    /\ connected \in BOOLEAN

SessionInv == Shape /\ OneUser /\ \A c \in Calls : CallInv(c)

(* f becomes g, which differs from it at c only.                           *)
Local(f, g, c) == g = [d \in Calls |-> IF d = c THEN g[c] ELSE f[d]]
OnlyCall(c) ==
    /\ Local(pc, pc', c) /\ Local(result, result', c) /\ Local(inbox, inbox', c)
    /\ Local(got, got', c) /\ Local(sent, sent', c) /\ Local(open, open', c)
    /\ Local(env, env', c) /\ Local(cmd, cmd', c)

LEMMA LocalSame ==
    ASSUME NEW f, OnCalls(f), NEW c \in Calls
    PROVE  Local(f, f, c)
  BY DEF OnCalls, Local

LEMMA LocalIs ==
    ASSUME NEW f, NEW g, NEW c \in Calls, Local(f, g, c)
    PROVE  OnCalls(g) /\ \A d \in Calls \ {c} : g[d] = f[d]
  BY DEF OnCalls, Local

(* What a call has stays right while the others act, and when the          *)
(* connection breaks.                                                      *)
LEMMA Frame ==
    ASSUME NEW c \in Calls, CallInv(c), connected' => connected,
           pc'[c] = pc[c], result'[c] = result[c], inbox'[c] = inbox[c], got'[c] = got[c],
           sent'[c] = sent[c], open'[c] = open[c], env'[c] = env[c], cmd'[c] = cmd[c]
    PROVE  CallInv(c)'
  <1>1. CallTypes(c)'
    BY DEF CallInv, CallTypes
  <1>2. Fresh(c)' /\ Roles(c)'
    BY DEF CallInv, Fresh, Roles, PtyShell
  <1>3. CommandOK(c)'
    BY DEF CallInv, CommandOK, InLoop, CommandDone, StdinIsRight, Held, TooMuch
  <1>4. ShellOK(c)'
    BY DEF CallInv, ShellOK, Asking, ShellDone, PtyGranted, PtyShell
  <1> QED
    BY <1>1, <1>2, <1>3, <1>4 DEF CallInv

(* A step of one call.                                                     *)
LEMMA OneCall ==
    ASSUME SessionInv, NEW c \in Calls, OnlyCall(c), CallInv(c)',
           connected' \in BOOLEAN, connected' => connected,
           \/ handle' = handle /\ (pc'[c] \in Active <=> pc[c] \in Active)
           \/ handle = c /\ handle' = Nobody /\ pc'[c] \notin Active
    PROVE  SessionInv'
  <1>1. Shape'
    BY LocalIs DEF OnlyCall, Shape
  <1>2. ASSUME NEW d \in Calls \ {c} PROVE CallInv(d)' /\ pc'[d] = pc[d]
    <2>1. /\ pc'[d] = pc[d] /\ result'[d] = result[d] /\ inbox'[d] = inbox[d] /\ got'[d] = got[d]
          /\ sent'[d] = sent[d] /\ open'[d] = open[d] /\ env'[d] = env[d] /\ cmd'[d] = cmd[d]
      BY LocalIs DEF OnlyCall
    <2> QED
      BY <2>1, Frame DEF SessionInv
  <1>3. OneUser'
    <2>1. OneUser /\ Nobody \notin Calls
      BY SessionAssumption DEF SessionInv
    <2> HIDE DEF Active
    <2>2. ASSUME NEW d \in Calls PROVE handle' = d <=> pc'[d] \in Active
      BY <1>2, <2>1 DEF OneUser
    <2> QED
      BY <2>1, <2>2 DEF OneUser
  <1> QED
    BY <1>1, <1>2, <1>3 DEF SessionInv

(* The pieces the actions are made of.                                     *)
LEMMA Finished ==
    ASSUME Shape, NEW c \in Calls, NEW r, Finish(c, r)
    PROVE  /\ Local(pc, pc', c) /\ pc'[c] = "done"
           /\ Local(result, result', c) /\ result'[c] = r
           /\ handle' = Nobody
  BY DEF Shape, OnCalls, Local, Finish, Goto

LEMMA Continued ==
    ASSUME Shape, NEW c \in Calls, NEW where, Continue(c, where)
    PROVE  /\ Local(pc, pc', c) /\ pc'[c] = where
           /\ Local(result, result', c) /\ result'[c] = result[c]
           /\ handle' = handle
  BY DEF Shape, OnCalls, Local, Continue, Goto

LEMMA Sent ==
    ASSUME Shape, NEW c \in Calls, NEW what, Send(c, what)
    PROVE  Local(sent, sent', c) /\ sent'[c] = IF connected THEN sent[c] \o what ELSE sent[c]
  BY DEF Shape, OnCalls, Local, Send

LEMMA Taken ==
    ASSUME Shape, NEW c \in Calls, Take(c), CallTypes(c)
    PROVE  /\ Local(inbox, inbox', c) /\ inbox'[c] = Tail(inbox[c])
           /\ Local(got, got', c) /\ got'[c] = Append(got[c], Next_(c))
           /\ Local(open, open', c) /\ open'[c] = open[c] /\ connected' = connected
           /\ inbox'[c] \in Seq(Messages) /\ got'[c] \in Seq(Messages)
           /\ Next_(c) \in Messages
           /\ \A i \in DOMAIN inbox[c] : inbox[c][i] = Next_(c) \/ \E j \in DOMAIN inbox'[c] : inbox'[c][j] = inbox[c][i]
  <1>1. /\ Local(inbox, inbox', c) /\ inbox'[c] = Tail(inbox[c])
        /\ Local(got, got', c) /\ got'[c] = Append(got[c], Next_(c))
        /\ Local(open, open', c) /\ open'[c] = open[c] /\ connected' = connected
    BY DEF Shape, OnCalls, Local, Take
  <1>2. inbox[c] # <<>> /\ inbox[c] \in Seq(Messages) /\ got[c] \in Seq(Messages)
    BY DEF Take, CallTypes
  <1> HIDE DEF Messages
  <1>3. Next_(c) \in Messages
    BY <1>2 DEF Next_
  <1>4. inbox'[c] \in Seq(Messages) /\ got'[c] \in Seq(Messages)
    BY <1>1, <1>2, <1>3
  <1>5. ASSUME NEW i \in DOMAIN inbox[c], i # 1
        PROVE  \E j \in DOMAIN inbox'[c] : inbox'[c][j] = inbox[c][i]
    <2>1. i - 1 \in DOMAIN Tail(inbox[c]) /\ Tail(inbox[c])[i - 1] = inbox[c][i]
      BY <1>2, <1>5
    <2> QED
      BY <1>1, <2>1
  <1>6. Next_(c) = inbox[c][1]
    BY <1>2 DEF Next_
  <1> QED
    BY <1>1, <1>3, <1>4, <1>5, <1>6

LEMMA AppendHas ==
    ASSUME NEW s \in Seq(Messages), NEW m \in Messages
    PROVE  /\ \A t : Has(Append(s, m), t) <=> Has(s, t) \/ m.t = t
           /\ AllReplies(Append(s, m)) <=> AllReplies(s) /\ m.t \in Replies
           /\ Len(Append(s, m)) = Len(s) + 1 /\ Append(s, m) # <<>> /\ Len(s) \in Nat
           /\ Append(s, m)[Len(s) + 1] = m
           /\ s # <<>> => Append(s, m)[1] = s[1]
  <1> HIDE DEF Messages
  <1>1. /\ Len(Append(s, m)) = Len(s) + 1 /\ Len(s) \in Nat /\ DOMAIN s = 1 .. Len(s)
        /\ DOMAIN Append(s, m) = 1 .. (Len(s) + 1)
        /\ \A i \in DOMAIN s : Append(s, m)[i] = s[i]
        /\ Append(s, m)[Len(s) + 1] = m
    OBVIOUS
  <1>2. \A i \in DOMAIN Append(s, m) : i \in DOMAIN s \/ i = Len(s) + 1
    BY <1>1
  <1>3. DOMAIN s \subseteq DOMAIN Append(s, m) /\ Len(s) + 1 \in DOMAIN Append(s, m)
    BY <1>1
  <1> DEFINE a == Append(s, m)
  <1>4. Append(s, m) # <<>> /\ (s # <<>> => 1 \in DOMAIN s)
    BY <1>1
  <1>5. a = Append(s, m)
    OBVIOUS
  <1> HIDE DEF a
  <1>6. \A t : Has(a, t) <=> Has(s, t) \/ m.t = t
    BY <1>1, <1>2, <1>3, <1>5 DEF Has
  <1>7. AllReplies(a) <=> AllReplies(s) /\ m.t \in Replies
    BY <1>1, <1>2, <1>3, <1>5 DEF AllReplies
  <1> QED
    BY <1>1, <1>4, <1>5, <1>6, <1>7

LEMMA AppendExit ==
    ASSUME NEW s \in Seq(Messages), NEW m \in Messages, NEW e, ExitIs(s, e)
    PROVE  /\ ~IsExit(m) => ExitIs(Append(s, m), e)
           /\ e # "missing" => ExitIs(Append(s, m), e)
           /\ e = "missing" /\ IsExit(m) => ExitIs(Append(s, m), m.t)
  <1> HIDE DEF Messages
  <1> DEFINE a == Append(s, m)
  <1>1. /\ Len(s) \in Nat /\ DOMAIN s = 1 .. Len(s) /\ DOMAIN a = 1 .. (Len(s) + 1)
        /\ \A i \in DOMAIN s : a[i] = s[i]
        /\ a[Len(s) + 1] = m
    OBVIOUS
  <1> HIDE DEF a
  <1>2. \A i \in DOMAIN a : i \in DOMAIN s \/ i = Len(s) + 1
    BY <1>1
  <1>3. /\ DOMAIN s \subseteq DOMAIN a /\ Len(s) + 1 \in DOMAIN a
        /\ \A i \in DOMAIN s : ~(Len(s) + 1 < i)
        /\ \A i \in DOMAIN a : i < Len(s) + 1 => i \in DOMAIN s
    BY <1>1
  <1>4. CASE \E i \in DOMAIN s : IsExit(s[i]) /\ e = s[i].t /\ \A j \in DOMAIN s : j < i => ~IsExit(s[j])
    <2>1. PICK i \in DOMAIN s : IsExit(s[i]) /\ e = s[i].t /\ \A j \in DOMAIN s : j < i => ~IsExit(s[j])
      BY <1>4
    <2>2. \A j \in DOMAIN a : j < i => ~IsExit(a[j])
      BY <1>1, <1>2, <1>3, <2>1
    <2>3. ExitIs(a, e)
      BY <1>1, <1>3, <2>1, <2>2 DEF ExitIs
    <2>4. e # "missing"
      BY <2>1 DEF IsExit
    <2> QED
      BY <2>3, <2>4 DEF a
  <1>5. CASE e = "missing" /\ \A i \in DOMAIN s : ~IsExit(s[i])
    <2>1. CASE IsExit(m)
      <3>1. \A j \in DOMAIN a : j < Len(s) + 1 => ~IsExit(a[j])
        BY <1>1, <1>3, <1>5
      <3>2. ExitIs(a, m.t)
        BY <1>1, <1>3, <2>1, <3>1 DEF ExitIs
      <3> QED
        BY <1>5, <2>1, <3>2 DEF a
    <2>2. CASE ~IsExit(m)
      <3>1. \A j \in DOMAIN a : ~IsExit(a[j])
        BY <1>1, <1>2, <1>5, <2>2
      <3>2. ExitIs(a, e)
        BY <1>5, <3>1 DEF ExitIs
      <3> QED
        BY <1>5, <2>2, <3>2 DEF a
    <2> QED
      BY <2>1, <2>2
  <1> QED
    BY <1>4, <1>5 DEF ExitIs

LEMMA NothingCounts == \A t : Counts(<<>>, t, 0)
  <1> SUFFICES ASSUME NEW t PROVE Counts(<<>>, t, 0)
    OBVIOUS
  <1> DEFINE tot == [i \in 0 .. 0 |-> 0]
  <1>1. Len(<<>>) = 0 /\ tot \in [0 .. 0 -> Nat] /\ tot[0] = 0 /\ 1 .. 0 = {}
    OBVIOUS
  <1> HIDE DEF tot
  <1> QED
    BY <1>1 DEF Counts

LEMMA AppendCounts ==
    ASSUME NEW s \in Seq(Messages), NEW m \in Messages, NEW t, NEW b \in Nat, Counts(s, t, b)
    PROVE  Counts(Append(s, m), t, b + Weight(m, t))
  <1> DEFINE a == Append(s, m)
             n == Len(s)
             x == Weight(m, t)
  <1>1. x \in Nat
    BY DEF Messages, Weight
  <1>2. /\ n \in Nat /\ Len(a) = n + 1 /\ a[n + 1] = m
        /\ \A i \in 1 .. n : a[i] = s[i]
    <2> HIDE DEF Messages
    <2> QED
      OBVIOUS
  <1>3. PICK tot \in [0 .. n -> Nat] :
            /\ tot[0] = 0 /\ tot[n] = b
            /\ \A i \in 1 .. n : tot[i] = tot[i - 1] + Weight(s[i], t)
    BY DEF Counts
  <1> DEFINE sum == [i \in 0 .. (n + 1) |-> IF i = n + 1 THEN b + x ELSE tot[i]]
  <1> HIDE DEF a, n, x
  <1>4. sum \in [0 .. (n + 1) -> Nat]
    BY <1>1, <1>2, <1>3
  <1>5. sum[0] = 0 /\ sum[n + 1] = b + x
    BY <1>2, <1>3
  <1>6. ASSUME NEW i \in 1 .. (n + 1)
        PROVE  sum[i] = sum[i - 1] + Weight(a[i], t)
    <2>1. CASE i = n + 1
      <3>1. sum[i] = b + x /\ sum[i - 1] = tot[n]
        BY <1>2, <2>1
      <3> QED
        BY <1>2, <1>3, <2>1, <3>1 DEF x
    <2>2. CASE i # n + 1
      <3>1. i \in 1 .. n /\ i - 1 \in 0 .. n
        BY <1>2, <2>2
      <3>2. sum[i] = tot[i] /\ sum[i - 1] = tot[i - 1]
        BY <1>2, <3>1
      <3> QED
        BY <1>2, <1>3, <3>1, <3>2
    <2> QED
      BY <2>1, <2>2
  <1> HIDE DEF sum
  <1>7. Counts(a, t, b + x)
    BY <1>2, <1>4, <1>5, <1>6 DEF Counts
  <1> QED
    BY <1>7 DEF a, x

LEMMA ResultTypes ==
    /\ \A e \in OpenErrors : MapChannelOpenError[e] \in Results \ {"none", "ok", "Read"}
    /\ \A e \in SendErrors : MapCommandError[e] \in Results \ {"none", "ok", "Read"}
    /\ \A e \in SendErrors : MapShellError[e] \in Results \ {"none", "ok", "Read"}
    /\ {"none", "ok", "Read", "Protocol", "Write", "Ssh", "Request", "Disconnected"} \subseteq Results
  <1>1. MapChannelOpenError["RequestDenied"] = "Request" /\ MapChannelOpenError["Disconnect"] = "Disconnected"
    BY DEF MapChannelOpenError, OpenErrors
  <1>2. \A e \in OpenErrors : MapChannelOpenError[e] \in Results
    BY DEF Results
  <1>3. \A e \in OpenErrors : MapChannelOpenError[e] \notin {"none", "ok", "Read"}
    BY DEF MapChannelOpenError, OpenErrors
  <1>4. "RequestDenied" \in OpenErrors /\ "Disconnect" \in OpenErrors
    BY DEF OpenErrors
  <1>5. {"none", "ok", "Read", "Protocol", "Write", "Ssh"} \subseteq Results
    BY DEF Results
  <1>6. "Request" \in Results /\ "Disconnected" \in Results
    BY <1>1, <1>2, <1>4
  <1>7. \A e \in SendErrors : MapCommandError[e] \in {"Write", "Disconnected"} /\ MapShellError[e] \in {"Write", "Disconnected"}
    BY DEF MapCommandError, MapShellError, SendErrors
  <1> QED
    BY <1>2, <1>3, <1>5, <1>6, <1>7

LEMMA InitSession == Init => SessionInv
  <1> SUFFICES ASSUME Init PROVE SessionInv
    OBVIOUS
  <1>1. Shape
    BY DEF Init, Shape, OnCalls
  <1>2. OneUser
    BY SessionAssumption DEF Init, OneUser, Active
  <1>3. ASSUME NEW c \in Calls PROVE CallInv(c)
    <2>1. /\ pc[c] = "idle" /\ result[c] = "none" /\ inbox[c] = <<>> /\ got[c] = <<>>
          /\ sent[c] = <<>> /\ open[c] = FALSE /\ env[c] = Config[c].env /\ cmd[c] = Locals
      BY DEF Init
    <2>2. Config[c].env \in Nat /\ Locals \in CommandLocals
      BY SessionAssumption DEF Locals, CommandLocals
    <2>3. "none" \in Results /\ "idle" \in Places
      BY ResultTypes DEF Places
    <2>4. CallTypes(c)
      <3> HIDE DEF Messages, Results, Places, CommandLocals
      <3>1. inbox[c] \in Seq(Messages) /\ got[c] \in Seq(Messages) /\ sent[c] \in Seq(Wire)
        BY <2>1
      <3> QED
        BY <2>1, <2>2, <2>3, <3>1 DEF CallTypes
    <2> QED
      BY <2>1, <2>4 DEF CallInv, Fresh, Roles, CommandOK, ShellOK
  <1> QED
    BY <1>1, <1>2, <1>3 DEF SessionInv

-----------------------------------------------------------------------------
(* Opening a channel.                                                      *)

LEMMA StepCall ==
    ASSUME SessionInv, NEW c \in Calls, Call(c)
    PROVE  SessionInv'
  <1>1. /\ pc[c] = "idle" /\ Continue(c, "lock") /\ Shape /\ CallInv(c)
        /\ UNCHANGED <<connected, inbox, got, sent, open, env, cmd>>
    BY DEF Call, SessionInv
  <1>2. /\ Local(pc, pc', c) /\ pc'[c] = "lock"
        /\ Local(result, result', c) /\ result'[c] = result[c] /\ handle' = handle
    BY <1>1, Continued
  <1>3. OnlyCall(c)
    BY <1>1, <1>2, LocalSame DEF Shape, OnlyCall
  <1>4. CallTypes(c)'
    BY <1>1, <1>2 DEF CallInv, CallTypes, Places
  <1>5. Fresh(c)' /\ Roles(c)' /\ CommandOK(c)' /\ ShellOK(c)'
    BY <1>1, <1>2 DEF CallInv, Fresh, Roles, CommandOK, ShellOK, Quiet
  <1>6. pc'[c] \notin Active /\ pc[c] \notin Active
    BY <1>1, <1>2 DEF Active
  <1> QED
    BY <1>1, <1>2, <1>3, <1>4, <1>5, <1>6, OneCall DEF CallInv, Shape

LEMMA StepLock ==
    ASSUME SessionInv, NEW c \in Calls, Lock(c)
    PROVE  SessionInv'
  <1> DEFINE Kept(f, init) == [d \in Calls |-> IF pc[d] = "done" THEN init ELSE f[d]]
  <1>1. /\ pc[c] = "lock" /\ handle = Nobody /\ handle' = c /\ connected' = connected
        /\ pc' = [d \in Calls |-> IF d = c THEN "open" ELSE IF pc[d] = "done" THEN "gone" ELSE pc[d]]
        /\ result' = Kept(result, "none")
        /\ inbox' = Kept(inbox, <<>>) /\ got' = Kept(got, <<>>) /\ sent' = Kept(sent, <<>>)
        /\ open' = Kept(open, FALSE) /\ env' = Kept(env, 0) /\ cmd' = Kept(cmd, Locals)
    BY DEF Lock
  <1>2. Shape'
    BY <1>1 DEF Shape, OnCalls, SessionInv
  <1>3. ASSUME NEW d \in Calls, pc[d] = "done" PROVE CallInv(d)' /\ pc'[d] = "gone"
    <2>1. /\ pc'[d] = "gone" /\ result'[d] = "none" /\ inbox'[d] = <<>> /\ got'[d] = <<>>
          /\ sent'[d] = <<>> /\ open'[d] = FALSE /\ env'[d] = 0 /\ cmd'[d] = Locals
      BY <1>1, <1>3
    <2>2. Locals \in CommandLocals /\ "none" \in Results /\ "gone" \in Places
      BY SessionAssumption, ResultTypes DEF Locals, CommandLocals, Places
    <2>3. CallTypes(d)'
      <3> HIDE DEF Messages, Results, Places, CommandLocals
      <3>1. inbox'[d] \in Seq(Messages) /\ got'[d] \in Seq(Messages) /\ sent'[d] \in Seq(Wire)
        BY <2>1
      <3>2. env'[d] \in Nat
        BY <2>1
      <3>3. open'[d] \in BOOLEAN
        BY <2>1
      <3> QED
        BY <2>1, <2>2, <3>1, <3>2, <3>3 DEF CallTypes
    <2> QED
      BY <2>1, <2>3 DEF CallInv, Fresh, Roles, CommandOK, ShellOK
  <1>4. ASSUME NEW d \in Calls, pc[d] # "done"
        PROVE  /\ result'[d] = result[d] /\ inbox'[d] = inbox[d] /\ got'[d] = got[d]
               /\ sent'[d] = sent[d] /\ open'[d] = open[d] /\ env'[d] = env[d] /\ cmd'[d] = cmd[d]
    BY <1>1, <1>4
  <1>5. ASSUME NEW d \in Calls, pc[d] # "done", d # c PROVE CallInv(d)' /\ pc'[d] = pc[d]
    <2>1. pc'[d] = pc[d] /\ CallInv(d)
      BY <1>1, <1>5 DEF SessionInv
    <2> QED
      BY <1>1, <1>4, <1>5, <2>1, Frame
  <1>6. CallInv(c)' /\ pc'[c] = "open"
    <2>1. CallInv(c) /\ pc'[c] = "open" /\ pc[c] # "done"
      BY <1>1 DEF SessionInv
    <2>2. CallTypes(c)'
      BY <1>4, <2>1 DEF CallInv, CallTypes, Places
    <2>3. Fresh(c)' /\ Roles(c)' /\ CommandOK(c)' /\ ShellOK(c)'
      BY <1>1, <1>4, <2>1 DEF CallInv, Fresh, Roles, CommandOK, ShellOK, Quiet
    <2> QED
      BY <2>1, <2>2, <2>3 DEF CallInv
  <1>7. OneUser'
    <2>1. \A d \in Calls : pc[d] \notin Active
      BY <1>1, SessionAssumption DEF SessionInv, OneUser
    <2>2. "open" \in Active /\ "gone" \notin Active
      BY DEF Active
    <2> HIDE DEF Active
    <2> QED
      BY <1>1, <1>3, <1>5, <1>6, <2>1, <2>2 DEF OneUser
  <1> QED
    BY <1>2, <1>3, <1>5, <1>6, <1>7 DEF SessionInv

LEMMA StepOpenFails ==
    ASSUME SessionInv, NEW c \in Calls, OpenFails(c) \/ Disconnect(c)
    PROVE  SessionInv'
  <1>1. /\ pc[c] = "open" /\ Shape /\ CallInv(c) /\ handle = c
        /\ UNCHANGED <<inbox, got, sent, open, env, cmd>>
    BY DEF OpenFails, Disconnect, SessionInv, OneUser, Active
  <1>2. PICK r \in Results : /\ Finish(c, r)
                             /\ r \notin {"none", "ok", "Read"} \/ Config[c].op = "disconnect"
    <2>1. CASE OpenFails(c)
      BY <2>1, ResultTypes DEF OpenFails
    <2>2. CASE Disconnect(c)
      BY <2>2, ResultTypes DEF Disconnect
    <2> QED
      BY <2>1, <2>2
  <1>3. connected' \in BOOLEAN /\ (connected' => connected)
    <2>1. connected \in BOOLEAN
      BY <1>1 DEF Shape
    <2>2. CASE connected' = connected
      BY <2>1, <2>2
    <2>3. CASE connected' = FALSE
      BY <2>3
    <2> QED
      BY <2>2, <2>3 DEF OpenFails, Disconnect
  <1>4. /\ Local(pc, pc', c) /\ pc'[c] = "done"
        /\ Local(result, result', c) /\ result'[c] = r /\ handle' = Nobody
    BY <1>1, <1>2, Finished
  <1>5. OnlyCall(c)
    BY <1>1, <1>4, LocalSame DEF Shape, OnlyCall
  <1>6. CallTypes(c)'
    BY <1>1, <1>4 DEF CallInv, CallTypes, Places
  <1>7. sent'[c] = <<>>
    BY <1>1 DEF CallInv, Fresh, Quiet
  <1>8. Fresh(c)' /\ Roles(c)'
    BY <1>4 DEF Fresh, Roles, Quiet
  <1>9. CommandOK(c)' /\ ShellOK(c)'
    <2>1. Held(c)'
      BY <1>1, NothingCounts DEF CallInv, Fresh, Quiet, Held, Locals
    <2> QED
      BY <1>2, <1>4, <1>7, <2>1 DEF CommandOK, ShellOK, CommandDone, ShellDone, StdinIsRight, Interactive
  <1>10. pc'[c] \notin Active
    BY <1>4 DEF Active
  <1> QED
    BY <1>1, <1>3, <1>4, <1>5, <1>6, <1>8, <1>9, <1>10, OneCall DEF CallInv

LEMMA StepOpened ==
    ASSUME SessionInv, NEW c \in Calls, Opened(c)
    PROVE  SessionInv'
  <1> DEFINE first == IF PtyShell(c) THEN "pty" ELSE StartRequest(c)
             where == IF PtyShell(c) THEN "pty" ELSE Waiting(c)
  <1>1. /\ pc[c] = "open" /\ Config[c].op # "disconnect" /\ connected /\ Shape /\ CallInv(c)
        /\ open' = [open EXCEPT ![c] = TRUE]
        /\ Send(c, <<first>>) /\ Continue(c, where)
        /\ UNCHANGED <<connected, inbox, got, env, cmd>>
    BY DEF Opened, SessionInv, PtyShell
  <1>2. /\ Local(pc, pc', c) /\ pc'[c] = where
        /\ Local(result, result', c) /\ result'[c] = result[c] /\ handle' = handle
    BY <1>1, Continued
  <1>3. Config[c].op \in Ops
    BY SessionAssumption
  <1>4. Fresh(c) /\ sent[c] = <<>> /\ got[c] = <<>> /\ inbox[c] = <<>> /\ cmd[c] = Locals /\ result[c] = "none"
    BY <1>1 DEF CallInv, Fresh, Quiet
  <1>5. Local(sent, sent', c) /\ sent'[c] = sent[c] \o <<first>>
    BY <1>1, Sent
  <1>6. sent'[c] = <<first>> /\ sent'[c] \in Seq(Asks) /\ first \in Asks
    <2>1. first \in Asks
      BY <1>1, <1>3 DEF Ops, StartRequest, Asks
    <2> HIDE DEF first
    <2> QED
      BY <1>4, <1>5, <2>1
  <1>7. Local(open, open', c) /\ open'[c] = TRUE
    BY <1>1 DEF Shape, OnCalls, Local
  <1>8. OnlyCall(c)
    BY <1>1, <1>2, <1>5, <1>7, LocalSame DEF Shape, OnlyCall
  <1>9. /\ where \in {"pty", "loop", "start"}
        /\ where = "pty" => PtyShell(c) /\ first = "pty"
        /\ where = "loop" => Config[c].op = "command" /\ first = "exec"
        /\ where = "start" => Config[c].op \in Interactive /\ ~PtyShell(c)
    BY <1>1, <1>3 DEF Ops, StartRequest, Waiting, Interactive, PtyShell
  <1> HIDE DEF first, where
  <1>10. CallTypes(c)'
    <2>1. sent'[c] \in Seq(Wire)
      <3>1. first \in Wire
        BY <1>6 DEF Wire
      <3> HIDE DEF Wire
      <3> QED
        BY <1>6, <3>1
    <2>2. where \in Places
      BY <1>9 DEF Places
    <2> QED
      BY <1>1, <1>2, <1>7, <2>1, <2>2 DEF CallInv, CallTypes
  <1>11. Fresh(c)' /\ Roles(c)'
    BY <1>2, <1>4, <1>9 DEF Fresh, Roles, Quiet, PtyShell
  <1>12. got'[c] = <<>> /\ cmd'[c] = Locals
    BY <1>1, <1>4
  <1>13. CommandOK(c)'
    <2>1. ASSUME where = "loop" PROVE InLoop(c)'
      <3>1. sent'[c] = <<"exec">>
        BY <1>6, <1>9, <2>1
      <3>2. DOMAIN got'[c] = {}
        BY <1>12
      <3>3. Held(c)'
        BY <1>12, NothingCounts DEF Held, Locals
      <3> QED
        BY <1>2, <1>12, <2>1, <3>1, <3>2, <3>3 DEF InLoop, Locals, Has, ExitIs
    <2> QED
      BY <1>2, <1>7, <1>9, <2>1 DEF CommandOK
  <1>14. ShellOK(c)'
    <2>1. ASSUME where = "start" PROVE Asking(c)'
      <3>1. Len(sent'[c]) = Len(got'[c]) + 1
        BY <1>6, <1>12
      <3> QED
        BY <1>6, <1>9, <2>1, <3>1 DEF Asking, PtyGranted, PtyShell
    <2> QED
      BY <1>2, <1>6, <1>7, <1>9, <1>12, <2>1 DEF ShellOK
  <1>15. pc'[c] \in Active /\ pc[c] \in Active
    BY <1>1, <1>2, <1>9 DEF Active
  <1> QED
    BY <1>1, <1>2, <1>8, <1>10, <1>11, <1>13, <1>14, <1>15, OneCall DEF CallInv, Shape

-----------------------------------------------------------------------------
(* Waiting for a message.                                                  *)

LEMMA Waited ==
    ASSUME Shape, NEW c \in Calls, CallTypes(c), Take(c) \/ Ended(c)
    PROVE  /\ Local(inbox, inbox', c) /\ Local(got, got', c)
           /\ Local(open, open', c) /\ open'[c] = open[c] /\ connected' = connected
           /\ inbox'[c] \in Seq(Messages) /\ got'[c] \in Seq(Messages)
           /\ \A t : Has(got[c], t) => Has(got'[c], t)
           /\ \A t : Has(inbox[c], t) => Has(inbox'[c], t) \/ Has(got'[c], t)
  <1>1. CASE Take(c)
    <2>1. /\ Local(inbox, inbox', c) /\ Local(got, got', c) /\ got'[c] = Append(got[c], Next_(c))
          /\ Local(open, open', c) /\ open'[c] = open[c] /\ connected' = connected
          /\ inbox'[c] \in Seq(Messages) /\ got'[c] \in Seq(Messages)
          /\ Next_(c) \in Messages
          /\ \A i \in DOMAIN inbox[c] : inbox[c][i] = Next_(c) \/ \E j \in DOMAIN inbox'[c] : inbox'[c][j] = inbox[c][i]
      BY <1>1, Taken
    <2>2. got[c] \in Seq(Messages)
      BY DEF CallTypes
    <2>3. \A t : Has(got'[c], t) <=> Has(got[c], t) \/ Next_(c).t = t
      BY <2>1, <2>2, AppendHas
    <2>4. ASSUME NEW t, Has(inbox[c], t) PROVE Has(inbox'[c], t) \/ Has(got'[c], t)
      <3>1. PICK i \in DOMAIN inbox[c] : inbox[c][i].t = t
        BY <2>4 DEF Has
      <3>2. CASE inbox[c][i] = Next_(c)
        BY <2>3, <3>1, <3>2
      <3>3. CASE \E j \in DOMAIN inbox'[c] : inbox'[c][j] = inbox[c][i]
        BY <3>1, <3>3 DEF Has
      <3> QED
        BY <2>1, <3>2, <3>3
    <2> QED
      BY <2>1, <2>3, <2>4
  <1>2. CASE Ended(c)
    <2>1. inbox' = inbox /\ got' = got /\ open' = open /\ connected' = connected
      BY <1>2 DEF Ended
    <2>2. inbox[c] \in Seq(Messages) /\ got[c] \in Seq(Messages)
      BY DEF CallTypes
    <2> QED
      BY <2>1, <2>2, LocalSame DEF Shape
  <1> QED
    BY <1>1, <1>2

-----------------------------------------------------------------------------
(* Session::command.                                                       *)

LEMMA Join ==
    ASSUME NEW s \in Seq(Wire), NEW t \in Seq(Wire), NEW u \in Seq(Wire),
           Len(u) = Len(s) + Len(t), \A i \in 1 .. Len(s) : u[i] = s[i],
           \A i \in 1 .. Len(t) : u[i + Len(s)] = t[i]
    PROVE  s \o t = u
  <1> HIDE DEF Wire
  <1>1. s \o t \in Seq(Wire) /\ Len(s \o t) = Len(u)
    BY ConcatProperties
  <1>2. \A i \in 1 .. Len(u) : (s \o t)[i] = IF i <= Len(s) THEN s[i] ELSE t[i - Len(s)]
    BY ConcatProperties
  <1>3. ASSUME NEW i \in 1 .. Len(u) PROVE (s \o t)[i] = u[i]
    <2>1. CASE i <= Len(s)
      BY <1>2, <2>1
    <2>2. CASE ~(i <= Len(s))
      <3>1. i - Len(s) \in 1 .. Len(t) /\ (i - Len(s)) + Len(s) = i
        BY <2>2
      <3> QED
        BY <1>2, <2>2, <3>1
    <2> QED
      BY <2>1, <2>2
  <1> QED
    BY <1>1, <1>3, SeqEqual

(* What a command can have sent.                                           *)
LEMMA Scripts ==
    /\ <<"exec">> \o <<"close">> = <<"exec", "close">>
    /\ <<"exec">> \o <<"stdin">> = <<"exec", "stdin">>
    /\ <<"exec", "stdin">> \o <<"eof">> = <<"exec", "stdin", "eof">>
    /\ <<"exec", "stdin", "eof">> \o <<"close">> = <<"exec", "stdin", "eof", "close">>
  <1>1. <<"exec">> \o <<"close">> = <<"exec", "close">>
    <2> DEFINE s == <<"exec">>
               t == <<"close">>
               u == <<"exec", "close">>
    <2>1. s \in Seq(Wire) /\ t \in Seq(Wire) /\ u \in Seq(Wire)
      BY DEF Wire, Asks
    <2>2. Len(s) = 1 /\ Len(t) = 1 /\ Len(u) = 2
      OBVIOUS
    <2>3. (\A i \in 1 .. 1 : i = 1) /\ (\A i \in 1 .. 1 : i = 1)
      OBVIOUS
    <2>4. (\A i \in 1 .. Len(s) : u[i] = s[i]) /\ Len(u) = Len(s) + Len(t)
      BY <2>2, <2>3
    <2>5. \A i \in 1 .. Len(t) : u[i + Len(s)] = t[i]
      BY <2>2, <2>3
    <2> HIDE DEF s, t, u
    <2>6. s \o t = u
      BY <2>1, <2>4, <2>5, Join
    <2> QED
      BY <2>6 DEF s, t, u
  <1>4. <<"exec">> \o <<"stdin">> = <<"exec", "stdin">>
    <2> DEFINE s == <<"exec">>
               t == <<"stdin">>
               u == <<"exec", "stdin">>
    <2>1. s \in Seq(Wire) /\ t \in Seq(Wire) /\ u \in Seq(Wire)
      BY DEF Wire, Asks
    <2>2. Len(s) = 1 /\ Len(t) = 1 /\ Len(u) = 2
      OBVIOUS
    <2>3. (\A i \in 1 .. 1 : i = 1) /\ (\A i \in 1 .. 1 : i = 1)
      OBVIOUS
    <2>4. (\A i \in 1 .. Len(s) : u[i] = s[i]) /\ Len(u) = Len(s) + Len(t)
      BY <2>2, <2>3
    <2>5. \A i \in 1 .. Len(t) : u[i + Len(s)] = t[i]
      BY <2>2, <2>3
    <2> HIDE DEF s, t, u
    <2>6. s \o t = u
      BY <2>1, <2>4, <2>5, Join
    <2> QED
      BY <2>6 DEF s, t, u
  <1>2. <<"exec", "stdin">> \o <<"eof">> = <<"exec", "stdin", "eof">>
    <2> DEFINE s == <<"exec", "stdin">>
               t == <<"eof">>
               u == <<"exec", "stdin", "eof">>
    <2>1. s \in Seq(Wire) /\ t \in Seq(Wire) /\ u \in Seq(Wire)
      BY DEF Wire, Asks
    <2>2. Len(s) = 2 /\ Len(t) = 1 /\ Len(u) = 3
      OBVIOUS
    <2>3. (\A i \in 1 .. 2 : i = 1 \/ i = 2) /\ (\A i \in 1 .. 1 : i = 1)
      OBVIOUS
    <2>4. (\A i \in 1 .. Len(s) : u[i] = s[i]) /\ Len(u) = Len(s) + Len(t)
      BY <2>2, <2>3
    <2>5. \A i \in 1 .. Len(t) : u[i + Len(s)] = t[i]
      BY <2>2, <2>3
    <2> HIDE DEF s, t, u
    <2>6. s \o t = u
      BY <2>1, <2>4, <2>5, Join
    <2> QED
      BY <2>6 DEF s, t, u
  <1>3. <<"exec", "stdin", "eof">> \o <<"close">> = <<"exec", "stdin", "eof", "close">>
    <2> DEFINE s == <<"exec", "stdin", "eof">>
               t == <<"close">>
               u == <<"exec", "stdin", "eof", "close">>
    <2>1. s \in Seq(Wire) /\ t \in Seq(Wire) /\ u \in Seq(Wire)
      BY DEF Wire, Asks
    <2>2. Len(s) = 3 /\ Len(t) = 1 /\ Len(u) = 4
      OBVIOUS
    <2>3. (\A i \in 1 .. 3 : i = 1 \/ i = 2 \/ i = 3) /\ (\A i \in 1 .. 1 : i = 1)
      OBVIOUS
    <2>4. (\A i \in 1 .. Len(s) : u[i] = s[i]) /\ Len(u) = Len(s) + Len(t)
      BY <2>2, <2>3
    <2>5. \A i \in 1 .. Len(t) : u[i + Len(s)] = t[i]
      BY <2>2, <2>3
    <2> HIDE DEF s, t, u
    <2>6. s \o t = u
      BY <2>1, <2>4, <2>5, Join
    <2> QED
      BY <2>6 DEF s, t, u
  <1> QED
    BY <1>1, <1>2, <1>3, <1>4

(* The loop goes on after a message that is not Close, or after the EOF.   *)
Stays(c) == UNCHANGED <<inbox, got, connected, open>>

LEMMA Stayed ==
    ASSUME Shape, NEW c \in Calls, CallTypes(c), Stays(c)
    PROVE  /\ Local(inbox, inbox', c) /\ Local(got, got', c)
           /\ Local(open, open', c) /\ open'[c] = open[c] /\ connected' = connected
           /\ inbox'[c] \in Seq(Messages) /\ got'[c] \in Seq(Messages)
  BY LocalSame DEF Shape, Stays, CallTypes

LEMMA LoopStays ==
    ASSUME SessionInv, NEW c \in Calls, NEW where \in {"loop", "eof"}, Continue(c, where),
           pc[c] \in {"loop", "eof"}, (Take(c) /\ Next_(c).t # "close") \/ Stays(c),
           UNCHANGED env, Local(sent, sent', c), Local(cmd, cmd', c),
           sent'[c] \in Seq(Wire), cmd'[c] \in CommandLocals, InLoop(c)'
    PROVE  SessionInv'
  <1>1. Shape /\ CallInv(c) /\ CallTypes(c) /\ Config[c].op = "command"
    BY DEF SessionInv, CallInv, Roles
  <1>2. /\ Local(inbox, inbox', c) /\ Local(got, got', c)
        /\ Local(open, open', c) /\ open'[c] = open[c] /\ connected' = connected
        /\ inbox'[c] \in Seq(Messages) /\ got'[c] \in Seq(Messages)
    BY <1>1, Waited, Stayed
  <1>7. open'[c] \/ Has(inbox'[c], "close")
    <2>1. open[c] \/ Has(inbox[c], "close")
      BY <1>1 DEF CallInv, CommandOK
    <2>2. CASE Take(c) /\ Next_(c).t # "close"
      <3>1. \A i \in DOMAIN inbox[c] :
                inbox[c][i] = Next_(c) \/ \E j \in DOMAIN inbox'[c] : inbox'[c][j] = inbox[c][i]
        BY <1>1, <2>2, Taken
      <3> QED
        BY <1>2, <2>1, <2>2, <3>1 DEF Has
    <2>3. CASE Stays(c)
      BY <2>1, <2>3 DEF Stays
    <2> QED
      BY <2>2, <2>3
  <1>3. /\ Local(pc, pc', c) /\ pc'[c] = where
        /\ Local(result, result', c) /\ result'[c] = result[c] /\ handle' = handle
    BY <1>1, Continued
  <1>4. OnlyCall(c)
    BY <1>1, <1>2, <1>3, LocalSame DEF Shape, OnlyCall
  <1>5. CallTypes(c)'
    BY <1>1, <1>2, <1>3 DEF CallTypes, Places
  <1>6. Fresh(c)' /\ Roles(c)' /\ CommandOK(c)' /\ ShellOK(c)'
    BY <1>1, <1>3, <1>7 DEF CallInv, Fresh, Roles, CommandOK, ShellOK, Quiet, Interactive
  <1>8. pc'[c] \in Active /\ pc[c] \in Active
    BY <1>3 DEF Active
  <1> QED
    BY <1>1, <1>2, <1>3, <1>4, <1>5, <1>6, <1>8, OneCall DEF CallInv, Shape

LEMMA LoopEnds ==
    ASSUME SessionInv, NEW c \in Calls, pc[c] \in {"loop", "eof"},
           Take(c) \/ Ended(c) \/ Stays(c),
           NEW r \in Results, Finish(c, r), UNCHANGED env,
           Local(cmd, cmd', c), cmd'[c] \in CommandLocals,
           Local(sent, sent', c), sent'[c] \in Seq(Wire), CommandDone(c)'
    PROVE  SessionInv'
  <1>1. Shape /\ CallInv(c) /\ CallTypes(c) /\ handle = c
    BY DEF SessionInv, CallInv, OneUser, Active
  <1>2. /\ Local(inbox, inbox', c) /\ Local(got, got', c)
        /\ Local(open, open', c) /\ open'[c] = open[c] /\ connected' = connected
        /\ inbox'[c] \in Seq(Messages) /\ got'[c] \in Seq(Messages)
    BY <1>1, Waited, Stayed
  <1>3. /\ Local(pc, pc', c) /\ pc'[c] = "done"
        /\ Local(result, result', c) /\ result'[c] = r /\ handle' = Nobody
    BY <1>1, Finished
  <1>4. OnlyCall(c)
    BY <1>1, <1>2, <1>3, LocalSame DEF Shape, OnlyCall
  <1>5. CallTypes(c)'
    BY <1>1, <1>2, <1>3 DEF CallTypes, Places
  <1>6. Fresh(c)' /\ Roles(c)' /\ CommandOK(c)' /\ ShellOK(c)'
    BY <1>1, <1>3 DEF CallInv, Fresh, Roles, CommandOK, ShellOK, Quiet, Interactive
  <1>7. pc'[c] \notin Active
    BY <1>3 DEF Active
  <1> QED
    BY <1>1, <1>2, <1>3, <1>4, <1>5, <1>6, <1>7, OneCall DEF CallInv, Shape

(* Closing the channel, or leaving it, keeps what stdin promises.          *)
LEMMA ClosesRight ==
    ASSUME SessionInv, NEW c \in Calls, pc[c] = "loop", Take(c) \/ Ended(c),
           Close(c) \/ UNCHANGED sent
    PROVE  /\ Local(sent, sent', c) /\ sent'[c] \in Seq(Wire) /\ StdinIsRight(c)'
  <1>1. Shape /\ CallTypes(c) /\ InLoop(c)
    BY DEF SessionInv, CallInv, CommandOK, Roles
  <1>2. sent[c] \in {<<"exec", "stdin", "eof">>, <<"exec">>} /\ sent[c] \in Seq(Wire)
    BY <1>1 DEF InLoop, CallTypes
  <1>3. sent[c] = <<"exec", "stdin", "eof">> => Has(got'[c], "success")
    <2>1. sent[c] = <<"exec", "stdin", "eof">> => cmd[c].stdin_sent
      BY <1>1 DEF InLoop
    <2>2. cmd[c].stdin_sent => Has(got[c], "success")
      BY <1>1 DEF InLoop
    <2> QED
      BY <1>1, <2>1, <2>2, Waited
  <1>4. Local(sent, sent', c) /\ (sent'[c] = sent[c] \/ sent'[c] = sent[c] \o <<"close">>)
    <2>1. CASE Close(c)
      BY <1>1, <2>1, Sent DEF Close
    <2>2. CASE UNCHANGED sent
      BY <1>1, <2>2, LocalSame DEF Shape
    <2> QED
      BY <2>1, <2>2
  <1>5. CASE sent'[c] = sent[c]
    BY <1>2, <1>3, <1>4, <1>5 DEF StdinIsRight
  <1>6. CASE sent'[c] = sent[c] \o <<"close">>
    <2>1. sent'[c] \in Seq(Wire)
      <3>1. "close" \in Wire
        BY DEF Wire
      <3> HIDE DEF Wire
      <3> QED
        BY <1>2, <1>6, <3>1
    <2>2. CASE sent[c] = <<"exec">>
      <3>1. sent'[c] = <<"exec", "close">>
        BY <1>6, <2>2, Scripts
      <3> QED
        BY <1>4, <2>1, <3>1 DEF StdinIsRight
    <2>3. CASE sent[c] = <<"exec", "stdin", "eof">>
      <3>1. sent'[c] = <<"exec", "stdin", "eof", "close">>
        BY <1>6, <2>3, Scripts
      <3> QED
        BY <1>3, <1>4, <2>1, <2>3, <3>1 DEF StdinIsRight
    <2> QED
      BY <1>2, <2>2, <2>3
  <1> QED
    BY <1>4, <1>5, <1>6

LEMMA StepCommandLost ==
    ASSUME SessionInv, NEW c \in Calls, CommandLost(c)
    PROVE  SessionInv'
  <1>1. pc[c] = "loop" /\ Ended(c) /\ UNCHANGED <<env, cmd>> /\ (Close(c) \/ UNCHANGED sent)
    BY DEF CommandLost, CmdClosed
  <1>2. PICK r \in {"Disconnected", "ok", "Protocol"} :
            Finish(c, r) /\ (r = "ok" => cmd[c].confirmed)
    BY DEF CommandLost, CmdClosed
  <1>3. r \in Results /\ result'[c] = r /\ Shape
    BY <1>2, ResultTypes, Finished DEF SessionInv
  <1>4. /\ Local(sent, sent', c) /\ sent'[c] \in Seq(Wire) /\ StdinIsRight(c)'
    BY <1>1, ClosesRight
  <1>5. /\ InLoop(c) /\ (open[c] \/ Has(inbox[c], "close"))
        /\ cmd[c] \in CommandLocals /\ OnCalls(cmd)
    BY <1>1 DEF SessionInv, CallInv, CallTypes, Roles, CommandOK, Shape
  <1>6. ~connected' /\ got' = got
    BY <1>1, <1>5 DEF Ended, Has
  <1>7. Held(c)'
    BY <1>1, <1>5, <1>6 DEF InLoop, Held
  <1>8. r = "ok" => /\ Has(got'[c], "success") /\ ~Has(got'[c], "failure")
                    /\ ExitIs(got'[c], cmd'[c].exit)
    BY <1>1, <1>2, <1>5, <1>6 DEF InLoop
  <1>9. Has(got'[c], "success") => got'[c] # <<>>
    BY DEF Has
  <1>10. CommandDone(c)'
    BY <1>2, <1>3, <1>4, <1>6, <1>7, <1>8, <1>9 DEF CommandDone
  <1>11. Local(cmd, cmd', c) /\ cmd'[c] \in CommandLocals
    BY <1>1, <1>5, LocalSame
  <1> QED
    BY <1>1, <1>2, <1>3, <1>4, <1>10, <1>11, LoopEnds

LEMMA StepCmdEof ==
    ASSUME SessionInv, NEW c \in Calls, CmdEof(c)
    PROVE  SessionInv'
  <1> DEFINE l == cmd[c]
  <1>1. /\ pc[c] = "eof" /\ Stays(c) /\ UNCHANGED <<connected, got, env>> /\ Shape
        /\ InLoop(c) /\ l \in CommandLocals /\ OnCalls(cmd) /\ sent[c] \in Seq(Wire)
    BY DEF CmdEof, Stays, SessionInv, CallInv, CallTypes, Roles, CommandOK, Shape
  <1>2. /\ sent[c] = <<"exec", "stdin">> /\ Has(got[c], "success") /\ ~Has(got[c], "failure")
        /\ ExitIs(got[c], l.exit) /\ Held(c) /\ l.confirmed
    BY <1>1 DEF InLoop
  <1>3. CASE /\ connected /\ Send(c, <<"eof">>) /\ Continue(c, "loop")
             /\ cmd' = [cmd EXCEPT ![c].stdin_sent = TRUE]
    <2>1. Local(cmd, cmd', c)
      BY <1>1, <1>3 DEF OnCalls, Local
    <2>2. cmd'[c] = [stdout |-> l.stdout, stderr |-> l.stderr, exit |-> l.exit,
                     confirmed |-> l.confirmed, stdin_sent |-> TRUE]
      BY <1>1, <1>3 DEF OnCalls, CommandLocals
    <2>3. cmd'[c] \in CommandLocals
      BY <1>1, <2>2 DEF CommandLocals
    <2>4. Local(sent, sent', c) /\ sent'[c] = sent[c] \o <<"eof">>
      BY <1>1, <1>3, Sent
    <2>5. sent'[c] = <<"exec", "stdin", "eof">>
      BY <1>2, <2>4, Scripts
    <2>6. sent'[c] \in Seq(Wire)
      <3>1. {"exec", "stdin", "eof"} \subseteq Wire
        BY DEF Wire, Asks
      <3> HIDE DEF Wire
      <3> QED
        BY <2>5, <3>1
    <2>7. pc'[c] = "loop"
      BY <1>1, <1>3, Continued
    <2>8. Held(c)'
      BY <1>1, <1>2, <2>2 DEF Held
    <2>9. InLoop(c)'
      BY <1>1, <1>2, <2>2, <2>5, <2>7, <2>8 DEF InLoop
    <2> QED
      BY <1>1, <1>3, <2>1, <2>3, <2>4, <2>6, <2>9, LoopStays
  <1>4. CASE SendFails(c) /\ UNCHANGED cmd
    <2>1. PICK e \in SendErrors : Finish(c, MapCommandError[e])
      BY <1>4 DEF SendFails
    <2>2. MapCommandError[e] \in Results /\ MapCommandError[e] \notin {"ok", "Read"}
      BY ResultTypes
    <2>3. sent' = sent /\ ~connected'
      BY <1>1, <1>4 DEF SendFails
    <2>4. result'[c] = MapCommandError[e]
      BY <1>1, <2>1, Finished
    <2>5. StdinIsRight(c)' /\ Held(c)'
      BY <1>1, <1>2, <1>4, <2>3 DEF StdinIsRight, Held
    <2>6. CommandDone(c)'
      BY <2>2, <2>4, <2>5 DEF CommandDone
    <2>7. Local(cmd, cmd', c) /\ cmd'[c] \in CommandLocals
      BY <1>1, <1>4, LocalSame
    <2>8. Local(sent, sent', c) /\ sent'[c] \in Seq(Wire)
      BY <1>1, <2>3, LocalSame DEF Shape
    <2> QED
      BY <1>1, <2>1, <2>2, <2>6, <2>7, <2>8, LoopEnds
  <1> QED
    BY <1>3, <1>4 DEF CmdEof

LEMMA StepCommandMessage ==
    ASSUME SessionInv, NEW c \in Calls, CommandMessage(c)
    PROVE  SessionInv'
  <1> DEFINE m == Next_(c)
             l == cmd[c]
  <1>1. pc[c] = "loop" /\ Take(c) /\ UNCHANGED env /\ Shape /\ CallTypes(c) /\ InLoop(c)
    BY DEF CommandMessage, SessionInv, CallInv, Roles, CommandOK
  <1>2. got'[c] = Append(got[c], m) /\ m \in Messages /\ connected' = connected
    BY <1>1, Taken
  <1>3. got[c] \in Seq(Messages) /\ l \in CommandLocals /\ sent[c] \in Seq(Wire) /\ OnCalls(cmd) /\ OnCalls(sent)
    BY <1>1 DEF CallTypes, Shape
  <1>4. /\ \A t : Has(got'[c], t) <=> Has(got[c], t) \/ m.t = t
        /\ got'[c] # <<>> /\ got'[c][Len(got'[c])] = m
    BY <1>2, <1>3, AppendHas
  <1>5. /\ ~IsExit(m) => ExitIs(got'[c], l.exit)
        /\ l.exit # "missing" => ExitIs(got'[c], l.exit)
        /\ l.exit = "missing" /\ IsExit(m) => ExitIs(got'[c], m.t)
    BY <1>1, <1>2, <1>3, AppendExit DEF InLoop
  <1>6. m.n \in 0 .. 2
    BY <1>2 DEF Messages
  <1>15. l.stdout \in Nat /\ l.stderr \in Nat
    BY <1>3, SessionAssumption DEF CommandLocals
  <1>16. /\ Counts(got'[c], "data", l.stdout + IF m.t = "data" THEN m.n ELSE 0)
         /\ Counts(got'[c], "extended", l.stderr + IF m.t = "extended" THEN m.n ELSE 0)
    BY <1>1, <1>2, <1>3, <1>15, AppendCounts DEF InLoop, Held, Weight
  <1>17. ASSUME UNCHANGED cmd, m.t \notin {"data", "extended"} PROVE Held(c)'
    <2>1. l.stdout + 0 = l.stdout /\ l.stderr + 0 = l.stderr
      BY <1>15
    <2> QED
      BY <1>16, <1>17, <2>1 DEF Held
  <1>7. ASSUME NEW r \in Results, Finish(c, r), UNCHANGED cmd, Close(c) \/ UNCHANGED sent,
               r = "ok" => m.t = "close" /\ l.confirmed,
               IF r = "Read" THEN TooMuch(c)' ELSE m.t \notin {"data", "extended"}
        PROVE  SessionInv'
    <2>5. Local(cmd, cmd', c) /\ cmd'[c] \in CommandLocals
      BY <1>3, <1>7, LocalSame
    <2>1. Local(sent, sent', c) /\ sent'[c] \in Seq(Wire) /\ StdinIsRight(c)'
      BY <1>1, <1>7, ClosesRight
    <2>2. result'[c] = r
      BY <1>1, <1>7, Finished
    <2>3. ASSUME r = "ok" PROVE /\ Has(got'[c], "success") /\ ~Has(got'[c], "failure")
                                /\ got'[c] # <<>> /\ got'[c][Len(got'[c])].t = "close"
                                /\ ExitIs(got'[c], cmd'[c].exit)
      BY <1>1, <1>4, <1>5, <1>7, <2>3 DEF InLoop, IsExit
    <2>4. CommandDone(c)'
      BY <1>7, <1>17, <2>1, <2>2, <2>3 DEF CommandDone
    <2> QED
      BY <1>1, <1>7, <2>1, <2>4, <2>5, LoopEnds
  <1>8. ASSUME Continue(c, "loop"), UNCHANGED sent, Local(cmd, cmd', c),
               cmd'[c] \in CommandLocals, cmd'[c].stdin_sent = l.stdin_sent,
               cmd'[c].confirmed = l.confirmed, ExitIs(got'[c], cmd'[c].exit),
               m.t \notin {"failure", "close"}, Held(c)'
        PROVE  SessionInv'
    <2>1. Local(sent, sent', c) /\ sent'[c] \in Seq(Wire)
      BY <1>3, <1>8, LocalSame
    <2>3. pc'[c] = "loop"
      BY <1>1, <1>8, Continued
    <2>2. InLoop(c)'
      BY <1>1, <1>4, <1>8, <2>3 DEF InLoop
    <2> QED
      BY <1>1, <1>8, <2>1, <2>2, LoopStays
  <1>9. CASE m.t = "success" /\ CmdSuccess(c)
    <2>1. cmd' = [cmd EXCEPT ![c].confirmed = TRUE]
      BY <1>9 DEF CmdSuccess
    <2>2. Local(cmd, cmd', c)
      BY <1>3, <2>1 DEF OnCalls, Local
    <2>3. cmd'[c] = [stdout |-> l.stdout, stderr |-> l.stderr, exit |-> l.exit,
                     confirmed |-> TRUE, stdin_sent |-> l.stdin_sent]
      BY <1>3, <2>1 DEF OnCalls, CommandLocals
    <2>4. cmd'[c] \in CommandLocals
      BY <1>3, <2>3 DEF CommandLocals
    <2>5. Held(c)'
      <3>1. l.stdout + 0 = l.stdout /\ l.stderr + 0 = l.stderr
        BY <1>15
      <3> QED
        BY <1>9, <1>16, <2>3, <3>1 DEF Held
    <2>6. /\ ExitIs(got'[c], cmd'[c].exit)
          /\ Has(got'[c], "success") /\ ~Has(got'[c], "failure")
      BY <1>1, <1>4, <1>5, <1>9, <2>3 DEF InLoop, IsExit
    <2>7. CASE l.stdin_sent /\ CmdSkip(c)
      <3>1. Continue(c, "loop") /\ sent' = sent
        BY <2>7 DEF CmdSkip
      <3>2. pc'[c] = "loop"
        BY <1>1, <3>1, Continued
      <3>3. Local(sent, sent', c) /\ sent'[c] \in Seq(Wire)
        BY <1>3, <3>1, LocalSame
      <3>4. InLoop(c)'
        BY <1>1, <2>3, <2>5, <2>6, <2>7, <3>1, <3>2 DEF InLoop
      <3> QED
        BY <1>1, <1>9, <2>2, <2>4, <3>1, <3>3, <3>4, LoopStays
    <2>8. CASE ~l.stdin_sent /\ connected /\ Send(c, <<"stdin">>) /\ Continue(c, "eof")
      <3>1. pc'[c] = "eof"
        BY <1>1, <2>8, Continued
      <3>2. Local(sent, sent', c) /\ sent'[c] = sent[c] \o <<"stdin">>
        BY <1>1, <2>8, Sent
      <3>3. sent[c] = <<"exec">>
        BY <1>1, <2>8 DEF InLoop
      <3>4. sent'[c] = <<"exec", "stdin">>
        BY <3>2, <3>3, Scripts
      <3>5. sent'[c] \in Seq(Wire)
        <4>1. {"exec", "stdin"} \subseteq Wire
          BY DEF Wire, Asks
        <4> HIDE DEF Wire
        <4> QED
          BY <3>4, <4>1
      <3>6. InLoop(c)'
        BY <2>3, <2>5, <2>6, <2>8, <3>1, <3>4 DEF InLoop
      <3> QED
        BY <1>1, <1>9, <2>2, <2>4, <2>8, <3>2, <3>5, <3>6, LoopStays
    <2>9. CASE ~l.stdin_sent /\ SendFails(c)
      <3>1. PICK e \in SendErrors : Finish(c, MapCommandError[e])
        BY <2>9 DEF SendFails
      <3>2. MapCommandError[e] \in Results /\ MapCommandError[e] \notin {"ok", "Read"}
        BY ResultTypes
      <3>3. UNCHANGED sent /\ result'[c] = MapCommandError[e]
        BY <1>1, <2>9, <3>1, Finished DEF SendFails
      <3>4. Local(sent, sent', c) /\ sent'[c] \in Seq(Wire) /\ StdinIsRight(c)'
        BY <1>1, <3>3, ClosesRight
      <3>5. CommandDone(c)'
        BY <2>5, <3>2, <3>3, <3>4 DEF CommandDone
      <3> QED
        BY <1>1, <2>2, <2>4, <3>1, <3>2, <3>4, <3>5, LoopEnds
    <2> QED
      BY <1>9, <2>7, <2>8, <2>9 DEF CmdSuccess
  <1>10. CASE m.t = "failure" /\ CmdFailure(c)
    <2>1. "Request" \in Results
      BY ResultTypes
    <2> QED
      BY <1>7, <1>10, <2>1 DEF CmdFailure
  <1>11. ASSUME NEW stream \in {"stdout", "stderr"},
                m.t = IF stream = "stdout" THEN "data" ELSE "extended",
                AppendLimited(c, stream, m.n)
         PROVE  SessionInv'
    <2>1. CASE l[stream] + m.n > Limit
      <3>1. Finish(c, "Read") /\ Close(c) /\ UNCHANGED cmd
        BY <1>11, <2>1 DEF AppendLimited
      <3>2. "Read" \in Results
        BY ResultTypes
      <3>3. TooMuch(c)'
        <4>1. l[stream] + m.n \in Nat
          BY <1>6, <1>11, <1>15
        <4>2. Counts(got'[c], m.t, l[stream] + m.n)
          BY <1>11, <1>16
        <4> QED
          BY <1>11, <2>1, <4>1, <4>2 DEF TooMuch
      <3> QED
        BY <1>7, <3>1, <3>2, <3>3
    <2>2. CASE ~(l[stream] + m.n > Limit)
      <3>1. /\ cmd' = [cmd EXCEPT ![c][stream] = @ + m.n]
            /\ Continue(c, "loop") /\ UNCHANGED sent
        BY <1>11, <2>2 DEF AppendLimited
      <3>2. Local(cmd, cmd', c)
        BY <1>3, <3>1 DEF OnCalls, Local
      <3>3. /\ cmd'[c] \in CommandLocals /\ cmd'[c].stdin_sent = l.stdin_sent
            /\ cmd'[c].confirmed = l.confirmed /\ cmd'[c].exit = l.exit
            /\ cmd'[c].stdout = l.stdout + IF m.t = "data" THEN m.n ELSE 0
            /\ cmd'[c].stderr = l.stderr + IF m.t = "extended" THEN m.n ELSE 0
        <4>0. cmd'[c] = [l EXCEPT ![stream] = @ + m.n] /\ Limit \in Nat
          BY <1>3, <3>1, SessionAssumption DEF OnCalls
        <4>1. CASE stream = "stdout"
          <5>1. cmd'[c] = [stdout |-> l.stdout + m.n, stderr |-> l.stderr, exit |-> l.exit,
                           confirmed |-> l.confirmed, stdin_sent |-> l.stdin_sent]
            BY <1>3, <4>0, <4>1 DEF CommandLocals
          <5>2. l.stdout + m.n \in 0 .. Limit
            BY <1>3, <1>6, <2>2, <4>0, <4>1 DEF CommandLocals
          <5>3. cmd'[c] \in CommandLocals
            BY <1>3, <5>1, <5>2 DEF CommandLocals
          <5>4. l.stderr + 0 = l.stderr
            BY <1>15
          <5> QED
            BY <1>11, <4>1, <5>1, <5>3, <5>4
        <4>2. CASE stream = "stderr"
          <5>1. cmd'[c] = [stdout |-> l.stdout, stderr |-> l.stderr + m.n, exit |-> l.exit,
                           confirmed |-> l.confirmed, stdin_sent |-> l.stdin_sent]
            BY <1>3, <4>0, <4>2 DEF CommandLocals
          <5>2. l.stderr + m.n \in 0 .. Limit
            BY <1>3, <1>6, <2>2, <4>0, <4>2 DEF CommandLocals
          <5>3. cmd'[c] \in CommandLocals
            BY <1>3, <5>1, <5>2 DEF CommandLocals
          <5>4. l.stdout + 0 = l.stdout
            BY <1>15
          <5> QED
            BY <1>11, <4>2, <5>1, <5>3, <5>4
        <4> QED
          BY <4>1, <4>2
      <3>4. ExitIs(got'[c], cmd'[c].exit) /\ m.t \notin {"failure", "close"}
        BY <1>5, <1>11, <3>3 DEF IsExit
      <3>5. Held(c)'
        BY <1>16, <3>3 DEF Held
      <3> QED
        BY <1>8, <3>1, <3>2, <3>3, <3>4, <3>5
    <2> QED
      BY <2>1, <2>2
  <1>12. CASE m.t \in {"status", "signal"} /\ CmdExit(c, m.t)
    <2>1. /\ cmd' = [cmd EXCEPT ![c].exit = IF @ = "missing" THEN m.t ELSE @]
          /\ Continue(c, "loop") /\ UNCHANGED sent
      BY <1>12 DEF CmdExit
    <2>2. Local(cmd, cmd', c)
      BY <1>3, <2>1 DEF OnCalls, Local
    <2>3. cmd'[c] = [stdout |-> l.stdout, stderr |-> l.stderr,
                     exit |-> IF l.exit = "missing" THEN m.t ELSE l.exit,
                     confirmed |-> l.confirmed, stdin_sent |-> l.stdin_sent]
      BY <1>3, <2>1 DEF OnCalls, CommandLocals
    <2>4. /\ cmd'[c] \in CommandLocals /\ cmd'[c].stdin_sent = l.stdin_sent
          /\ cmd'[c].confirmed = l.confirmed
      BY <1>3, <1>12, <2>3 DEF CommandLocals
    <2>5. ExitIs(got'[c], cmd'[c].exit)
      BY <1>5, <1>12, <2>3 DEF IsExit
    <2>6. Held(c)'
      <3>1. l.stdout + 0 = l.stdout /\ l.stderr + 0 = l.stderr
        BY <1>15
      <3> QED
        BY <1>12, <1>16, <2>3, <3>1 DEF Held
    <2> QED
      BY <1>8, <1>12, <2>1, <2>2, <2>4, <2>5, <2>6
  <1>13. CASE m.t \in {"eof", "adjust"} /\ CmdSkip(c) /\ UNCHANGED cmd
    <2>1. Continue(c, "loop") /\ UNCHANGED <<sent, cmd>>
      BY <1>13 DEF CmdSkip
    <2>2. Local(cmd, cmd', c)
      BY <1>3, <2>1, LocalSame
    <2>3. ExitIs(got'[c], cmd'[c].exit)
      BY <1>5, <1>13, <2>1 DEF IsExit
    <2> QED
      BY <1>3, <1>8, <1>13, <1>17, <2>1, <2>2, <2>3
  <1>14. CASE m.t = "close" /\ CmdClosed(c)
    <2>1. "ok" \in Results /\ "Protocol" \in Results
      BY ResultTypes
    <2> QED
      BY <1>7, <1>14, <2>1 DEF CmdClosed
  <1> QED
    BY <1>9, <1>10, <1>11, <1>12, <1>13, <1>14 DEF CommandMessage

-----------------------------------------------------------------------------
(* Shell::open and Subsystem::open.                                        *)

LEMMA ShellStays ==
    ASSUME SessionInv, NEW c \in Calls, pc[c] \in {"pty", "env"}, Take(c) \/ Ended(c),
           NEW where \in {"env", "start"}, Continue(c, where), UNCHANGED cmd,
           Local(env, env', c), env'[c] \in Nat,
           Local(sent, sent', c), sent'[c] \in Seq(Wire), Asking(c)'
    PROVE  SessionInv'
  <1>1. Shape /\ CallInv(c) /\ CallTypes(c) /\ PtyShell(c) /\ Config[c].op \in Interactive
    BY DEF SessionInv, CallInv, Roles, PtyShell, Interactive
  <1>2. /\ Local(inbox, inbox', c) /\ Local(got, got', c)
        /\ Local(open, open', c) /\ open'[c] = open[c] /\ connected' = connected
        /\ inbox'[c] \in Seq(Messages) /\ got'[c] \in Seq(Messages)
        /\ \A t : Has(got[c], t) => Has(got'[c], t)
        /\ \A t : Has(inbox[c], t) => Has(inbox'[c], t) \/ Has(got'[c], t)
    BY <1>1, Waited
  <1>3. /\ Local(pc, pc', c) /\ pc'[c] = where
        /\ Local(result, result', c) /\ result'[c] = result[c] /\ handle' = handle
    BY <1>1, Continued
  <1>4. OnlyCall(c)
    BY <1>1, <1>2, <1>3, LocalSame DEF Shape, OnlyCall
  <1>5. CallTypes(c)'
    BY <1>1, <1>2, <1>3 DEF CallTypes, Places
  <1>6. Fresh(c)' /\ Roles(c)'
    BY <1>1, <1>3 DEF CallInv, Fresh, Roles, Quiet, PtyShell
  <1>7. CommandOK(c)'
    BY <1>1 DEF CommandOK, PtyShell
  <1>8. ~open'[c] => Has(got'[c], "close") \/ Has(inbox'[c], "close")
    <2>1. ~open[c] => Has(got[c], "close") \/ Has(inbox[c], "close")
      BY <1>1 DEF CallInv, ShellOK
    <2> QED
      BY <1>2, <2>1
  <1>9. ShellOK(c)'
    BY <1>3, <1>8 DEF ShellOK
  <1>10. pc[c] \in Active /\ pc'[c] \in Active
    BY <1>3 DEF Active
  <1> QED
    BY <1>1, <1>2, <1>3, <1>4, <1>5, <1>6, <1>7, <1>9, <1>10, OneCall DEF CallInv, Shape

LEMMA ShellEnds ==
    ASSUME SessionInv, NEW c \in Calls, pc[c] \in {"pty", "env", "start"}, Take(c) \/ Ended(c),
           NEW r \in Results, Finish(c, r), UNCHANGED <<env, cmd>>,
           Local(sent, sent', c), sent'[c] \in Seq(Wire), ShellDone(c)'
    PROVE  SessionInv'
  <1>1. Shape /\ CallInv(c) /\ CallTypes(c) /\ handle = c /\ Config[c].op \in Interactive
    BY DEF SessionInv, CallInv, OneUser, Active, Roles, PtyShell, Interactive
  <1>2. /\ Local(inbox, inbox', c) /\ Local(got, got', c)
        /\ Local(open, open', c) /\ open'[c] = open[c] /\ connected' = connected
        /\ inbox'[c] \in Seq(Messages) /\ got'[c] \in Seq(Messages)
    BY <1>1, Waited
  <1>3. /\ Local(pc, pc', c) /\ pc'[c] = "done"
        /\ Local(result, result', c) /\ result'[c] = r /\ handle' = Nobody
    BY <1>1, Finished
  <1>4. OnlyCall(c)
    BY <1>1, <1>2, <1>3, LocalSame DEF Shape, OnlyCall
  <1>5. CallTypes(c)'
    BY <1>1, <1>2, <1>3 DEF CallTypes, Places
  <1>6. Fresh(c)' /\ Roles(c)' /\ CommandOK(c)' /\ ShellOK(c)'
    BY <1>1, <1>3 DEF Fresh, Roles, CommandOK, ShellOK, Quiet, Interactive
  <1>7. pc'[c] \notin Active
    BY <1>3 DEF Active
  <1> QED
    BY <1>1, <1>2, <1>3, <1>4, <1>5, <1>6, <1>7, OneCall DEF CallInv, Shape

LEMMA Refusing ==
    ASSUME SessionInv, NEW c \in Calls, pc[c] \in {"pty", "start"}, Take(c) \/ Ended(c),
           Refuse(c), UNCHANGED cmd
    PROVE  SessionInv'
  <1>1. Shape /\ CallTypes(c) /\ Finish(c, "Request") /\ Close(c) /\ UNCHANGED env
    BY DEF SessionInv, CallInv, Refuse
  <1>2. Local(sent, sent', c) /\ sent'[c] = IF connected THEN sent[c] \o <<"close">> ELSE sent[c]
    BY <1>1, Sent DEF Close
  <1>3. sent'[c] \in Seq(Wire)
    <2>1. "close" \in Wire /\ sent[c] \in Seq(Wire)
      BY <1>1 DEF Wire, CallTypes
    <2> HIDE DEF Wire
    <2> QED
      BY <1>2, <2>1
  <1>4. result'[c] = "Request" /\ "Request" \in Results
    BY <1>1, Finished, ResultTypes
  <1>5. ShellDone(c)'
    BY <1>4 DEF ShellDone
  <1> QED
    BY <1>1, <1>2, <1>3, <1>4, <1>5, ShellEnds

(* A request more is sent, if the connection is up.                        *)
LEMMA Asks1 ==
    ASSUME Shape, NEW c \in Calls, NEW what \in Asks, Send(c, <<what>>), sent[c] \in Seq(Asks)
    PROVE  /\ Local(sent, sent', c) /\ sent'[c] \in Seq(Asks) /\ sent'[c] \in Seq(Wire)
           /\ connected => Len(sent'[c]) = Len(sent[c]) + 1
  <1>1. Local(sent, sent', c) /\ sent'[c] = IF connected THEN sent[c] \o <<what>> ELSE sent[c]
    BY Sent
  <1> HIDE DEF Asks
  <1>2. sent'[c] \in Seq(Asks) /\ (connected => Len(sent'[c]) = Len(sent[c]) + 1)
    BY <1>1
  <1>3. Asks \subseteq Wire
    BY DEF Wire
  <1>4. sent'[c] \in Seq(Wire)
    <2> HIDE DEF Wire
    <2> QED
      BY <1>2, <1>3
  <1> QED
    BY <1>1, <1>2, <1>4

(* As long as the connection is up, as many messages have been taken as    *)
(* requests were sent when the next one is due.                            *)
LEMMA OneReplyEach ==
    ASSUME SessionInv, NEW c \in Calls, pc[c] \in {"pty", "env"}, Take(c) \/ Ended(c),
           pc[c] = "pty" => Take(c) /\ Next_(c).t # "failure"
    PROVE  /\ sent[c] \in Seq(Asks)
           /\ connected /\ AllReplies(got'[c]) => Len(sent[c]) = Len(got'[c]) /\ PtyGranted(c)'
  <1>1. Shape /\ CallInv(c) /\ CallTypes(c) /\ PtyShell(c) /\ Config[c].op \in Interactive
    BY DEF SessionInv, CallInv, Roles, PtyShell, Interactive
  <1>2. got[c] \in Seq(Messages)
    BY <1>1 DEF CallTypes
  <1>3. CASE pc[c] = "pty"
    <2>1. sent[c] = <<"pty">> /\ got[c] = <<>>
      BY <1>1, <1>3 DEF CallInv, ShellOK
    <2>2. sent[c] \in Seq(Asks) /\ Len(sent[c]) = 1
      <3>1. "pty" \in Asks
        BY DEF Asks
      <3> HIDE DEF Asks
      <3> QED
        BY <2>1, <3>1
    <2>3. got'[c] = Append(got[c], Next_(c)) /\ Next_(c) \in Messages
      BY <1>1, <1>3, Taken
    <2>4. /\ AllReplies(got'[c]) => Next_(c).t \in Replies
          /\ Len(got'[c]) = Len(got[c]) + 1 /\ got'[c] # <<>>
          /\ got'[c][Len(got[c]) + 1] = Next_(c)
      BY <1>2, <2>3, AppendHas
    <2>5. Len(got'[c]) = 1 /\ got'[c][1] = Next_(c)
      BY <2>1, <2>4
    <2>6. AllReplies(got'[c]) => got'[c][1].t = "success"
      BY <1>3, <2>4, <2>5 DEF Replies
    <2> QED
      BY <2>2, <2>4, <2>5, <2>6 DEF PtyGranted
  <1>4. CASE pc[c] = "env" /\ Take(c)
    <2>1. Asking(c)
      BY <1>1, <1>4 DEF CallInv, ShellOK
    <2>2. got'[c] = Append(got[c], Next_(c)) /\ Next_(c) \in Messages
      BY <1>1, <1>4, Taken
    <2>3. /\ AllReplies(got'[c]) => AllReplies(got[c])
          /\ Len(got'[c]) = Len(got[c]) + 1 /\ got'[c] # <<>>
          /\ got[c] # <<>> => got'[c][1] = got[c][1]
      BY <1>2, <2>2, AppendHas
    <2> QED
      BY <1>1, <2>1, <2>3 DEF Asking, PtyGranted
  <1>5. CASE pc[c] = "env" /\ Ended(c)
    <2>1. Asking(c) /\ (~open[c] => Has(got[c], "close") \/ Has(inbox[c], "close"))
      BY <1>1, <1>5 DEF CallInv, ShellOK
    <2>2. got' = got /\ inbox[c] = <<>> /\ (~connected \/ ~open[c])
      BY <1>5 DEF Ended
    <2>3. ~Has(inbox[c], "close")
      BY <2>2 DEF Has
    <2>4. Has(got[c], "close") => ~AllReplies(got'[c])
      BY <2>2 DEF Has, AllReplies, Replies
    <2> QED
      BY <2>1, <2>2, <2>3, <2>4 DEF Asking
  <1> QED
    BY <1>3, <1>4, <1>5

LEMMA StepNextEnv ==
    ASSUME SessionInv, NEW c \in Calls, pc[c] \in {"pty", "env"}, Take(c) \/ Ended(c),
           pc[c] = "pty" => Take(c) /\ Next_(c).t # "failure",
           NextEnv(c), UNCHANGED cmd
    PROVE  SessionInv'
  <1>1. Shape /\ CallTypes(c) /\ PtyShell(c) /\ connected' = connected
    BY Waited DEF SessionInv, CallInv, Roles
  <1>2. /\ sent[c] \in Seq(Asks)
        /\ connected /\ AllReplies(got'[c]) => Len(sent[c]) = Len(got'[c]) /\ PtyGranted(c)'
    BY OneReplyEach
  <1>3. env[c] \in Nat /\ OnCalls(env) /\ OnCalls(sent)
    BY <1>1 DEF CallTypes, Shape
  <1>4. CASE env[c] > 0
    <2>1. /\ env' = [env EXCEPT ![c] = @ - 1]
          /\ Send(c, <<"env">>) /\ Continue(c, "env")
      BY <1>4 DEF NextEnv
    <2>2. Local(env, env', c) /\ env'[c] = env[c] - 1
      BY <1>3, <2>1 DEF OnCalls, Local
    <2>3. env'[c] \in Nat
      BY <1>3, <1>4, <2>2
    <2>4. "env" \in Asks
      BY DEF Asks
    <2>5. /\ Local(sent, sent', c) /\ sent'[c] \in Seq(Asks) /\ sent'[c] \in Seq(Wire)
          /\ connected => Len(sent'[c]) = Len(sent[c]) + 1
      BY <1>1, <1>2, <2>1, <2>4, Asks1
    <2>6. pc'[c] = "env"
      BY <1>1, <2>1, Continued
    <2>7. Asking(c)'
      BY <1>1, <1>2, <2>5, <2>6 DEF Asking
    <2> QED
      BY <2>1, <2>2, <2>3, <2>5, <2>7, ShellStays
  <1>5. CASE ~(env[c] > 0)
    <2>1. SendStart(c) /\ UNCHANGED env
      BY <1>5 DEF NextEnv
    <2>2. CASE connected /\ Send(c, <<StartRequest(c)>>) /\ Continue(c, "start")
      <3>1. StartRequest(c) \in Asks
        BY <1>1 DEF StartRequest, Asks, PtyShell
      <3>2. /\ Local(sent, sent', c) /\ sent'[c] \in Seq(Asks) /\ sent'[c] \in Seq(Wire)
            /\ connected => Len(sent'[c]) = Len(sent[c]) + 1
        BY <1>1, <1>2, <2>2, <3>1, Asks1
      <3>3. Asking(c)'
        BY <1>1, <1>2, <2>2, <3>2 DEF Asking
      <3>4. Local(env, env', c) /\ env'[c] \in Nat
        BY <1>3, <2>1, LocalSame
      <3> QED
        BY <2>2, <3>2, <3>3, <3>4, ShellStays
    <2>3. CASE (\E e \in SendErrors : Finish(c, MapShellError[e])) /\ UNCHANGED sent
      <3>1. PICK e \in SendErrors : Finish(c, MapShellError[e])
        BY <2>3
      <3>2. MapShellError[e] \in Results /\ MapShellError[e] # "ok"
        BY ResultTypes
      <3>3. result'[c] = MapShellError[e]
        BY <1>1, <3>1, Finished
      <3>4. ShellDone(c)'
        BY <3>2, <3>3 DEF ShellDone
      <3>5. Local(sent, sent', c) /\ sent'[c] \in Seq(Wire)
        BY <1>1, <1>3, <2>3, LocalSame DEF CallTypes
      <3> QED
        BY <2>1, <3>1, <3>2, <3>4, <3>5, ShellEnds
    <2> QED
      BY <2>1, <2>2, <2>3 DEF SendStart
  <1> QED
    BY <1>4, <1>5

LEMMA StepShell ==
    ASSUME SessionInv, NEW c \in Calls, PtyReply(c) \/ EnvReply(c) \/ StartReply(c)
    PROVE  SessionInv'
  <1>1. CASE PtyReply(c)
    <2>1. pc[c] = "pty" /\ UNCHANGED cmd
      BY <1>1 DEF PtyReply
    <2>2. CASE (Take(c) \/ Ended(c)) /\ Refuse(c)
      BY <2>1, <2>2, Refusing
    <2>3. CASE Take(c) /\ Next_(c).t # "failure" /\ NextEnv(c)
      BY <2>1, <2>3, StepNextEnv
    <2> QED
      BY <1>1, <2>2, <2>3 DEF PtyReply
  <1>2. CASE EnvReply(c)
    BY <1>2, StepNextEnv DEF EnvReply
  <1>3. CASE StartReply(c)
    <2>1. pc[c] = "start" /\ UNCHANGED cmd
      BY <1>3 DEF StartReply
    <2>2. CASE (Take(c) \/ Ended(c)) /\ Refuse(c)
      BY <2>1, <2>2, Refusing
    <2>3. CASE Take(c) /\ Next_(c).t # "failure" /\ Finish(c, "ok") /\ UNCHANGED <<sent, env>>
      <3>1. Shape /\ CallInv(c) /\ CallTypes(c) /\ Asking(c)
        BY <2>1 DEF SessionInv, CallInv, ShellOK, Roles
      <3>2. got'[c] = Append(got[c], Next_(c)) /\ Next_(c) \in Messages /\ got[c] \in Seq(Messages)
        BY <2>3, <3>1, Taken DEF CallTypes
      <3>3. /\ AllReplies(got'[c]) => AllReplies(got[c]) /\ Next_(c).t \in Replies
            /\ Len(got'[c]) = Len(got[c]) + 1 /\ got'[c] # <<>>
            /\ got'[c][Len(got'[c])] = Next_(c)
            /\ got[c] # <<>> => got'[c][1] = got[c][1]
        BY <3>2, AppendHas
      <3>4. Local(sent, sent', c) /\ sent'[c] \in Seq(Wire)
        BY <2>3, <3>1, LocalSame DEF CallTypes, Shape
      <3>5. ASSUME AllReplies(got'[c])
            PROVE  /\ sent'[c] \in Seq(Asks) /\ Len(sent'[c]) = Len(got'[c])
                   /\ got'[c][Len(got'[c])].t = "success" /\ PtyGranted(c)'
        <4>1. sent[c] \in Seq(Asks) /\ Len(sent[c]) = Len(got[c]) + 1 /\ PtyGranted(c)
          BY <2>1, <3>1, <3>3, <3>5 DEF Asking
        <4>2. Next_(c).t = "success"
          BY <2>3, <3>3, <3>5 DEF Replies
        <4>3. PtyGranted(c)'
          BY <3>3, <4>1 DEF PtyGranted, PtyShell
        <4> QED
          BY <2>3, <3>3, <4>1, <4>2, <4>3
      <3>6. ShellDone(c)'
        BY <3>3, <3>5 DEF ShellDone
      <3>7. "ok" \in Results
        BY ResultTypes
      <3> QED
        BY <2>1, <2>3, <3>4, <3>6, <3>7, ShellEnds
    <2> QED
      BY <1>3, <2>2, <2>3 DEF StartReply
  <1> QED
    BY <1>1, <1>2, <1>3

-----------------------------------------------------------------------------
(* The server and the connection.                                          *)

LEMMA Delivered ==
    ASSUME SessionInv, NEW c \in Calls, NEW m \in Messages, Deliver(c, m),
           open' = open \/ (m.t = "close" /\ open' = [open EXCEPT ![c] = FALSE])
    PROVE  SessionInv'
  <1>1. /\ Shape /\ CallInv(c) /\ connected /\ open[c] /\ pc[c] # "done"
        /\ inbox' = [inbox EXCEPT ![c] = Append(@, m)]
        /\ UNCHANGED <<pc, result, handle, connected, got, sent, env, cmd>>
    BY DEF SessionInv, Deliver
  <1>2. Local(inbox, inbox', c) /\ inbox'[c] = Append(inbox[c], m)
    BY <1>1 DEF Shape, OnCalls, Local
  <1>3. Local(open, open', c) /\ open'[c] \in BOOLEAN
    <2>1. CASE open' = open
      BY <1>1, <2>1, LocalSame DEF Shape, CallInv, CallTypes
    <2>2. CASE open' = [open EXCEPT ![c] = FALSE]
      BY <1>1, <2>2 DEF Shape, OnCalls, Local
    <2> QED
      BY <2>1, <2>2
  <1>4. OnlyCall(c)
    BY <1>1, <1>2, <1>3, LocalSame DEF Shape, OnlyCall
  <1>5. inbox[c] \in Seq(Messages)
    BY <1>1 DEF CallInv, CallTypes
  <1>6. inbox'[c] \in Seq(Messages)
    <2> HIDE DEF Messages
    <2> QED
      BY <1>2, <1>5
  <1>7. CallTypes(c)'
    BY <1>1, <1>3, <1>6 DEF CallInv, CallTypes
  <1>8. pc[c] \notin Quiet
    BY <1>1 DEF CallInv, Fresh
  <1>9. Fresh(c)' /\ Roles(c)'
    BY <1>1, <1>8 DEF CallInv, Fresh, Roles, PtyShell
  <1>11. open'[c] \/ Has(inbox'[c], "close")
    <2>1. Has(inbox'[c], m.t)
      BY <1>2, <1>5, AppendHas
    <2> QED
      BY <1>1, <2>1
  <1>10. CommandOK(c)'
    BY <1>1, <1>11 DEF CallInv, CommandOK, InLoop, CommandDone, StdinIsRight, Held, TooMuch
  <1>12. ShellOK(c)'
    BY <1>1, <1>11 DEF CallInv, ShellOK, Asking, ShellDone, PtyGranted, PtyShell
  <1>13. connected' \in BOOLEAN
    BY <1>1 DEF Shape
  <1> QED
    BY <1>1, <1>4, <1>7, <1>9, <1>10, <1>12, <1>13, OneCall DEF CallInv

LEMMA StepServer ==
    ASSUME SessionInv, NEW c \in Calls, ServerReply(c) \/ ServerSend(c) \/ ServerClose(c)
    PROVE  SessionInv'
  <1>1. CASE ServerReply(c)
    <2>1. PICK t \in Replies : Deliver(c, Msg(t, 0)) /\ UNCHANGED open
      BY <1>1 DEF ServerReply
    <2>2. Msg(t, 0) \in Messages
      BY DEF Msg, Messages, MessageTypes, Replies
    <2> QED
      BY <2>1, <2>2, Delivered
  <1>2. CASE ServerSend(c)
    <2>1. PICK m \in Chatter(c) : Deliver(c, m) /\ UNCHANGED open
      BY <1>2 DEF ServerSend
    <2>2. m \in Messages
      <3>1. Outputs \subseteq Messages
        BY DEF Outputs, Msg, Messages, MessageTypes
      <3>2. Exits \subseteq Messages
        BY DEF Exits, Msg, Messages, MessageTypes
      <3>3. Others \subseteq Messages
        BY DEF Others, Msg, Messages, MessageTypes
      <3>4. Msg("adjust", 0) \in Messages
        BY DEF Msg, Messages, MessageTypes
      <3> QED
        BY <3>1, <3>2, <3>3, <3>4 DEF Chatter
    <2> QED
      BY <2>1, <2>2, Delivered
  <1>3. CASE ServerClose(c)
    <2>1. Msg("close", 0) \in Messages /\ Msg("close", 0).t = "close"
      BY DEF Msg, Messages, MessageTypes
    <2> QED
      BY <1>3, <2>1, Delivered DEF ServerClose
  <1> QED
    BY <1>1, <1>2, <1>3

LEMMA StepConnectionLost ==
    ASSUME SessionInv, ConnectionLost
    PROVE  SessionInv'
  <1>1. /\ connected' = FALSE
        /\ UNCHANGED <<pc, result, handle, inbox, got, sent, open, env, cmd>>
    BY DEF ConnectionLost
  <1>2. ASSUME NEW c \in Calls PROVE CallInv(c)'
    BY <1>1, <1>2, Frame DEF SessionInv
  <1>3. Shape' /\ OneUser'
    BY <1>1 DEF SessionInv, Shape, OneUser
  <1> QED
    BY <1>2, <1>3 DEF SessionInv

LEMMA StepSession ==
    ASSUME SessionInv, [Next]_vars
    PROVE  SessionInv'
  <1>1. CASE UNCHANGED sessionVars
    <2>1. UNCHANGED <<pc, result, handle, connected, inbox, got, sent, open, env, cmd>>
      BY <1>1 DEF sessionVars
    <2>2. ASSUME NEW c \in Calls PROVE CallInv(c)'
      BY <2>1, <2>2, Frame DEF SessionInv
    <2>3. Shape' /\ OneUser'
      BY <2>1 DEF SessionInv, Shape, OneUser
    <2> QED
      BY <2>2, <2>3 DEF SessionInv
  <1>2. CASE SessionNext
    <2>1. ASSUME NEW c \in Calls, Step(c) PROVE SessionInv'
      BY <2>1, StepLock, StepOpenFails, StepOpened, StepCommandMessage, StepCmdEof,
         StepCommandLost, StepShell DEF Step
    <2> QED
      BY <1>2, <2>1, StepCall, StepServer, StepConnectionLost DEF SessionNext
  <1> QED
    BY <1>1, <1>2 DEF Next, vars

-----------------------------------------------------------------------------
(* What the invariant says of the properties.                              *)

LEMMA FirstIs ==
    ASSUME NEW c \in Calls, got[c] \in Seq(Messages), NEW e, ExitIs(got[c], e)
    PROVE  e = FirstExit(c)
  <1> DEFINE exits == {i \in DOMAIN got[c] : IsExit(got[c][i])}
  <1>1. FirstExit(c) = IF exits = {} THEN "missing" ELSE got[c][Min(exits)].t
    BY DEF FirstExit
  <1>2. CASE e = "missing" /\ \A i \in DOMAIN got[c] : ~IsExit(got[c][i])
    BY <1>1, <1>2
  <1>3. ASSUME NEW i \in DOMAIN got[c], IsExit(got[c][i]), e = got[c][i].t,
               \A j \in DOMAIN got[c] : j < i => ~IsExit(got[c][j])
        PROVE  e = FirstExit(c)
    <2>1. \A j \in DOMAIN got[c] : j \in Nat
      <3> HIDE DEF Messages
      <3> QED
        OBVIOUS
    <2>2. i \in exits /\ \A j \in exits : j \in Nat /\ i <= j
      BY <1>3, <2>1
    <2> HIDE DEF exits
    <2>3. Min(exits) \in exits /\ \A j \in exits : Min(exits) <= j
      BY <2>2 DEF Min
    <2>4. Min(exits) = i
      BY <2>2, <2>3
    <2> QED
      BY <1>1, <1>3, <2>2, <2>4
  <1> QED
    BY <1>2, <1>3 DEF ExitIs

LEMMA NatMin ==
    ASSUME NEW T \in SUBSET Nat, T # {}
    PROVE  \E x \in T : \A y \in T : x <= y
  <1> DEFINE R == {ss \in Nat \X Nat : ss[1] < ss[2]}
  <1>1. R = OpToRel(<, Nat)
    BY DEF OpToRel
  <1>2. IsWellFoundedOn(R, Nat)
    BY <1>1, NatLessThanWellFounded
  <1>3. PICK x \in T : \A y \in T : ~(<<y, x>> \in R)
    BY <1>2, WFMin
  <1>4. ASSUME NEW y \in T PROVE x <= y
    <2>1. x \in Nat /\ y \in Nat /\ <<y, x>> \notin R
      BY <1>3
    <2>2. ~(<<y, x>>[1] < <<y, x>>[2])
      BY <2>1
    <2>3. ~(y < x)
      BY <2>2
    <2> QED
      BY <2>1, <2>3
  <1> QED
    BY <1>4

(* The recursive sum is the only running sum: by the least index at which  *)
(* two of them differ.                                                     *)
LEMMA BytesAre ==
    ASSUME NEW c \in Calls, got[c] \in Seq(Messages), NEW t, NEW b, Counts(got[c], t, b)
    PROVE  Bytes(c, t) = b
  <1> DEFINE s == got[c]
             n == Len(s)
             F == CHOOSE f : f = [i \in 0 .. n |-> IF i = 0 THEN 0 ELSE f[i - 1] + Weight(s[i], t)]
  <1>1. Bytes(c, t) = F[n]
    BY DEF Bytes
  <1>2. PICK tot \in [0 .. n -> Nat] :
            /\ tot[0] = 0 /\ tot[n] = b
            /\ \A i \in 1 .. n : tot[i] = tot[i - 1] + Weight(s[i], t)
    BY DEF Counts
  <1>3. n \in Nat
    <2> HIDE DEF Messages
    <2> QED
      OBVIOUS
  <1> HIDE DEF s, n
  <1>4. tot = [i \in 0 .. n |-> IF i = 0 THEN 0 ELSE tot[i - 1] + Weight(s[i], t)]
    <2>1. ASSUME NEW i \in 0 .. n
          PROVE  tot[i] = IF i = 0 THEN 0 ELSE tot[i - 1] + Weight(s[i], t)
      <3>1. CASE i = 0
        BY <1>2, <3>1
      <3>2. CASE i # 0
        <4>1. i \in 1 .. n
          BY <1>3, <3>2
        <4> QED
          BY <1>2, <3>2, <4>1
      <3> QED
        BY <3>1, <3>2
    <2>2. tot = [i \in 0 .. n |-> tot[i]]
      OBVIOUS
    <2> QED
      BY <2>1, <2>2
  <1>5. F = [i \in 0 .. n |-> IF i = 0 THEN 0 ELSE F[i - 1] + Weight(s[i], t)]
    BY <1>4
  <1> HIDE DEF F
  <1> DEFINE D == {i \in 0 .. n : F[i] # tot[i]}
  <1>6. D = {}
    <2> SUFFICES ASSUME D # {} PROVE FALSE
      OBVIOUS
    <2>1. D \in SUBSET Nat
      BY <1>3
    <2>2. PICK x \in D : \A y \in D : x <= y
      BY <2>1, NatMin
    <2>3. x \in 0 .. n /\ F[x] # tot[x]
      OBVIOUS
    <2>4. F[x] = IF x = 0 THEN 0 ELSE F[x - 1] + Weight(s[x], t)
      BY <1>5, <2>3
    <2>5. x # 0
      BY <1>2, <2>3, <2>4
    <2>6. x - 1 \in 0 .. n /\ x \in 1 .. n /\ ~(x <= x - 1)
      BY <1>3, <2>3, <2>5
    <2>7. F[x - 1] = tot[x - 1]
      BY <2>2, <2>6
    <2> QED
      BY <1>2, <2>3, <2>4, <2>5, <2>6, <2>7
  <1>7. n \in 0 .. n
    BY <1>3
  <1>8. F[n] = tot[n]
    BY <1>6, <1>7
  <1> QED
    BY <1>1, <1>2, <1>8

LEMMA InvIsComplete == SessionInv => OutputIsComplete
  <1> SUFFICES ASSUME SessionInv PROVE OutputIsComplete
    OBVIOUS
  <1>1. ASSUME NEW c \in Calls, Config[c].op = "command", pc[c] = "done"
        PROVE  /\ CommandDone(c) /\ got[c] \in Seq(Messages)
               /\ cmd[c].stdout \in 0 .. Limit /\ cmd[c].stderr \in 0 .. Limit
    BY <1>1 DEF SessionInv, CallInv, CallTypes, CommandOK, CommandLocals
  <1>2. ASSUME NEW c \in Calls, got[c] \in Seq(Messages), Held(c)
        PROVE  cmd[c].stdout = Bytes(c, "data") /\ cmd[c].stderr = Bytes(c, "extended")
    BY <1>2, BytesAre DEF Held
  <1>3. ASSUME NEW c \in Calls, Config[c].op = "command", result[c] = "ok"
        PROVE  /\ Received(c, "success") /\ ~Received(c, "failure")
               /\ ~connected \/ got[c][Len(got[c])].t = "close"
               /\ cmd[c].stdout = Bytes(c, "data") /\ cmd[c].stderr = Bytes(c, "extended")
               /\ cmd[c].exit = FirstExit(c)
    <2>1. pc[c] = "done"
      BY <1>3 DEF SessionInv, CallInv, Fresh
    <2>2. CommandDone(c) /\ got[c] \in Seq(Messages)
      BY <1>1, <1>3, <2>1
    <2>3. cmd[c].exit = FirstExit(c)
      BY <1>3, <2>2, FirstIs DEF CommandDone
    <2>4. cmd[c].stdout = Bytes(c, "data") /\ cmd[c].stderr = Bytes(c, "extended")
      BY <1>2, <1>3, <2>2 DEF CommandDone
    <2> QED
      BY <1>3, <2>2, <2>3, <2>4 DEF CommandDone, Received, Has
  <1>4. ASSUME NEW c \in Calls, Config[c].op = "command", pc[c] = "done"
        PROVE  result[c] = "Read" <=> Bytes(c, "data") > Limit \/ Bytes(c, "extended") > Limit
    <2>1. /\ CommandDone(c) /\ got[c] \in Seq(Messages)
          /\ cmd[c].stdout \in 0 .. Limit /\ cmd[c].stderr \in 0 .. Limit
      BY <1>1, <1>4
    <2>2. CASE result[c] = "Read"
      <3>1. PICK b \in Nat : b > Limit /\ (Counts(got[c], "data", b) \/ Counts(got[c], "extended", b))
        BY <2>1, <2>2 DEF CommandDone, TooMuch
      <3>2. Bytes(c, "data") = b \/ Bytes(c, "extended") = b
        BY <2>1, <3>1, BytesAre
      <3> QED
        BY <2>2, <3>1, <3>2
    <2>3. CASE result[c] # "Read"
      <3>1. Held(c)
        BY <2>1, <2>3 DEF CommandDone
      <3>2. cmd[c].stdout = Bytes(c, "data") /\ cmd[c].stderr = Bytes(c, "extended")
        BY <1>2, <2>1, <3>1
      <3>3. ~(Bytes(c, "data") > Limit) /\ ~(Bytes(c, "extended") > Limit)
        BY <2>1, <3>2, SessionAssumption
      <3> QED
        BY <2>3, <3>3
    <2> QED
      BY <2>2, <2>3
  <1> QED
    BY <1>3, <1>4 DEF OutputIsComplete

LEMMA InvIsOnce == SessionInv => StdinOnce
  <1> SUFFICES ASSUME SessionInv, NEW c \in Calls, Config[c].op = "command"
               PROVE  StdinIsRight(c)
    BY DEF StdinOnce, StdinIsRight, Received, Has
  <1>1. CallInv(c) /\ pc[c] \in Places
    BY DEF SessionInv, CallInv, CallTypes
  <1>2. CASE pc[c] \in Quiet
    BY <1>1, <1>2 DEF CallInv, Fresh, StdinIsRight
  <1>3. CASE pc[c] \in {"loop", "eof"}
    BY <1>1, <1>3 DEF CallInv, CommandOK, InLoop, StdinIsRight
  <1>4. CASE pc[c] = "done"
    BY <1>1, <1>4 DEF CallInv, CommandOK, CommandDone
  <1>5. pc[c] \notin {"pty", "env", "start"}
    BY <1>1 DEF CallInv, Roles, PtyShell, Interactive
  <1> QED
    BY <1>1, <1>2, <1>3, <1>4, <1>5 DEF Places, Quiet

LEMMA InvIsGranted == SessionInv => ShellIsGranted
  <1> SUFFICES ASSUME SessionInv, NEW c \in Calls, Config[c].op \in Interactive,
                      result[c] = "ok", AllReplies(got[c])
               PROVE  /\ Len(got[c]) = Requests(c)
                      /\ got[c][Len(got[c])].t = "success"
                      /\ PtyShell(c) => got[c][1].t = "success"
    BY DEF ShellIsGranted, AllReplies, Interactive, PtyShell
  <1>1. pc[c] = "done"
    BY DEF SessionInv, CallInv, Fresh
  <1>2. ShellDone(c)
    BY <1>1 DEF SessionInv, CallInv, ShellOK
  <1>3. sent[c] \in Seq(Asks) /\ Len(sent[c]) = Len(got[c])
    BY <1>2 DEF ShellDone
  <1>4. Requests(c) = Len(sent[c])
    <2>1. Requests(c) = Cardinality({i \in DOMAIN sent[c] : sent[c][i] \in Asks})
      BY DEF Requests, Asks
    <2> HIDE DEF Asks
    <2>2. {i \in DOMAIN sent[c] : sent[c][i] \in Asks} = 1 .. Len(sent[c]) /\ Len(sent[c]) \in Nat
      BY <1>3
    <2>3. Cardinality(1 .. Len(sent[c])) = Len(sent[c])
      BY <2>2, FS_Interval
    <2> QED
      BY <2>1, <2>2, <2>3
  <1> QED
    BY <1>2, <1>3, <1>4 DEF ShellDone, PtyGranted

LEMMA InvIsTyped == AuthInv /\ SessionInv => TypeOK
  <1> SUFFICES ASSUME AuthInv, SessionInv PROVE TypeOK
    OBVIOUS
  <1>1. ASSUME NEW c \in Calls PROVE CallTypes(c)
    BY DEF SessionInv, CallInv
  <1>2. /\ OnCalls(pc) /\ OnCalls(result) /\ OnCalls(open) /\ OnCalls(env) /\ OnCalls(cmd)
        /\ connected \in BOOLEAN /\ handle \in Calls \cup {Nobody}
    BY DEF SessionInv, Shape, OneUser
  <1>3. pc \in [Calls -> Places] /\ result \in [Calls -> Results]
    <2> HIDE DEF Places, Results
    <2> QED
      BY <1>1, <1>2 DEF OnCalls, CallTypes
  <1>4. open \in [Calls -> BOOLEAN] /\ env \in [Calls -> Nat]
    BY <1>1, <1>2 DEF OnCalls, CallTypes
  <1>5. cmd \in [Calls -> CommandLocals]
    <2> HIDE DEF CommandLocals
    <2> QED
      BY <1>1, <1>2 DEF OnCalls, CallTypes
  <1>6. \A c \in Calls : inbox[c] \in Seq(Messages) /\ got[c] \in Seq(Messages)
    BY <1>1 DEF CallTypes
  <1> QED
    BY <1>2, <1>3, <1>4, <1>5, <1>6 DEF TypeOK, AuthInv, Places, CommandLocals

-----------------------------------------------------------------------------
LEMMA Invariance == Spec => [](AuthInv /\ SessionInv)
  <1>1. Init => AuthInv /\ SessionInv
    BY InitAuthInv, InitSession DEF Init
  <1>2. AuthInv /\ SessionInv /\ [Next]_vars => (AuthInv /\ SessionInv)'
    BY StepAuth, StepSession
  <1> QED
    BY <1>1, <1>2, PTL DEF Spec

(* The variables have their types, whatever is configured and called.      *)
THEOREM TypeCorrect == Spec => []TypeOK
  BY Invariance, InvIsTyped, PTL

(* A command's stdin reaches the server at most once, after the exec was   *)
(* confirmed and with its EOF, for any messages in any order.              *)
THEOREM StdinGoesOnce == Spec => []StdinOnce
  BY Invariance, InvIsOnce, PTL

(* A command that succeeds was confirmed and not refused, and ended with   *)
(* the server's Close or with its connection gone; it returns every byte   *)
(* and the first exit that came.  Read is returned exactly for output      *)
(* beyond the limit.                                                       *)
THEOREM OutputIsWhole == Spec => []OutputIsComplete
  BY Invariance, InvIsComplete, PTL

(* A shell or subsystem handle is given out for requests that were all     *)
(* answered, the first and the last of them with consent.                  *)
THEOREM ShellsAreGranted == Spec => []ShellIsGranted
  BY Invariance, InvIsGranted, PTL

(* No two calls use the connection's handle at the same time, and the lock *)
(* is held by the call that does.                                          *)
THEOREM HandleHasOneUser == Spec => []OneUser
  <1>1. SessionInv => OneUser
    BY DEF SessionInv
  <1> QED
    BY <1>1, Invariance, PTL

(* No call starts before the server has let the user in.                   *)
Authenticated == \A c \in Calls : pc[c] # "idle" => granted
Connected == \A c \in Calls : pc[c] # "idle" => apc = "session"

LEMMA StepConnected ==
    ASSUME SessionInv, Connected, [Next]_vars
    PROVE  Connected'
  <1>1. CASE UNCHANGED vars
    BY <1>1 DEF vars, authVars, sessionVars, Connected
  <1>2. CASE AuthNext /\ UNCHANGED sessionVars
    <2>1. apc # "session"
      BY <1>2 DEF AuthNext, AuthStep, Connect, Try, Receive, AuthTimeOut, Exhaust, NewSession,
                  AgentAnswers, ServerAnswers, CallFails
    <2> QED
      BY <1>2, <2>1 DEF sessionVars, Connected
  <1>3. CASE SessionNext /\ UNCHANGED authVars
    <2>1. apc' = apc
      BY <1>3 DEF authVars
    <2>2. ASSUME apc # "session" PROVE pc' = pc
      <3>1. \A c \in Calls : pc[c] = "idle"
        BY <2>2 DEF Connected
      <3>2. ASSUME NEW c \in Calls, Call(c) \/ Step(c) PROVE FALSE
        BY <2>2, <3>1, <3>2 DEF Call, Step, Lock, OpenFails, Opened, Disconnect, CommandMessage,
                                CmdEof, CommandLost, PtyReply, EnvReply, StartReply
      <3>3. ASSUME NEW c \in Calls, ServerReply(c) \/ ServerSend(c) \/ ServerClose(c)
            PROVE  pc' = pc
        BY <3>3 DEF ServerReply, ServerSend, ServerClose, Deliver
      <3> QED
        BY <1>3, <3>2, <3>3 DEF SessionNext, ConnectionLost
    <2> QED
      BY <2>1, <2>2 DEF Connected
  <1> QED
    BY <1>1, <1>2, <1>3 DEF Next

(* Calls are made on a connection whose user the server has let in.        *)
THEOREM CallsAreAuthenticated == Spec => []Authenticated
  <1>1. Init => Connected
    BY DEF Init, Connected
  <1>2. SessionInv /\ Connected /\ [Next]_vars => Connected'
    BY StepConnected
  <1>3. AuthInv /\ Connected => Authenticated
    BY DEF AuthInv, Phases, VerdictIsTrue, Connected, Authenticated
  <1> QED
    BY <1>1, <1>2, <1>3, Invariance, PTL DEF Spec

=============================================================================
