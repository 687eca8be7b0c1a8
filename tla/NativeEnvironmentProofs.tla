------------------------ MODULE NativeEnvironmentProofs ------------------------
(***************************************************************************)
(* Handles, transports, the environment and the registry of TLS callbacks, *)
(* for any number of sessions, contexts, callbacks and threads: pointers   *)
(* are good, the environment goes last, and Node's callbacks are heard.    *)
(***************************************************************************)
EXTENDS NativeEnvironment, FiniteSetTheorems, TLAPS

Transport == [storage : BOOLEAN, session : BOOLEAN, ssl : Connections \cup {Plain},
              retained : BOOLEAN, active : BOOLEAN, closing : BOOLEAN,
              poll : {"none", "open", "closing", "closed"},
              destroyRequested : BOOLEAN, cleaning : BOOLEAN]
Entry == [installed : Callbacks \cup {Multiplex}, saved : Callbacks \cup {Multiplex}, owners : Nat]

\* What a transport that is there keeps to.
Sound(t) ==
    /\ t.session <=> t.storage
    /\ t.active <=> t.poll # "none"
    /\ t.destroyRequested => ~t.storage
    /\ t.cleaning => t.destroyRequested
    /\ t.retained => t.ssl # Plain

\* Object o with members t, and handle x that has a pointer to it or not.
Good(o, t, x, points) ==
    /\ points => o = "built" /\ x # "deleted" /\ t.storage
    /\ o = "built" => Sound(t) /\ (t.storage => x = "live" /\ points)
    /\ o = "deleted" => t.poll \in {"none", "closed"}
AllGood == \A h \in Sessions : Good(object[h], transport[h], handle[h], holds[h])

\* Entry e passes on to callback n, and only an entry with owners may have taken its place.
PassesOn(e, n) ==
    /\ (IF e.installed # Multiplex THEN e.installed ELSE e.saved) = n
    /\ e.owners = 0 => e.installed # Multiplex

Owners(c) == {h \in owned : c \in Used(transport[h].ssl)}
RegistryInv ==
    /\ owned = {h \in Built : transport[h].retained}
    /\ IsFiniteSet(owned)
    /\ \A c \in Contexts : contexts[c].owners = Cardinality(Owners(c))
EntriesInv == \A c \in Contexts : PassesOn(contexts[c], nodeCallback[c])

\* The sessions and the registry.
SessionTypes ==
    /\ listed \subseteq Sessions /\ owned \subseteq Sessions
    /\ handle \in [Sessions -> {"none", "live", "disposed", "deleted"}]
    /\ holds \in [Sessions -> BOOLEAN]
    /\ object \in [Sessions -> {"none", "built", "deleted"}]
    /\ transport \in [Sessions -> Transport]
    /\ contexts \in [Contexts -> Entry]
    /\ nodeHolds \subseteq Contexts /\ nodeCallback \in [Contexts -> Callbacks]
SessionInv == SessionTypes /\ AllGood /\ listed = Built /\ RegistryInv /\ EntriesInv

\* The environment: cleanup is marked in transports after it has left the table, and the sweep
\* visits what is in the list.
EnvironmentInv ==
    /\ environment \in {"none", "running", "sweeping", "cleaning"} /\ registered \in BOOLEAN
    /\ starts \in 0..MaxStarts /\ sweep \subseteq Sessions
    /\ environment = "none" => Built = {}
    /\ registered <=> environment = "running"
    /\ environment = "running" => \A h \in Built : ~transport[h].cleaning
    /\ environment = "sweeping" => sweep \subseteq listed

IInv == SessionInv /\ EnvironmentInv

-----------------------------------------------------------------------------
(* The registry *)

Retain1(e) == IF e.owners = 0 THEN Context(Multiplex, e.installed, 1)
              ELSE [e EXCEPT !.owners = @ + 1]
Release1(e) == IF e.owners = 0 THEN e
               ELSE IF e.owners > 1 THEN [e EXCEPT !.owners = @ - 1]
               ELSE NoEntry(IF e.installed = Multiplex THEN e.saved ELSE e.installed)

\* One entry gains or loses an owner, and passes on as before.
LEMMA EntryStep ==
    ASSUME NEW e \in Entry, NEW n \in Callbacks, PassesOn(e, n)
    PROVE  /\ Retain1(e) \in Entry /\ Retain1(e).owners = e.owners + 1
           /\ PassesOn(Retain1(e), n)
           /\ Release1(e) \in Entry /\ (e.owners > 0 => Release1(e).owners = e.owners - 1)
           /\ PassesOn(Release1(e), n)
<1>1. n # Multiplex /\ e.owners \in Nat
    BY MultiplexAssumption DEF Entry
<1>2. CASE e.owners = 0
    BY <1>1, <1>2 DEF Entry, PassesOn, Retain1, Release1, Context
<1>3. CASE e.owners = 1
    BY <1>1, <1>3 DEF Entry, PassesOn, Retain1, Release1, Context, NoEntry
<1>4. CASE e.owners > 1
    BY <1>1, <1>4 DEF Entry, PassesOn, Retain1, Release1
<1> QED
    BY <1>1, <1>2, <1>3, <1>4

\* retainTLSCallbacks() and releaseTLSCallbacks() reach each context of a connection once, also
\* when its two contexts are one.
LEMMA ContextsStep ==
    ASSUME NEW cs \in [Contexts -> Entry], NEW ssl \in Contexts \X Contexts
    PROVE  /\ Used(ssl) \subseteq Contexts
           /\ retained(cs, ssl) =
                [c \in Contexts |-> IF c \in Used(ssl) THEN Retain1(cs[c]) ELSE cs[c]]
           /\ released(cs, ssl) =
                [c \in Contexts |-> IF c \in Used(ssl) THEN Release1(cs[c]) ELSE cs[c]]
<1>1. PICK a \in Contexts, b \in Contexts : ssl = <<a, b>>
    OBVIOUS
<1>2. ssl[1] = a /\ ssl[2] = b /\ Used(ssl) = {a, b}
    BY <1>1 DEF Used
<1>3. ASSUME NEW ds \in [Contexts -> Entry], NEW c \in Contexts
      PROVE  /\ retainTLSContext(ds, c) = [ds EXCEPT ![c] = Retain1(ds[c])]
             /\ releaseTLSContext(ds, c) = [ds EXCEPT ![c] = Release1(ds[c])]
    BY DEF retainTLSContext, releaseTLSContext, Retain1, Release1
<1>4. ASSUME NEW e \in Entry PROVE Retain1(e) \in Entry /\ Release1(e) \in Entry
  <2>1. CASE e.owners = 0
    BY <2>1 DEF Entry, Retain1, Release1, Context
  <2>2. CASE e.owners # 0
    BY <2>2 DEF Entry, Retain1, Release1, Context, NoEntry
  <2> QED
    BY <2>1, <2>2
<1>5. retained(cs, ssl) = [c \in Contexts |-> IF c \in Used(ssl) THEN Retain1(cs[c]) ELSE cs[c]]
  <2> DEFINE first == [cs EXCEPT ![a] = Retain1(cs[a])]
  <2>1. first \in [Contexts -> Entry] /\ retainTLSContext(cs, a) = first
    BY <1>3, <1>4
  <2>2. retainTLSContext(first, b) = [first EXCEPT ![b] = Retain1(first[b])]
    BY <1>3, <2>1
  <2>3. b # a => first[b] = cs[b]
    OBVIOUS
  <2>4. retained(cs, ssl) = IF b = a THEN first ELSE [first EXCEPT ![b] = Retain1(first[b])]
    BY <1>2, <2>1, <2>2 DEF retained
  <2> QED
    BY <1>2, <2>3, <2>4
<1>6. released(cs, ssl) = [c \in Contexts |-> IF c \in Used(ssl) THEN Release1(cs[c]) ELSE cs[c]]
  <2> DEFINE first == IF b = a THEN cs ELSE [cs EXCEPT ![b] = Release1(cs[b])]
  <2>1. first \in [Contexts -> Entry]
        /\ first = IF b = a THEN cs ELSE releaseTLSContext(cs, b)
    BY <1>3, <1>4
  <2>2. releaseTLSContext(first, a) = [first EXCEPT ![a] = Release1(first[a])]
    BY <1>3, <2>1
  <2>3. first[a] = cs[a]
    OBVIOUS
  <2>4. released(cs, ssl) = [first EXCEPT ![a] = Release1(first[a])]
    BY <1>2, <2>1, <2>2 DEF released
  <2> QED
    BY <1>2, <2>3, <2>4
<1> QED
    BY <1>2, <1>5, <1>6

\* An owner more or less, in the count of one context.
LEMMA OwnersStep ==
    ASSUME NEW S, IsFiniteSet(S), NEW h
    PROVE  /\ IsFiniteSet(S \cup {h}) /\ IsFiniteSet(S \ {h})
           /\ Cardinality(S) \in Nat
           /\ h \notin S => Cardinality(S \cup {h}) = Cardinality(S) + 1
           /\ h \in S => Cardinality(S) > 0 /\ Cardinality(S \ {h}) = Cardinality(S) - 1
<1>1. /\ IsFiniteSet(S \cup {h})
      /\ h \notin S => Cardinality(S \cup {h}) = Cardinality(S) + 1
    BY FS_AddElement
<1>2. /\ IsFiniteSet(S \ {h})
      /\ h \in S => Cardinality(S \ {h}) = Cardinality(S) - 1
    BY FS_RemoveElement
<1>3. Cardinality(S) \in Nat /\ Cardinality(S \ {h}) \in Nat
    BY <1>2, FS_CardinalityType
<1> QED
    BY <1>1, <1>2, <1>3

-----------------------------------------------------------------------------
(* One transport changes, stays or goes *)

\* A transport changes, but neither its connection nor whether it is in the registry.
LEMMA KeptRegistry ==
    ASSUME SessionTypes, RegistryInv, EntriesInv, NEW h \in Sessions, NEW t \in Transport,
           t.ssl = transport[h].ssl, t.retained = transport[h].retained,
           transport' = [transport EXCEPT ![h] = t],
           UNCHANGED <<object, owned, contexts, nodeCallback>>
    PROVE  RegistryInv' /\ EntriesInv'
<1>1. Built' = Built
    BY DEF Built
<1>2. \A s \in Sessions : /\ transport'[s].ssl = transport[s].ssl
                          /\ transport'[s].retained = transport[s].retained
    BY DEF SessionTypes
<1>3. {s \in Built : transport[s].retained}' = {s \in Built : transport[s].retained}
    BY <1>1, <1>2 DEF Built
<1>4. ASSUME NEW c PROVE Owners(c)' = Owners(c)
    BY <1>2 DEF Owners, SessionTypes
<1>5. RegistryInv'
    BY <1>3, <1>4 DEF RegistryInv
<1>6. EntriesInv'
    BY DEF EntriesInv
<1> QED
    BY <1>5, <1>6

\* A transport is deleted: it gives up its entries of the registry, if it has any.
LEMMA DeletedRegistry ==
    ASSUME SessionTypes, RegistryInv, EntriesInv, NEW h \in Built, NEW t \in Transport,
           t.retained = transport[h].retained, t.ssl = transport[h].ssl,
           t.retained => t.ssl # Plain,
           Delete(h, t), UNCHANGED nodeCallback
    PROVE  /\ RegistryInv' /\ EntriesInv'
           /\ contexts' \in [Contexts -> Entry] /\ owned' \subseteq Sessions
<1> DEFINE gone == [t EXCEPT !.ssl = Plain, !.retained = FALSE]
<1>1. h \in Sessions /\ object[h] = "built"
    BY DEF Built
<1>2. /\ transport' = [transport EXCEPT ![h] = gone]
      /\ object' = [object EXCEPT ![h] = "deleted"]
    BY DEF Delete
<1>3. ~gone.retained
    BY DEF Transport
<1>4. Built' = Built \ {h}
    BY <1>1, <1>2 DEF Built, SessionTypes
<1>5. \A s \in Sessions \ {h} : transport'[s] = transport[s]
    BY <1>2 DEF SessionTypes
<1> HIDE DEF gone
<1>6. {s \in Built : transport[s].retained}' = {s \in Built : transport[s].retained} \ {h}
  <2>1. Built' \subseteq Sessions \ {h}
    BY <1>4 DEF Built
  <2> QED
    BY <1>4, <1>5, <2>1 DEF Built
<1>7. CASE ~t.retained
  <2>1. UNCHANGED <<owned, contexts>>
    BY <1>7 DEF Delete
  <2>2. h \notin owned
    BY <1>7 DEF RegistryInv
  <2>3. ASSUME NEW c PROVE Owners(c)' = Owners(c)
    BY <1>5, <2>1, <2>2 DEF Owners, SessionTypes
  <2>4. RegistryInv'
    BY <1>6, <2>1, <2>2, <2>3 DEF RegistryInv
  <2> QED
    BY <2>1, <2>4 DEF EntriesInv, SessionTypes
<1>8. CASE t.retained
  <2> DEFINE ssl == t.ssl
  <2>1. ssl \in Contexts \X Contexts
    BY <1>8, ConnectionsAssumption DEF Transport
  <2>2. owned' = owned \ {h} /\ contexts' = released(contexts, ssl)
    BY <1>8 DEF Delete
  <2>3. h \in owned
    BY <1>8 DEF RegistryInv
  <2> HIDE DEF ssl
  <2>4. contexts' = [c \in Contexts |-> IF c \in Used(ssl) THEN Release1(contexts[c])
                                        ELSE contexts[c]]
    BY <2>1, <2>2, ContextsStep DEF SessionTypes
  <2>5. ASSUME NEW c \in Contexts
        PROVE  /\ contexts'[c] \in Entry /\ PassesOn(contexts'[c], nodeCallback[c])
               /\ contexts'[c].owners = Cardinality(Owners(c)')
    <3>1. /\ contexts[c] \in Entry /\ nodeCallback[c] \in Callbacks
          /\ PassesOn(contexts[c], nodeCallback[c])
      BY DEF SessionTypes, EntriesInv
    <3>2. IsFiniteSet(Owners(c)) /\ contexts[c].owners = Cardinality(Owners(c))
      <4>1. Owners(c) \subseteq owned /\ IsFiniteSet(owned)
        BY DEF Owners, RegistryInv
      <4> QED
        BY <4>1, FS_Subset DEF RegistryInv
    <3>3. CASE c \in Used(ssl)
      <4>1. Owners(c)' = Owners(c) \ {h} /\ h \in Owners(c)
        BY <1>5, <2>2, <2>3, <3>3 DEF Owners, SessionTypes, ssl
      <4>2. contexts'[c] = Release1(contexts[c])
        BY <2>4, <3>3
      <4>3. Cardinality(Owners(c)) > 0 /\ Cardinality(Owners(c)') = Cardinality(Owners(c)) - 1
        BY <3>2, <4>1, OwnersStep
      <4> QED
        BY <3>1, <3>2, <4>2, <4>3, EntryStep
    <3>4. CASE c \notin Used(ssl)
      <4>1. Owners(c)' = Owners(c)
        BY <1>5, <2>2, <2>3, <3>4 DEF Owners, SessionTypes, ssl
      <4> QED
        BY <2>4, <3>1, <3>2, <3>4, <4>1
    <3> QED
      BY <3>3, <3>4
  <2>6. IsFiniteSet(owned')
    BY <2>2, OwnersStep DEF RegistryInv
  <2>7. RegistryInv'
    BY <1>6, <2>2, <2>5, <2>6 DEF RegistryInv
  <2>8. contexts' \in [Contexts -> Entry]
    BY <2>4, <2>5
  <2> QED
    BY <2>2, <2>5, <2>7, <2>8 DEF EntriesInv, SessionTypes
<1> QED
    BY <1>7, <1>8

\* One handle and its transport change, to what is good.
LEMMA GoodStep ==
    ASSUME SessionTypes, AllGood, NEW h \in Sessions, NEW o, NEW t, NEW x, NEW points,
           Good(o, t, x, points),
           object' = [object EXCEPT ![h] = o], transport' = [transport EXCEPT ![h] = t],
           handle' = [handle EXCEPT ![h] = x], holds' = [holds EXCEPT ![h] = points]
    PROVE  AllGood'
<1>1. Good(object'[h], transport'[h], handle'[h], holds'[h])
    BY DEF SessionTypes
<1>2. \A s \in Sessions \ {h} : Good(object'[s], transport'[s], handle'[s], holds'[s])
    BY DEF SessionTypes, AllGood
<1> QED
    BY <1>1, <1>2 DEF AllGood

LEMMA KeepStep ==
    ASSUME SessionInv, NEW h \in Built, NEW t \in Transport, Keep(h, t),
           NEW x \in {"none", "live", "disposed", "deleted"}, NEW points \in BOOLEAN,
           Good("built", t, x, points), t.ssl = transport[h].ssl,
           t.retained = transport[h].retained,
           handle' = [handle EXCEPT ![h] = x], holds' = [holds EXCEPT ![h] = points],
           UNCHANGED <<nodeHolds, nodeCallback>>
    PROVE  SessionInv' /\ Built' = Built
<1>1. h \in Sessions /\ object[h] = "built"
    BY DEF Built
<1>2. object' = [object EXCEPT ![h] = "built"] /\ UNCHANGED object
    BY <1>1 DEF Keep, SessionInv, SessionTypes
<1>3. AllGood'
    BY <1>1, <1>2, GoodStep DEF Keep, SessionInv
<1>4. RegistryInv' /\ EntriesInv'
    BY <1>1, KeptRegistry DEF Keep, SessionInv
<1>5. SessionTypes'
    BY <1>1 DEF Keep, SessionInv, SessionTypes
<1> QED
    BY <1>2, <1>3, <1>4, <1>5 DEF Keep, SessionInv, Built

LEMMA DeleteStep ==
    ASSUME SessionInv, NEW h \in Built, NEW t \in Transport, Delete(h, t),
           NEW x \in {"none", "live", "disposed", "deleted"},
           t.poll \in {"none", "closed"}, t.ssl = transport[h].ssl,
           t.retained = transport[h].retained,
           handle' = [handle EXCEPT ![h] = x], holds' = [holds EXCEPT ![h] = FALSE],
           UNCHANGED <<nodeHolds, nodeCallback>>
    PROVE  SessionInv' /\ Built' = Built \ {h}
<1> DEFINE gone == [t EXCEPT !.ssl = Plain, !.retained = FALSE]
<1>1. h \in Sessions /\ object[h] = "built" /\ SessionTypes
    BY DEF Built, SessionInv
<1>2. /\ transport' = [transport EXCEPT ![h] = gone]
      /\ object' = [object EXCEPT ![h] = "deleted"] /\ listed' = listed \ {h}
    BY DEF Delete
<1>3. gone \in Transport /\ gone.poll \in {"none", "closed"}
    BY DEF Transport
<1>4. t.retained => t.ssl # Plain
    BY <1>1 DEF SessionInv, AllGood, Good, Sound
<1>5. Built' = Built \ {h}
    BY <1>1, <1>2 DEF Built, SessionTypes
<1> HIDE DEF gone
<1>6. AllGood'
  <2>1. Good("deleted", gone, x, FALSE)
    BY <1>3 DEF Good
  <2> QED
    BY <1>1, <1>2, <2>1, GoodStep DEF SessionInv
<1>7. /\ RegistryInv' /\ EntriesInv'
      /\ contexts' \in [Contexts -> Entry] /\ owned' \subseteq Sessions
    BY <1>4, DeletedRegistry DEF SessionInv
<1>8. SessionTypes'
    BY <1>1, <1>2, <1>3, <1>7 DEF SessionTypes
<1> QED
    BY <1>2, <1>5, <1>6, <1>7, <1>8 DEF SessionInv

-----------------------------------------------------------------------------
(* The operations *)

\* closeNow() and the preparations of a transport that is to go.
LEMMA MembersStep ==
    ASSUME NEW t \in Transport, Sound(t)
    PROVE  /\ Closed(t) \in Transport /\ Doomed(t) \in Transport
           /\ Sound(Closed(t)) /\ Sound(Doomed(t)) /\ ~Doomed(t).storage
           /\ Closed(t).ssl = t.ssl /\ Closed(t).retained = t.retained
           /\ Doomed(t).ssl = t.ssl /\ Doomed(t).retained = t.retained
           /\ Closed(t).storage = t.storage /\ Doomed(t).poll = t.poll
           /\ Closed(t).cleaning = t.cleaning /\ Doomed(t).cleaning = t.cleaning
           /\ t.poll \in {"none", "closed"} => Closed(t).poll = t.poll
<1>1. t.poll \in {"none", "open", "closing", "closed"}
    BY DEF Transport
<1>2. /\ Closed(t) \in Transport
      /\ Closed(t).ssl = t.ssl /\ Closed(t).retained = t.retained
      /\ Closed(t).storage = t.storage /\ Closed(t).session = t.session
      /\ Closed(t).active = t.active /\ Closed(t).destroyRequested = t.destroyRequested
      /\ Closed(t).cleaning = t.cleaning
      /\ Closed(t).poll \in {t.poll, "closing"}
      /\ t.poll # "open" => Closed(t).poll = t.poll
    BY DEF Transport, Closed
<1>3. Closed(t).poll = "none" <=> t.poll = "none"
    BY <1>1, <1>2
<1>4. /\ Doomed(t) \in Transport
      /\ Doomed(t).ssl = t.ssl /\ Doomed(t).retained = t.retained
      /\ ~Doomed(t).storage /\ ~Doomed(t).session
      /\ Doomed(t).active = t.active /\ Doomed(t).destroyRequested
      /\ Doomed(t).cleaning = t.cleaning /\ Doomed(t).poll = t.poll
    BY DEF Transport, Doomed
<1> QED
    BY <1>2, <1>3, <1>4 DEF Sound

\* The members of a transport that is there.
LEMMA BuiltMembers ==
    ASSUME SessionInv, NEW h \in Built
    PROVE  /\ h \in Sessions /\ object[h] = "built" /\ transport[h] \in Transport
           /\ Sound(transport[h]) /\ holds[h] \in BOOLEAN
           /\ handle[h] \in {"none", "live", "disposed", "deleted"}
           /\ holds[h] => handle[h] # "deleted" /\ transport[h].storage
           /\ transport[h].storage => handle[h] = "live" /\ holds[h]
    BY DEF SessionInv, SessionTypes, AllGood, Good, Built

LEMMA InitialStep ==
    ASSUME Init
    PROVE  IInv
<1>1. \A h \in Sessions : New(Plain) \in Transport
    BY DEF Transport, New
<1>2. \A c \in Contexts : NoEntry(nodeCallback[c]) \in Entry
    BY DEF Init, TLSInit, NoEntry, Context, Entry
<1>3. Built = {}
    BY DEF Init, Built
<1>4. SessionTypes
    BY <1>1, <1>2 DEF Init, TLSInit, SessionTypes
<1>5. AllGood
    BY DEF Init, AllGood, Good
<1>6. RegistryInv
  <2>1. \A c \in Contexts : Owners(c) = {} /\ contexts[c].owners = 0
    BY DEF Init, TLSInit, Owners, NoEntry, Context
  <2> QED
    BY <1>3, <2>1, FS_EmptySet DEF Init, RegistryInv
<1>7. EntriesInv
    BY MultiplexAssumption DEF Init, TLSInit, EntriesInv, PassesOn, NoEntry, Context
<1>8. EnvironmentInv
  <2>1. environment = "none" /\ registered = FALSE /\ starts = 0 /\ sweep = {}
    BY DEF Init
  <2>2. MaxStarts \in Nat
    BY ConnectionsAssumption
  <2>3. starts \in 0..MaxStarts
    BY <2>1, <2>2
  <2> QED
    BY <1>3, <2>1, <2>3 DEF EnvironmentInv
<1> QED
    BY <1>3, <1>4, <1>5, <1>6, <1>7, <1>8 DEF IInv, SessionInv, Init

\* Nothing of the sessions changes but a handle without a transport.
LEMMA HandleStep ==
    ASSUME SessionInv, NEW h \in Sessions, NEW x \in {"none", "live", "disposed", "deleted"},
           ~holds[h], ~(object[h] = "built" /\ transport[h].storage),
           handle' = [handle EXCEPT ![h] = x], holds' = [holds EXCEPT ![h] = FALSE],
           UNCHANGED <<transportVars, nodeHolds, nodeCallback>>
    PROVE  SessionInv' /\ Built' = Built
<1> USE DEF transportVars
<1>1. SessionTypes'
    BY DEF SessionInv, SessionTypes
<1>2. AllGood'
  <2>1. Good(object[h], transport[h], x, FALSE)
    BY DEF SessionInv, AllGood, Good
  <2>2. /\ object' = [object EXCEPT ![h] = object[h]]
        /\ transport' = [transport EXCEPT ![h] = transport[h]]
    BY DEF SessionInv, SessionTypes
  <2> QED
    BY <2>1, <2>2, GoodStep DEF SessionInv
<1>3. Built' = Built
    BY DEF Built
<1>4. RegistryInv' /\ EntriesInv'
    BY DEF SessionInv, RegistryInv, EntriesInv, Owners, Built
<1> QED
    BY <1>1, <1>2, <1>3, <1>4 DEF SessionInv

LEMMA SessionsStutter ==
    ASSUME SessionInv, UNCHANGED <<handle, holds, transportVars, nodeHolds, nodeCallback>>
    PROVE  SessionInv' /\ Built' = Built
    BY DEF SessionInv, SessionTypes, AllGood, RegistryInv, EntriesInv, Owners, Built,
           transportVars

LEMMA InitializeStep ==
    ASSUME IInv, Initialize
    PROVE  IInv'
<1>1. SessionInv' /\ Built' = Built
    BY SessionsStutter DEF IInv, Initialize
<1>2. EnvironmentInv'
    BY <1>1, ConnectionsAssumption DEF IInv, Initialize, EnvironmentInv
<1> QED
    BY <1>1, <1>2 DEF IInv

LEMMA CleanupHookStep ==
    ASSUME IInv, CleanupHook
    PROVE  IInv'
<1>1. SessionInv' /\ Built' = Built
    BY SessionsStutter DEF IInv, CleanupHook
<1>2. listed = Built /\ listed' = Built /\ listed \subseteq Sessions
    BY <1>1 DEF IInv, SessionInv, SessionTypes
<1>3. EnvironmentInv'
    BY <1>1, <1>2 DEF IInv, CleanupHook, EnvironmentInv
<1> QED
    BY <1>1, <1>3 DEF IInv

\* An environment that stays as it is, with transports that are no others and not marked.
LEMMA EnvironmentStays ==
    ASSUME IInv, UNCHANGED environmentVars, Built' \subseteq Built, listed' = Built',
           environment # "sweeping",
           environment = "running" => \A s \in Built' : ~transport'[s].cleaning
    PROVE  EnvironmentInv'
    BY DEF IInv, SessionInv, EnvironmentInv, environmentVars

LEMMA CreateSessionStep ==
    ASSUME IInv, NEW h \in Sessions, CreateSession(h)
    PROVE  IInv'
<1> USE DEF CreateSession, transportVars
<1>1. ~holds[h] /\ ~(object[h] = "built" /\ transport[h].storage)
  <2>1. Good(object[h], transport[h], "none", holds[h])
    BY DEF IInv, SessionInv, AllGood
  <2> QED
    BY <2>1 DEF Good
<1>2. holds' = [holds EXCEPT ![h] = FALSE]
    BY <1>1 DEF IInv, SessionInv, SessionTypes
<1>3. SessionInv' /\ Built' = Built
    BY <1>1, <1>2, HandleStep DEF IInv
<1>4. EnvironmentInv'
    BY <1>3 DEF IInv, EnvironmentInv, environmentVars
<1> QED
    BY <1>3, <1>4 DEF IInv

\* The environment while a single transport, h, changes or goes.
LEMMA OneChanges ==
    ASSUME IInv, NEW h \in Sessions, UNCHANGED environmentVars, environment # "sweeping",
           SessionInv', Built' \subseteq Built,
           \A s \in Built' \ {h} : transport'[s] = transport[s],
           h \in Built' /\ environment = "running" => ~transport'[h].cleaning
    PROVE  IInv'
<1>1. listed' = Built'
    BY DEF SessionInv
<1>2. environment = "running" => \A s \in Built' : ~transport'[s].cleaning
    BY DEF IInv, EnvironmentInv
<1>3. EnvironmentInv'
    BY <1>1, <1>2, EnvironmentStays
<1> QED
    BY <1>3 DEF IInv

\* attachTransport()
LEMMA AttachStep ==
    ASSUME IInv, NEW h \in Sessions, NEW ssl \in Connections \cup {Plain}, Attach(h, ssl)
    PROVE  IInv'
<1> USE DEF Attach
<1>1. /\ New(ssl) \in Transport /\ ~New(ssl).retained /\ ~New(ssl).cleaning
      /\ Good("built", New(ssl), "live", TRUE)
    BY DEF New, Transport, Good, Sound
<1>2. SessionTypes
    BY DEF IInv, SessionInv
<1>3. h \notin Built /\ Built' = Built \cup {h}
    BY <1>2 DEF Built, SessionTypes
<1>4. \A s \in Sessions \ {h} : transport'[s] = transport[s]
    BY <1>2 DEF SessionTypes
<1>5. transport'[h] = New(ssl)
    BY <1>2 DEF SessionTypes
<1>6. SessionTypes'
    BY <1>1, <1>2 DEF SessionTypes
<1>7. AllGood'
  <2>1. handle' = [handle EXCEPT ![h] = "live"]
    BY <1>2 DEF SessionTypes
  <2> QED
    BY <1>1, <1>2, <2>1, GoodStep DEF IInv, SessionInv
<1>8. RegistryInv'
  <2>1. h \notin owned /\ owned \subseteq Sessions
    BY <1>2, <1>3 DEF IInv, SessionInv, RegistryInv, SessionTypes
  <2>2. owned' = {s \in Built : transport[s].retained}'
    BY <1>1, <1>3, <1>4, <1>5 DEF IInv, SessionInv, RegistryInv, Built
  <2>3. ASSUME NEW c PROVE Owners(c)' = Owners(c)
    BY <1>4, <2>1 DEF Owners
  <2> QED
    BY <2>2, <2>3 DEF IInv, SessionInv, RegistryInv
<1>9. EntriesInv'
    BY DEF IInv, SessionInv, EntriesInv
<1>10. SessionInv'
    BY <1>3, <1>6, <1>7, <1>8, <1>9 DEF IInv, SessionInv
<1>11. \A s \in Built' : ~transport'[s].cleaning
    BY <1>1, <1>3, <1>4, <1>5 DEF IInv, EnvironmentInv, Built
<1>12. EnvironmentInv'
    BY <1>11 DEF IInv, EnvironmentInv, environmentVars
<1> QED
    BY <1>10, <1>12 DEF IInv

\* A transport is retained as it becomes active, or fails to: retainTLSCallbacks().
LEMMA RetainedRegistry ==
    ASSUME SessionTypes, RegistryInv, EntriesInv, NEW h \in Built, NEW t \in Transport,
           t.retained <=> t.ssl # Plain, t.ssl = transport[h].ssl, ~transport[h].retained,
           Retain(h), transport' = [transport EXCEPT ![h] = t],
           UNCHANGED <<object, nodeCallback>>
    PROVE  /\ RegistryInv' /\ EntriesInv'
           /\ contexts' \in [Contexts -> Entry] /\ owned' \subseteq Sessions
<1>1. h \in Sessions /\ Built' = Built /\ h \notin owned
    BY DEF Built, RegistryInv
<1>2. \A s \in Sessions \ {h} : transport'[s] = transport[s]
    BY DEF SessionTypes
<1>3. transport'[h] = t
    BY <1>1 DEF SessionTypes
<1>4. CASE t.ssl = Plain
  <2>1. t.retained = transport[h].retained
    BY <1>1, <1>4 DEF SessionTypes, Transport
  <2>2. UNCHANGED <<owned, contexts>>
    BY <1>4 DEF Retain
  <2> QED
    BY <1>1, <2>1, <2>2, KeptRegistry DEF SessionTypes
<1>5. CASE t.ssl # Plain
  <2> DEFINE ssl == t.ssl
  <2>1. ssl \in Contexts \X Contexts
    BY <1>5, ConnectionsAssumption DEF Transport
  <2>2. owned' = owned \cup {h} /\ contexts' = retained(contexts, ssl)
    BY <1>5 DEF Retain
  <2>3. transport'[h].ssl = ssl
    BY <1>3
  <2> HIDE DEF ssl
  <2>4. contexts' = [c \in Contexts |-> IF c \in Used(ssl) THEN Retain1(contexts[c])
                                        ELSE contexts[c]]
    BY <2>1, <2>2, ContextsStep DEF SessionTypes
  <2>5. ASSUME NEW c \in Contexts
        PROVE  /\ contexts'[c] \in Entry /\ PassesOn(contexts'[c], nodeCallback[c])
               /\ contexts'[c].owners = Cardinality(Owners(c)')
    <3>1. /\ contexts[c] \in Entry /\ nodeCallback[c] \in Callbacks
          /\ PassesOn(contexts[c], nodeCallback[c])
      BY DEF SessionTypes, EntriesInv
    <3>2. IsFiniteSet(Owners(c)) /\ contexts[c].owners = Cardinality(Owners(c))
      <4>1. Owners(c) \subseteq owned /\ IsFiniteSet(owned)
        BY DEF Owners, RegistryInv
      <4> QED
        BY <4>1, FS_Subset DEF RegistryInv
    <3>3. CASE c \in Used(ssl)
      <4>1. Owners(c)' = Owners(c) \cup {h} /\ h \notin Owners(c)
        BY <1>1, <1>2, <2>2, <2>3, <3>3 DEF Owners, SessionTypes
      <4>2. contexts'[c] = Retain1(contexts[c])
        BY <2>4, <3>3
      <4>3. Cardinality(Owners(c)') = Cardinality(Owners(c)) + 1
        BY <3>2, <4>1, OwnersStep
      <4> QED
        BY <3>1, <3>2, <4>2, <4>3, EntryStep
    <3>4. CASE c \notin Used(ssl)
      <4>1. Owners(c)' = Owners(c)
        BY <1>1, <1>2, <2>2, <2>3, <3>4 DEF Owners, SessionTypes
      <4> QED
        BY <2>4, <3>1, <3>2, <3>4, <4>1
    <3> QED
      BY <3>3, <3>4
  <2>6. IsFiniteSet(owned')
    BY <2>2, OwnersStep DEF RegistryInv
  <2>7. owned' = {s \in Built : transport[s].retained}'
    BY <1>1, <1>2, <1>3, <1>5, <2>2 DEF RegistryInv, Built
  <2>8. contexts' \in [Contexts -> Entry]
    BY <2>4, <2>5
  <2> QED
    BY <1>1, <2>2, <2>5, <2>6, <2>7, <2>8 DEF RegistryInv, EntriesInv, SessionTypes
<1> QED
    BY <1>4, <1>5

\* activate(), whether it succeeds, fails or fails after a success
LEMMA ActivateStep ==
    ASSUME IInv, NEW h \in Sessions, Activate(h)
    PROVE  IInv'
<1> DEFINE t == [transport[h] EXCEPT !.retained = transport[h].ssl # Plain]
           open == [t EXCEPT !.active = TRUE, !.poll = "open"]
<1>1. SessionTypes /\ SessionInv
    BY DEF IInv, SessionInv
<1>2. object[h] = "built" /\ handle[h] = "live" /\ holds[h] /\ transport[h].storage
    BY <1>1 DEF Activate, SessionInv, AllGood, Good
<1>3. h \in Built
    BY <1>2 DEF Built
<1>4. transport[h] \in Transport /\ Sound(transport[h])
    BY <1>1, <1>3, BuiltMembers
<1>5. /\ environment = "running" /\ ~transport[h].active /\ ~transport[h].retained
      /\ Retain(h)
      /\ UNCHANGED <<environmentVars, handle, holds, object, listed, nodeHolds, nodeCallback>>
    BY DEF Activate
<1>6. PICK after \in {t, open, Closed(open)} : transport' = [transport EXCEPT ![h] = after]
    BY DEF Activate
<1>7. /\ t \in Transport /\ t.ssl = transport[h].ssl /\ (t.retained <=> t.ssl # Plain)
      /\ t.storage /\ t.cleaning = transport[h].cleaning
      /\ Sound(t)
    BY <1>2, <1>4 DEF Transport, Sound
<1>8. /\ open \in Transport /\ open.ssl = t.ssl /\ (open.retained <=> open.ssl # Plain)
      /\ open.storage /\ open.cleaning = t.cleaning /\ Sound(open)
  <2> HIDE DEF t
  <2> QED
    BY <1>7 DEF Transport, Sound
<1> HIDE DEF t, open
<1>9. /\ after \in Transport /\ after.ssl = transport[h].ssl
      /\ after.retained <=> after.ssl # Plain
      /\ after.storage /\ Sound(after) /\ after.cleaning = transport[h].cleaning
    BY <1>7, <1>8, MembersStep
<1>10. /\ RegistryInv' /\ EntriesInv'
       /\ contexts' \in [Contexts -> Entry] /\ owned' \subseteq Sessions
    BY <1>1, <1>3, <1>5, <1>6, <1>9, RetainedRegistry DEF SessionInv
<1>11. AllGood'
  <2>1. Good("built", after, "live", TRUE)
    BY <1>9 DEF Good
  <2>2. /\ object' = [object EXCEPT ![h] = "built"]
        /\ handle' = [handle EXCEPT ![h] = "live"] /\ holds' = [holds EXCEPT ![h] = TRUE]
    BY <1>1, <1>2, <1>5 DEF SessionTypes
  <2> QED
    BY <1>1, <1>6, <2>1, <2>2, GoodStep DEF SessionInv
<1>12. SessionTypes'
    BY <1>1, <1>5, <1>6, <1>9, <1>10 DEF SessionTypes
<1>13. Built' = Built
    BY <1>5 DEF Built
<1>14. SessionInv'
    BY <1>1, <1>5, <1>10, <1>11, <1>12, <1>13 DEF SessionInv
<1>15. ~transport'[h].cleaning
    BY <1>1, <1>3, <1>5, <1>6, <1>9 DEF IInv, EnvironmentInv, SessionTypes
<1>16. \A s \in Built' \ {h} : transport'[s] = transport[s]
    BY <1>1, <1>6, <1>13 DEF SessionTypes, Built
<1> QED
    BY <1>5, <1>13, <1>14, <1>15, <1>16, OneChanges

\* terminateTransport(), or a failure
LEMMA CloseStep ==
    ASSUME IInv, NEW h \in Sessions, Close(h)
    PROVE  IInv'
<1> DEFINE t == Closed(transport[h])
<1>1. SessionInv /\ h \in Built
    BY DEF IInv, Close, Built
<1>2. /\ transport[h] \in Transport /\ Sound(transport[h]) /\ holds[h] \in BOOLEAN
      /\ handle[h] \in {"none", "live", "disposed", "deleted"}
      /\ Good("built", transport[h], handle[h], holds[h])
    BY <1>1, BuiltMembers DEF SessionInv, AllGood, Built
<1>3. /\ t \in Transport /\ Sound(t) /\ t.ssl = transport[h].ssl
      /\ t.retained = transport[h].retained /\ t.storage = transport[h].storage
      /\ t.cleaning = transport[h].cleaning
    BY <1>2, MembersStep
<1>4. transport' = [transport EXCEPT ![h] = t] /\ environment = "running"
      /\ UNCHANGED <<environmentVars, handle, holds, object, listed, owned, contexts,
                     nodeHolds, nodeCallback>>
    BY DEF Close
<1> HIDE DEF t
<1>5. Good("built", t, handle[h], holds[h])
    BY <1>2, <1>3 DEF Good
<1>6. /\ handle' = [handle EXCEPT ![h] = handle[h]] /\ holds' = [holds EXCEPT ![h] = holds[h]]
    BY <1>1, <1>4 DEF SessionInv, SessionTypes
<1>7. SessionInv' /\ Built' = Built
  <2>1. Keep(h, t) /\ UNCHANGED <<nodeHolds, nodeCallback>>
    BY <1>4 DEF Keep
  <2> QED
    BY <1>1, <1>2, <1>3, <1>5, <1>6, <2>1, KeepStep
<1>8. /\ transport'[h] = t
      /\ \A s \in Built' \ {h} : transport'[s] = transport[s]
    BY <1>1, <1>4, <1>7 DEF SessionInv, SessionTypes, Built
<1>9. ~transport'[h].cleaning
    BY <1>1, <1>3, <1>4, <1>8 DEF IInv, EnvironmentInv
<1> QED
    BY <1>1, <1>4, <1>7, <1>8, <1>9, OneChanges DEF Built

\* requestDestroy(), and the handle's pointer to the transport
LEMMA LetGoStep ==
    ASSUME IInv, NEW h \in Sessions, LetGo(h), environment # "sweeping",
           UNCHANGED <<environmentVars, nodeHolds, nodeCallback>>,
           NEW x \in {"disposed", "deleted"}, handle' = [handle EXCEPT ![h] = x],
           holds[h] \/ ~(object[h] = "built" /\ transport[h].storage)
    PROVE  IInv'
<1>1. SessionInv /\ SessionTypes
    BY DEF IInv, SessionInv
<1>2. holds' = [holds EXCEPT ![h] = FALSE]
    BY DEF LetGo
<1>3. CASE ~holds[h]
  <2>1. UNCHANGED transportVars
    BY <1>3 DEF LetGo
  <2>2. SessionInv' /\ Built' = Built
    BY <1>1, <1>2, <1>3, <2>1, HandleStep
  <2> QED
    BY <2>1, <2>2, OneChanges DEF IInv, EnvironmentInv, transportVars, environmentVars
<1>4. CASE holds[h]
  <2> DEFINE t == Doomed(Closed(transport[h]))
  <2>1. RequestDestroy(h) /\ h \in Built
    BY <1>1, <1>4 DEF LetGo, SessionInv, AllGood, Good, Built
  <2>2. transport[h] \in Transport /\ Sound(transport[h])
    BY <1>1, <2>1, BuiltMembers
  <2>3. /\ Closed(transport[h]) \in Transport /\ Sound(Closed(transport[h]))
        /\ Closed(transport[h]).ssl = transport[h].ssl
        /\ Closed(transport[h]).retained = transport[h].retained
        /\ Closed(transport[h]).cleaning = transport[h].cleaning
        /\ transport[h].poll \in {"none", "closed"} =>
                Closed(transport[h]).poll = transport[h].poll
    BY <2>2, MembersStep
  <2>4. /\ t \in Transport /\ Sound(t) /\ ~t.storage
        /\ t.ssl = transport[h].ssl /\ t.retained = transport[h].retained
        /\ t.cleaning = transport[h].cleaning
        /\ transport[h].poll \in {"none", "closed"} => t.poll = transport[h].poll
    BY <2>3, MembersStep
  <2>5. IF DestroyNow(transport[h]) THEN Delete(h, t) ELSE Keep(h, t)
    BY <2>1 DEF RequestDestroy
  <2> HIDE DEF t
  <2>6. CASE DestroyNow(transport[h])
    <3>1. transport[h].poll \in {"none", "closed"}
      BY <2>2, <2>6 DEF DestroyNow, Sound
    <3>2. SessionInv' /\ Built' = Built \ {h}
      BY <1>1, <1>2, <2>1, <2>4, <2>5, <2>6, <3>1, DeleteStep
    <3>3. \A s \in Built' \ {h} : transport'[s] = transport[s]
      BY <1>1, <2>5, <2>6, <3>2 DEF Delete, SessionTypes, Built
    <3> QED
      BY <3>2, <3>3, OneChanges
  <2>7. CASE ~DestroyNow(transport[h])
    <3>1. Good("built", t, x, FALSE)
      BY <2>4 DEF Good
    <3>2. SessionInv' /\ Built' = Built
      BY <1>1, <1>2, <2>1, <2>4, <2>5, <2>7, <3>1, KeepStep
    <3>3. transport'[h] = t /\ \A s \in Built' \ {h} : transport'[s] = transport[s]
      BY <1>1, <2>5, <2>7, <3>2 DEF Keep, SessionTypes, Built
    <3>4. environment = "running" => ~transport'[h].cleaning
      BY <2>1, <2>4, <3>3 DEF IInv, EnvironmentInv
    <3> QED
      BY <3>2, <3>3, <3>4, OneChanges
  <2> QED
    BY <2>6, <2>7
<1> QED
    BY <1>3, <1>4

\* disposeSession()
LEMMA DisposeStep ==
    ASSUME IInv, NEW h \in Sessions, Dispose(h)
    PROVE  IInv'
<1>1. holds[h] \/ ~(object[h] = "built" /\ transport[h].storage)
    BY DEF IInv, SessionInv, AllGood, Good
<1> QED
    BY <1>1, LetGoStep DEF Dispose

\* finalizeSession(): by then the handle has no transport.
LEMMA FinalizeStep ==
    ASSUME IInv, NEW h \in Sessions, Finalize(h)
    PROVE  IInv'
<1>1. holds[h] \/ ~(object[h] = "built" /\ transport[h].storage)
    BY DEF IInv, SessionInv, AllGood, Good
<1> QED
    BY <1>1, LetGoStep DEF Finalize

\* onPollClosed()
LEMMA PollClosedStep ==
    ASSUME IInv, NEW h \in Sessions, OnPollClosed(h)
    PROVE  IInv'
<1> DEFINE t == [transport[h] EXCEPT !.poll = "closed"]
<1>1. SessionInv /\ SessionTypes /\ h \in Built
    BY DEF IInv, SessionInv, OnPollClosed, Built
<1>2. /\ transport[h] \in Transport /\ Sound(transport[h]) /\ holds[h] \in BOOLEAN
      /\ handle[h] \in {"none", "live", "disposed", "deleted"}
      /\ Good("built", transport[h], handle[h], holds[h])
    BY <1>1, BuiltMembers DEF SessionInv, AllGood, Built
<1>3. /\ environment # "sweeping" /\ transport[h].poll = "closing"
      /\ UNCHANGED <<registered, starts, sweep, nodeHolds, nodeCallback>>
      /\ PollClosedRunning(h) \/ PollClosedCleaning(h)
    BY DEF OnPollClosed
<1>4. /\ t \in Transport /\ Sound(t) /\ t.poll = "closed" /\ t.ssl = transport[h].ssl
      /\ t.retained = transport[h].retained /\ t.storage = transport[h].storage
      /\ t.cleaning = transport[h].cleaning
      /\ t.destroyRequested = transport[h].destroyRequested
    BY <1>2, <1>3 DEF Transport, Sound
<1>5. h \in Sessions
    BY <1>1 DEF Built
<1>6. /\ handle' = handle => handle' = [handle EXCEPT ![h] = handle[h]]
      /\ holds' = holds => holds' = [holds EXCEPT ![h] = holds[h]]
    BY <1>1 DEF SessionTypes
<1>7. ASSUME NEW d \in Transport, Delete(h, d)
      PROVE  \A s \in Sessions \ {h} : transport'[s] = transport[s]
    BY <1>1, <1>7 DEF Delete, SessionTypes
<1>8. t.destroyRequested => ~holds[h]
    BY <1>2, <1>4 DEF Good, Sound
<1>9. CASE PollClosedRunning(h)
  <2>1. ~t.cleaning /\ UNCHANGED environmentVars
    BY <1>3, <1>9 DEF PollClosedRunning, environmentVars
  <2>2. \/ /\ handle[h] = "live" /\ holds[h]
           /\ handle' = [handle EXCEPT ![h] = "disposed"] /\ holds' = [holds EXCEPT ![h] = FALSE]
           /\ Delete(h, Doomed(t))
        \/ /\ IF t.destroyRequested THEN Delete(h, t) ELSE Keep(h, t)
           /\ UNCHANGED <<handle, holds>>
    BY <1>9 DEF PollClosedRunning
  <2>3. /\ Doomed(t) \in Transport /\ Doomed(t).poll = "closed"
        /\ Doomed(t).ssl = transport[h].ssl /\ Doomed(t).retained = transport[h].retained
    BY <1>4, MembersStep
  <2> HIDE DEF t
  <2>4. CASE Delete(h, Doomed(t)) /\ handle' = [handle EXCEPT ![h] = "disposed"]
             /\ holds' = [holds EXCEPT ![h] = FALSE]
    <3>1. SessionInv' /\ Built' = Built \ {h}
      BY <1>1, <1>3, <2>3, <2>4, DeleteStep
    <3>2. \A s \in Built' \ {h} : transport'[s] = transport[s]
      BY <1>7, <2>3, <2>4, <3>1 DEF Built
    <3> QED
      BY <1>3, <1>5, <2>1, <3>1, <3>2, OneChanges
  <2>5. CASE t.destroyRequested /\ Delete(h, t) /\ UNCHANGED <<handle, holds>>
    <3>1. holds' = [holds EXCEPT ![h] = FALSE] /\ handle' = [handle EXCEPT ![h] = handle[h]]
      BY <1>1, <1>2, <1>6, <1>8, <2>5
    <3>2. SessionInv' /\ Built' = Built \ {h}
      BY <1>1, <1>2, <1>3, <1>4, <2>5, <3>1, DeleteStep
    <3>3. \A s \in Built' \ {h} : transport'[s] = transport[s]
      BY <1>4, <1>7, <2>5, <3>2 DEF Built
    <3> QED
      BY <1>3, <1>5, <2>1, <3>2, <3>3, OneChanges
  <2>6. CASE Keep(h, t) /\ UNCHANGED <<handle, holds>>
    <3>1. Good("built", t, handle[h], holds[h])
      BY <1>2, <1>4 DEF Good
    <3>2. SessionInv' /\ Built' = Built
      BY <1>1, <1>2, <1>3, <1>4, <1>6, <2>6, <3>1, KeepStep
    <3>3. /\ transport'[h] = t
          /\ \A s \in Built' \ {h} : transport'[s] = transport[s]
      BY <1>1, <2>6, <3>2 DEF Keep, SessionTypes, Built
    <3> QED
      BY <1>3, <1>5, <2>1, <3>2, <3>3, OneChanges
  <2> QED
    BY <2>2, <2>4, <2>5, <2>6
<1>10. CASE PollClosedCleaning(h)
  <2>1. t.cleaning /\ Delete(h, t) /\ Complete /\ UNCHANGED <<handle, holds>>
    BY <1>10 DEF PollClosedCleaning
  <2> HIDE DEF t
  <2>2. ~holds[h] /\ environment # "running"
    BY <1>1, <1>2, <1>4, <1>8, <2>1 DEF Sound, IInv, EnvironmentInv
  <2>3. holds' = [holds EXCEPT ![h] = FALSE] /\ handle' = [handle EXCEPT ![h] = handle[h]]
    BY <1>1, <1>2, <1>6, <2>1, <2>2
  <2>4. SessionInv' /\ Built' = Built \ {h}
    BY <1>1, <1>2, <1>3, <1>4, <2>1, <2>3, DeleteStep
  <2>5. listed' = Built'
    BY <2>4 DEF SessionInv
  <2>6. EnvironmentInv'
    BY <1>3, <2>1, <2>2, <2>4, <2>5 DEF Complete, IInv, EnvironmentInv
  <2> QED
    BY <2>4, <2>6 DEF IInv
<1> QED
    BY <1>3, <1>9, <1>10

\* One turn of the hook's loop over the transports
LEMMA SweepStep ==
    ASSUME IInv, NEW h \in Sessions, Sweep(h)
    PROVE  IInv'
<1> DEFINE t == Begun(transport[h])
           d == [Doomed(transport[h]) EXCEPT !.cleaning = TRUE]
<1>1. SessionInv /\ SessionTypes /\ h \in Built
    BY DEF IInv, SessionInv, EnvironmentInv, Sweep
<1>2. /\ transport[h] \in Transport /\ Sound(transport[h]) /\ holds[h] \in BOOLEAN
      /\ handle[h] \in {"none", "live", "disposed", "deleted"}
      /\ holds[h] => transport[h].storage
    BY <1>1, BuiltMembers
<1>3. /\ environment = "sweeping" /\ sweep' = sweep \ {h}
      /\ holds' = [holds EXCEPT ![h] = @ /\ ~transport[h].storage]
      /\ IF t.poll \in {"none", "closed"} THEN Delete(h, t) ELSE Keep(h, t)
      /\ environment' = IF listed' = {} THEN "none"
                        ELSE IF sweep' = {} THEN "cleaning" ELSE "sweeping"
      /\ UNCHANGED <<registered, starts, handle, nodeHolds, nodeCallback>>
    BY DEF Sweep
<1>4. /\ Doomed(transport[h]) \in Transport /\ Sound(Doomed(transport[h]))
      /\ ~Doomed(transport[h]).storage /\ Doomed(transport[h]).destroyRequested
      /\ Doomed(transport[h]).ssl = transport[h].ssl
      /\ Doomed(transport[h]).retained = transport[h].retained
    BY <1>2, MembersStep DEF Doomed, Transport
<1>5. /\ d \in Transport /\ Sound(d) /\ ~d.storage
      /\ d.ssl = transport[h].ssl /\ d.retained = transport[h].retained
    BY <1>4 DEF Transport, Sound
<1>6. t = Closed(d)
    BY DEF Begun
<1> HIDE DEF t, d
<1>7. /\ t \in Transport /\ Sound(t) /\ ~t.storage
      /\ t.ssl = transport[h].ssl /\ t.retained = transport[h].retained
    BY <1>5, <1>6, MembersStep
<1>8. holds' = [holds EXCEPT ![h] = FALSE] /\ handle' = [handle EXCEPT ![h] = handle[h]]
    BY <1>1, <1>2, <1>3 DEF SessionTypes
<1>9. SessionInv' /\ Built' \subseteq Built /\ (h \notin Built' \/ Built' = Built)
  <2>1. CASE t.poll \in {"none", "closed"}
    <3>1. Delete(h, t) /\ UNCHANGED <<nodeHolds, nodeCallback>>
      BY <1>3, <2>1
    <3> QED
      BY <1>1, <1>2, <1>7, <1>8, <2>1, <3>1, DeleteStep
  <2>2. CASE t.poll \notin {"none", "closed"}
    <3>1. Good("built", t, handle[h], FALSE)
      BY <1>7 DEF Good
    <3>2. Keep(h, t) /\ UNCHANGED <<nodeHolds, nodeCallback>>
      BY <1>3, <2>2
    <3> QED
      BY <1>1, <1>2, <1>7, <1>8, <3>1, <3>2, KeepStep
  <2> QED
    BY <2>1, <2>2
<1>10. listed' = Built' /\ listed = Built /\ sweep \subseteq listed
    BY <1>1, <1>3, <1>9 DEF SessionInv, IInv, EnvironmentInv
<1>11. listed \ {h} \subseteq listed'
  <2>1. CASE t.poll \in {"none", "closed"}
    BY <1>3, <2>1 DEF Delete
  <2>2. CASE t.poll \notin {"none", "closed"}
    BY <1>3, <2>2 DEF Keep
  <2> QED
    BY <2>1, <2>2
<1>12. ~registered
    BY <1>3 DEF IInv, EnvironmentInv
<1>13. EnvironmentInv'
    BY <1>3, <1>10, <1>11, <1>12 DEF IInv, EnvironmentInv
<1> QED
    BY <1>9, <1>13 DEF IInv

\* What Node does with its contexts
LEMMA NodeStep ==
    ASSUME IInv, Node
    PROVE  IInv'
<1>1. SessionTypes
    BY DEF IInv, SessionInv
<1>2. UNCHANGED <<environmentVars, handle, holds, object, transport, listed, owned>>
    BY DEF Node
<1>3. PICK c \in Contexts :
        \/ NodeDrops(c)
        \/ \E callback \in Callbacks : NodeInstalls(c, callback) \/ NodeCreates(c, InUse, callback)
    BY DEF Node
<1>4. /\ contexts' \in [Contexts -> Entry] /\ nodeCallback' \in [Contexts -> Callbacks]
      /\ nodeHolds' \subseteq Contexts
      /\ \A k \in Contexts : contexts'[k].owners = contexts[k].owners
      /\ EntriesInv'
  <2>1. CASE NodeDrops(c)
    BY <1>1, <2>1 DEF NodeDrops, SessionTypes, IInv, SessionInv, EntriesInv
  <2>2. CASE \E callback \in Callbacks :
                    NodeInstalls(c, callback) \/ NodeCreates(c, InUse, callback)
    <3>1. PICK callback \in Callbacks :
                /\ contexts' = [contexts EXCEPT ![c].installed = callback]
                /\ nodeCallback' = [nodeCallback EXCEPT ![c] = callback]
                /\ nodeHolds' \subseteq nodeHolds \cup {c}
      BY <2>2 DEF NodeInstalls, NodeCreates
    <3>2. callback # Multiplex
      BY MultiplexAssumption
    <3>3. contexts[c] \in Entry /\ [contexts[c] EXCEPT !.installed = callback] \in Entry
      BY <1>1 DEF SessionTypes, Entry
    <3>4. /\ contexts'[c] = [contexts[c] EXCEPT !.installed = callback]
          /\ contexts'[c].installed = callback /\ contexts'[c].owners = contexts[c].owners
          /\ nodeCallback'[c] = callback
      BY <1>1, <3>1, <3>3 DEF SessionTypes, Entry
    <3>5. \A k \in Contexts \ {c} :
                contexts'[k] = contexts[k] /\ nodeCallback'[k] = nodeCallback[k]
      BY <1>1, <3>1 DEF SessionTypes
    <3>6. /\ contexts' \in [Contexts -> Entry] /\ nodeCallback' \in [Contexts -> Callbacks]
          /\ nodeHolds' \subseteq Contexts
      BY <1>1, <3>1, <3>3 DEF SessionTypes
    <3>7. \A k \in Contexts : PassesOn(contexts[k], nodeCallback[k])
      BY DEF IInv, SessionInv, EntriesInv
    <3>8. PassesOn(contexts'[c], nodeCallback'[c])
      BY <3>2, <3>4 DEF PassesOn
    <3> QED
      BY <3>4, <3>5, <3>6, <3>7, <3>8 DEF EntriesInv
  <2> QED
    BY <1>3, <2>1, <2>2
<1>5. Built' = Built
    BY <1>2 DEF Built
<1>6. SessionInv'
  <2>1. SessionTypes'
    BY <1>1, <1>2, <1>4 DEF SessionTypes
  <2>2. AllGood'
    BY <1>2 DEF IInv, SessionInv, AllGood
  <2>3. \A k : Owners(k)' = Owners(k)
    BY <1>2 DEF Owners
  <2>4. RegistryInv'
    BY <1>2, <1>4, <1>5, <2>3 DEF IInv, SessionInv, RegistryInv
  <2> QED
    BY <1>2, <1>4, <1>5, <2>1, <2>2, <2>4 DEF IInv, SessionInv
<1>7. EnvironmentInv'
    BY <1>2, <1>5 DEF IInv, EnvironmentInv, environmentVars
<1> QED
    BY <1>6, <1>7 DEF IInv

-----------------------------------------------------------------------------
(* Theorems *)

\* The invariant is inductive.
THEOREM Inductive == IInv /\ [Next]_vars => IInv'
<1> SUFFICES ASSUME IInv, [Next]_vars PROVE IInv'
    OBVIOUS
<1>1. CASE UNCHANGED vars
  <2>1. SessionInv' /\ Built' = Built
    BY <1>1, SessionsStutter DEF vars, IInv, transportVars
  <2>2. EnvironmentInv'
    BY <1>1, <2>1 DEF vars, environmentVars, transportVars, IInv, EnvironmentInv
  <2> QED
    BY <2>1, <2>2 DEF IInv
<1>2. CASE Initialize
    BY <1>2, InitializeStep
<1>3. CASE CleanupHook
    BY <1>3, CleanupHookStep
<1>4. CASE Node
    BY <1>4, NodeStep
<1>5. ASSUME NEW h \in Sessions, JavaScript(h)
      PROVE  IInv'
    BY <1>5, CreateSessionStep, AttachStep, ActivateStep, CloseStep, DisposeStep, FinalizeStep
       DEF JavaScript
<1>6. ASSUME NEW h \in Sessions, OnPollClosed(h)
      PROVE  IInv'
    BY <1>6, PollClosedStep
<1>7. ASSUME NEW h \in Sessions, Sweep(h)
      PROVE  IInv'
    BY <1>7, SweepStep
<1> QED
    BY <1>1, <1>2, <1>3, <1>4, <1>5, <1>6, <1>7 DEF Next

\* It holds, and with it the type invariant.
THEOREM TypeCorrect == Spec => []TypeOK
<1>1. IInv => TypeOK
    BY DEF IInv, SessionInv, SessionTypes, EnvironmentInv, TypeOK, Transport, Entry
<1> QED
    BY <1>1, InitialStep, Inductive, PTL DEF Spec

\* Whichever of a handle, its transport, the poll handle and the environment goes first, no
\* pointer among them is left to one that is gone.
THEOREM PointersAreLive == Spec => []PointersLive
<1>1. IInv => PointersLive
    BY DEF IInv, SessionInv, AllGood, Good, Sound, Built, PointersLive
<1> QED
    BY <1>1, InitialStep, Inductive, PTL DEF Spec

\* The environment is freed after its last transport, and out of the table before the first
\* one is cleaned up.
THEOREM EnvironmentGoesLast == Spec => []EnvironmentLast
<1>1. IInv => EnvironmentLast
    BY DEF IInv, SessionInv, EnvironmentInv, EnvironmentLast
<1> QED
    BY <1>1, InitialStep, Inductive, PTL DEF Spec

\* An entry of the registry counts the connections that retained it.
THEOREM RegistryIsExact == Spec => []RegistryExact
<1>1. IInv => RegistryExact
    BY DEF IInv, SessionInv, RegistryInv, RegistryExact, Owners
<1> QED
    BY <1>1, InitialStep, Inductive, PTL DEF Spec

\* Node's connections reach the callback that Node installed last.
THEOREM NodeIsHeard == Spec => []NodeHears
<1>1. IInv => NodeHears
  <2> SUFFICES ASSUME IInv, NEW c \in nodeHolds \cup InUse PROVE Hears(c) = nodeCallback[c]
    BY DEF NodeHears
  <2>1. SessionTypes /\ EntriesInv
    BY DEF IInv, SessionInv
  <2>2. CASE c \in nodeHolds
    BY <2>1, <2>2 DEF SessionTypes, EntriesInv, PassesOn, Hears
  <2>3. CASE c \in InUse
    <3>1. PICK s \in Built : transport[s].ssl # Plain /\ c \in Used(transport[s].ssl)
      BY <2>3 DEF InUse, Built
    <3>2. transport[s].ssl \in Contexts \X Contexts
      BY <2>1, <3>1, ConnectionsAssumption DEF SessionTypes, Transport, Built
    <3>3. c \in Contexts
      BY <2>1, <3>1, <3>2, ContextsStep DEF SessionTypes
    <3> QED
      BY <2>1, <3>3 DEF EntriesInv, PassesOn, Hears
  <2> QED
    BY <2>2, <2>3
<1> QED
    BY <1>1, InitialStep, Inductive, PTL DEF Spec
=============================================================================
