------------------------------- MODULE PubSub -------------------------------
(***************************************************************************)
(* Subscription: connections that subscribe, for a time, to what others    *)
(* publish.  (pubsub.h)  Any thread may call any of the methods; a shared  *)
(* mutex guards the map of subscriptions, and publish() takes it twice:    *)
(* shared to call the publisher's function for every subscription, and     *)
(* then alone, to erase the ones it found expired.                         *)
(*                                                                         *)
(* An operator X_Mistake before X is X with a mistake in it; nothing uses  *)
(* it except the sensitivity runs described in README.md.                  *)
(***************************************************************************)
EXTENDS Integers, Functions, TLAPS

CONSTANTS
    Conns, Data,     \* connections that subscribe; UserData
    Publishers,      \* threads that publish
    sub_duration,
    MaxTime          \* bound: the clock

ASSUME DurationAssumption == sub_duration \in Nat

VARIABLES
    subs,      \* connection -> [expiry, user_data]
    readers,   \* publishers that hold the mutex, shared
    pub,       \* publisher -> what it does
    clock

vars == <<subs, readers, pub, clock>>

(* A publisher: at is "idle", "calling" or "erasing"; now is the time it   *)
(* has read, left the subscriptions it has still to visit, called those    *)
(* it has called its function for, and to_remove those it found expired.   *)
NoPub == [at |-> "idle", now |-> 0, left |-> {}, called |-> {}, to_remove |-> {}]

Expired(c, now) == subs[c].expiry < now
Without(S) == Restrict(subs, DOMAIN subs \ S)

(* A unique lock: nobody else has the mutex, shared or alone.  What is     *)
(* done under it is one step.                                              *)
Alone_Unlocked == TRUE
Alone == readers = {}

Sub_NoData(data) == [expiry |-> clock + sub_duration]
Sub(data) == [expiry |-> clock + sub_duration, user_data |-> data]
subscribe(c, data) ==
    /\ Alone
    /\ subs' = [x \in DOMAIN subs \cup {c} |-> IF x = c THEN Sub(data) ELSE subs[x]]
    /\ UNCHANGED <<readers, pub, clock>>
unsubscribe(c) ==
    /\ Alone
    /\ c \in DOMAIN subs
    /\ subs' = Without({c})
    /\ UNCHANGED <<readers, pub, clock>>
remove_expired ==
    /\ Alone
    /\ subs' = Without({c \in DOMAIN subs : Expired(c, clock)})
    /\ UNCHANGED <<readers, pub, clock>>

-----------------------------------------------------------------------------
(* publish *)

PublishBegins(p) ==
    /\ pub[p].at = "idle"
    /\ DOMAIN subs # {}
    /\ readers' = readers \cup {p}
    /\ pub' = [pub EXCEPT ![p] = [NoPub EXCEPT !.at = "calling", !.now = clock, !.left = DOMAIN subs]]
    /\ UNCHANGED <<subs, clock>>
PublishVisits(p, c) ==
    /\ pub[p].at = "calling"
    /\ c \in pub[p].left
    /\ pub' = [pub EXCEPT ![p].left = @ \ {c},
                          ![p].to_remove = IF Expired(c, pub[p].now) THEN @ \cup {c} ELSE @,
                          ![p].called = IF Expired(c, pub[p].now) THEN @ ELSE @ \cup {c}]
    /\ UNCHANGED <<subs, readers, clock>>
PublishUnlocks(p) ==
    /\ pub[p].at = "calling" /\ pub[p].left = {}
    /\ readers' = readers \ {p}
    /\ pub' = [pub EXCEPT ![p] = IF @.to_remove = {} THEN NoPub
                                 ELSE [NoPub EXCEPT !.at = "erasing",
                                                    !.to_remove = pub[p].to_remove]]
    /\ UNCHANGED <<subs, clock>>
(* "recheck: client might have resubscribed in between locks" *)
Erased_NoRecheck(S) == S
Erased(S) == {c \in S \cap DOMAIN subs : Expired(c, clock)}
PublishErases(p) ==
    /\ pub[p].at = "erasing" /\ Alone
    /\ subs' = Without(Erased(pub[p].to_remove))
    /\ pub' = [pub EXCEPT ![p] = NoPub]
    /\ UNCHANGED <<readers, clock>>

Tick ==
    /\ clock < MaxTime
    /\ clock' = clock + 1
    /\ UNCHANGED <<subs, readers, pub>>

Init ==
    /\ subs = [c \in {} |-> <<>>]
    /\ readers = {}
    /\ pub = [p \in Publishers |-> NoPub]
    /\ clock = 0

Next ==
    \/ \E c \in Conns : unsubscribe(c) \/ \E data \in Data : subscribe(c, data)
    \/ remove_expired \/ Tick
    \/ \E p \in Publishers :
          \/ PublishBegins(p) \/ PublishUnlocks(p) \/ PublishErases(p)
          \/ \E c \in Conns : PublishVisits(p, c)

Spec == Init /\ [][Next]_vars

-----------------------------------------------------------------------------
SubsTypeOK ==
    /\ DOMAIN subs \subseteq Conns
    /\ \A c \in DOMAIN subs : subs[c] \in [expiry : Nat, user_data : Data]
    /\ readers = {p \in Publishers : pub[p].at = "calling"}
    /\ clock \in Nat
    /\ pub \in [Publishers -> [at : {"idle", "calling", "erasing"}, now : Nat,
                               left : SUBSET Conns, called : SUBSET Conns,
                               to_remove : SUBSET Conns]]

(***************************************************************************)
(* A subscription goes only when it is asked to or when its time is over:  *)
(* a publisher that found it expired does not erase it if it was renewed   *)
(* before the publisher had the lock again.                                *)
(***************************************************************************)
Keeps ==
    \A c \in DOMAIN subs : c \in DOMAIN subs' \/ Expired(c, clock) \/ unsubscribe(c)
LiveSubsKept == [][Keeps]_vars

(***************************************************************************)
(* While a publisher goes through the map nobody changes it: what it has   *)
(* called its function for, found expired or has yet to visit are together *)
(* the subscriptions there are, each in one of the three, and each live    *)
(* one is called.                                                          *)
(***************************************************************************)
IterationStable ==
    \A p \in readers :
        LET w == pub[p] IN
        /\ w.called \cup w.to_remove \cup w.left = DOMAIN subs
        /\ w.left \cap (w.called \cup w.to_remove) = {}
        /\ \A c \in w.called : ~Expired(c, w.now)
        /\ \A c \in w.to_remove : Expired(c, w.now)

-----------------------------------------------------------------------------
(***************************************************************************)
(* Proofs, for any connections, data and publishers and any sub_duration;  *)
(* the bound MaxTime plays no part.                                        *)
(***************************************************************************)

(***************************************************************************)
(* Each subscription has an expiry and its user's data, and the publishers *)
(* that hold the mutex are those that are calling their function.          *)
(***************************************************************************)
LEMMA TypeInit == Init => SubsTypeOK
BY DEF Init, SubsTypeOK, NoPub

LEMMA TypeStep == SubsTypeOK /\ [Next]_vars => SubsTypeOK'
<1> SUFFICES ASSUME SubsTypeOK, [Next]_vars PROVE SubsTypeOK'
  OBVIOUS
<1> USE DurationAssumption DEF SubsTypeOK
<1>1. ASSUME NEW c \in Conns, NEW data \in Data, subscribe(c, data) PROVE SubsTypeOK'
  BY <1>1 DEF subscribe, Sub
<1>2. ASSUME NEW c \in Conns, unsubscribe(c) PROVE SubsTypeOK'
  BY <1>2 DEF Without, Restrict, unsubscribe
<1>3. CASE remove_expired
  BY <1>3 DEF Without, Restrict, remove_expired
<1>4. CASE Tick
  BY <1>4 DEF Tick
<1>5. ASSUME NEW p \in Publishers, PublishBegins(p) PROVE SubsTypeOK'
  BY <1>5 DEF PublishBegins, NoPub
<1>6. ASSUME NEW p \in Publishers, NEW c \in Conns, PublishVisits(p, c) PROVE SubsTypeOK'
  <2> DEFINE Work == [at : {"idle", "calling", "erasing"}, now : Nat, left : SUBSET Conns,
                      called : SUBSET Conns, to_remove : SUBSET Conns]
  <2>1. pub \in [Publishers -> Work]
    OBVIOUS
  <2>2. DOMAIN pub' = Publishers /\ \A q \in Publishers \ {p} : pub'[q] = pub[q]
    BY <1>6, <2>1 DEF PublishVisits
  <2>3. pub'[p] \in Work /\ pub'[p].at = "calling"
    <3>1. pub[p] \in Work /\ pub[p].at = "calling"
      BY <1>6, <2>1 DEF PublishVisits
    <3>2. PICK left, to_remove, called :
             /\ left = pub[p].left \ {c}
             /\ to_remove \in {pub[p].to_remove, pub[p].to_remove \cup {c}}
             /\ called \in {pub[p].called, pub[p].called \cup {c}}
             /\ pub'[p] = [pub[p] EXCEPT !.left = left, !.to_remove = to_remove, !.called = called]
      BY <1>6, <2>1, Zenon DEF PublishVisits
    <3>3. left \in SUBSET Conns /\ to_remove \in SUBSET Conns /\ called \in SUBSET Conns
      BY <1>6, <3>1, <3>2
    <3> QED BY <3>1, <3>2, <3>3
  <2>4. pub' \in [Publishers -> Work]
    <3>1. pub' = [q \in Publishers |-> pub'[q]]
      BY <1>6, <2>1 DEF PublishVisits
    <3> QED BY <3>1, <2>1, <2>2, <2>3
  <2> QED BY <1>6, <2>2, <2>3, <2>4 DEF PublishVisits
<1>7. ASSUME NEW p \in Publishers, PublishUnlocks(p) PROVE SubsTypeOK'
  BY <1>7 DEF PublishUnlocks, NoPub
<1>8. ASSUME NEW p \in Publishers, PublishErases(p) PROVE SubsTypeOK'
  BY <1>8 DEF Without, Restrict, PublishErases, NoPub
<1>9. CASE UNCHANGED vars
  BY <1>9 DEF vars
<1> QED BY <1>1, <1>2, <1>3, <1>4, <1>5, <1>6, <1>7, <1>8, <1>9 DEF Next

(* The map holds what subscribe() put there, and the publishers that hold  *)
(* the mutex are exactly those that are calling their function.            *)
THEOREM TypeCorrect == Spec => []SubsTypeOK
<1> QED BY TypeInit, TypeStep, PTL DEF Spec

(***************************************************************************)
(* The map is stable while a publisher walks over it.  The methods that    *)
(* change it need Alone, which no reader leaves true.                      *)
(***************************************************************************)
LEMMA IterationStep ==
    SubsTypeOK /\ SubsTypeOK' /\ IterationStable /\ [Next]_vars => IterationStable'
<1> DEFINE Stable(q) ==
        /\ pub[q].called \cup pub[q].to_remove \cup pub[q].left = DOMAIN subs
        /\ pub[q].left \cap (pub[q].called \cup pub[q].to_remove) = {}
        /\ \A c \in pub[q].called : ~(subs[c].expiry < pub[q].now)
        /\ \A c \in pub[q].to_remove : subs[c].expiry < pub[q].now
<1> SUFFICES ASSUME SubsTypeOK, SubsTypeOK', \A q \in readers : Stable(q), [Next]_vars,
                    NEW p \in readers'
             PROVE  Stable(p)'
  BY DEF IterationStable, Expired
<1>a. \A q \in readers : Stable(q)
  OBVIOUS
<1>b. p \in Publishers
  BY DEF SubsTypeOK
<1>1. CASE readers = {}
  <2>1. PICK q \in Publishers : PublishBegins(q)
    BY <1>1 DEF Next, vars, subscribe, unsubscribe, remove_expired, Tick, PublishVisits,
                PublishUnlocks, PublishErases
  <2> QED BY <2>1, <1>1, <1>b DEF PublishBegins, NoPub, SubsTypeOK
<1>2. CASE readers # {}
  <2>1. ASSUME NEW q \in Publishers, PublishBegins(q) PROVE Stable(p)'
    BY <2>1, <1>a, <1>b DEF PublishBegins, NoPub, SubsTypeOK
  <2>2. ASSUME NEW q \in Publishers, NEW c \in Conns, PublishVisits(q, c) PROVE Stable(p)'
    <3>1. p \in readers /\ subs' = subs /\ Stable(p)
      BY <2>2, <1>a DEF PublishVisits
    <3>2. CASE p # q
      BY <2>2, <3>1, <3>2, <1>b DEF PublishVisits, SubsTypeOK
    <3>3. CASE p = q
      <4>1. c \in pub[p].left /\ pub'[p].left = pub[p].left \ {c}
        BY <2>2, <3>3, <1>b DEF PublishVisits, SubsTypeOK
      <4>2. /\ pub'[p].to_remove = IF Expired(c, pub[p].now) THEN pub[p].to_remove \cup {c}
                                   ELSE pub[p].to_remove
            /\ pub'[p].called = IF Expired(c, pub[p].now) THEN pub[p].called
                                ELSE pub[p].called \cup {c}
            /\ pub'[p].now = pub[p].now
        BY <2>2, <3>3, <1>b DEF PublishVisits, SubsTypeOK
      <4> QED BY <3>1, <4>1, <4>2 DEF Expired
    <3> QED BY <3>2, <3>3
  <2>3. ASSUME NEW q \in Publishers, PublishUnlocks(q) PROVE Stable(p)'
    BY <2>3, <1>a, <1>b DEF PublishUnlocks, SubsTypeOK
  <2>4. CASE Tick \/ UNCHANGED vars
    BY <2>4, <1>a DEF Tick, vars
  <2> QED BY <1>2, <2>1, <2>2, <2>3, <2>4
          DEF Next, subscribe, unsubscribe, remove_expired, PublishErases, Alone
<1> QED BY <1>1, <1>2

(* While publish() calls its function for one subscription after the other *)
(* nobody changes the map, and it visits each one once.                    *)
THEOREM IterationIsStable == Spec => []IterationStable
<1>1. Init => IterationStable
  BY DEF Init, IterationStable
<1> QED BY <1>1, IterationStep, TypeCorrect, PTL DEF Spec

(***************************************************************************)
(* A step loses no subscription but an expired one, or the one that        *)
(* unsubscribe() was called for.                                           *)
(***************************************************************************)
LEMMA KeepsStep == [Next]_vars => [Keeps]_vars
<1> SUFFICES ASSUME Next PROVE Keeps
  OBVIOUS
<1> SUFFICES ASSUME NEW c \in DOMAIN subs
             PROVE  c \in DOMAIN subs' \/ Expired(c, clock) \/ unsubscribe(c)
  BY DEF Keeps
<1>1. ASSUME NEW d \in Conns, NEW data \in Data, subscribe(d, data) PROVE c \in DOMAIN subs'
  BY <1>1 DEF subscribe
<1>2. ASSUME NEW d \in Conns, unsubscribe(d) PROVE c \in DOMAIN subs' \/ unsubscribe(c)
  BY <1>2 DEF Without, Restrict, unsubscribe
<1>3. CASE remove_expired
  BY <1>3 DEF Without, Restrict, remove_expired
<1>4. ASSUME NEW p \in Publishers, PublishErases(p) PROVE c \in DOMAIN subs' \/ Expired(c, clock)
  BY <1>4 DEF Without, Restrict, PublishErases, Erased
<1> QED BY <1>1, <1>2, <1>3, <1>4
        DEF Next, Tick, PublishBegins, PublishVisits, PublishUnlocks

(* publish() and remove_expired() erase only what has expired by then. *)
THEOREM LiveSubsAreKept == Spec => LiveSubsKept
<1> QED BY KeepsStep, PTL DEF Spec, LiveSubsKept
=============================================================================
