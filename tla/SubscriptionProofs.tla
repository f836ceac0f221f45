------------------------- MODULE SubscriptionProofs -------------------------
(***************************************************************************)
(* What the reference-counted resource subscriptions guarantee for any     *)
(* number of sessions and of SubscriptionState objects.                    *)
(***************************************************************************)
EXTENDS ResourceSubscriptions, TLAPS

(* Whoever waits, waits for a request in flight; whoever goes on, goes on  *)
(* after the request it waited for.                                        *)
WaitInv == \A s \in Sessions :
    /\ sub[s].pc = "wait" => sub[s].obj \in ObjIds /\ objs[sub[s].obj].flight # "none"
    /\ unsub[s].pc # "idle" => unsub[s].obj \in ObjIds
    /\ unsub[s].pc = "wait" => objs[unsub[s].obj].flight # "none"
    /\ unsub[s].pc = "go" => objs[unsub[s].obj].flight = "none"

(* Without a connection nothing is in flight. *)
DownInv == conn = "down" =>
    /\ \A o \in ObjIds : objs[o].flight = "none"
    /\ \A s \in Sessions : unsub[s].pc # "sent"

(* As long as nobody has unsubscribed the state in the map is the only one *)
(* in use, and holds everybody who waits and everybody who was told.       *)
KeptInv == "left" \notin seen =>
    /\ \A s \in Sessions : unsub[s].pc = "idle"
    /\ \A o \in ObjIds : objs[o].flight # "none" => o = cur
    /\ \A s \in Sessions : sub[s].pc = "wait" =>
          s \in objs[sub[s].obj].subs /\ (s \in acked => sub[s].again)
    /\ AckedIsSubscribed

(* The sessions that a failure leaves in the set of o. *)
Staying(o) == {s \in objs[o].subs :
    ~(sub[s].pc = "wait" /\ sub[s].obj = o /\ ~sub[s].again)}

(* The state in the map has not been subscribed on this connection, and    *)
(* nothing is in progress about any other.                                 *)
Fresh ==
    /\ cur # None /\ ~objs[cur].down
    /\ \A o \in ObjIds : objs[o].flight # "none" => o = cur
    /\ \A s \in Sessions : unsub[s].pc \in {"wait", "go"} => unsub[s].obj = cur
    /\ \A s \in Sessions : unsub[s].pc # "sent"

(* It is so while sessions of an earlier connection are still to be served *)
(* and while they are being restored: no other subscription can then have  *)
(* succeeded when the restoring fails and the connection is given up.      *)
FreshInv ==
    /\ conn # "down" /\ cur # None /\ ~objs[cur].down /\ Staying(cur) # {} => Fresh
    /\ \A o \in ObjIds : objs[o].flight = "restore" => conn = "restoring" /\ Fresh

(* The flag is of this connection, which the server knows the subscription *)
(* on, or the key is about to be removed.                                  *)
FlagInv == "lost" \notin seen /\ cur # None /\ objs[cur].down =>
    conn # "down" /\ (server \/ \E s \in Sessions : unsub[s].pc = "sent")

(* A state without subscribers is about to be removed from the map. *)
EmptyInv == cur # None /\ objs[cur].subs = {} =>
    \E s \in Sessions : \/ unsub[s].pc \in {"wait", "go"} /\ unsub[s].obj = cur
                        \/ unsub[s].pc = "sent"

SubsInv == TypeOK /\ WaitInv /\ DownInv /\ KeptInv /\ FreshInv /\ FlagInv /\ EmptyInv


-----------------------------------------------------------------------------
(* The state objects are not the number that stands for none. *)
LEMMA NoneIsNoObject == None \notin ObjIds
BY DEF None, ObjIds

(* An object just made. *)
LEMMA NewObjOK == NewObj \in Obj /\ NewObj.subs = {} /\ NewObj.down = FALSE /\ NewObj.flight = "none"
BY DEF NewObj, Obj

(* Nobody subscribes, nobody unsubscribes. *)
LEMMA NothingOK ==
    /\ NoSub \in Sub /\ NoSub.pc = "idle"
    /\ NoUnsub \in Unsub /\ NoUnsub.pc = "idle"
BY DEF NoSub, Sub, NoUnsub, Unsub, None

(* The parts of the invariant's type. *)
LEMMA Types ==
    ASSUME SubsInv
    PROVE  /\ objs \in [ObjIds -> Obj] /\ cur \in ObjIds \cup {None}
           /\ sub \in [Sessions -> Sub] /\ unsub \in [Sessions -> Unsub]
           /\ \A o \in ObjIds : /\ objs[o] \in Obj /\ objs[o].subs \subseteq Sessions
                                /\ objs[o].down \in BOOLEAN
                                /\ objs[o].flight \in {"none", "session", "restore"}
           /\ \A s \in Sessions : /\ sub[s] \in Sub /\ sub[s].pc \in {"idle", "wait"}
                                  /\ sub[s].again \in BOOLEAN
                                  /\ unsub[s] \in Unsub
                                  /\ unsub[s].pc \in {"idle", "wait", "go", "sent"}
<1>1. /\ objs \in [ObjIds -> Obj] /\ cur \in ObjIds \cup {None}
      /\ sub \in [Sessions -> Sub] /\ unsub \in [Sessions -> Unsub]
  BY DEF SubsInv, TypeOK
<1>2. \A o \in ObjIds : /\ objs[o] \in Obj /\ objs[o].subs \subseteq Sessions
                        /\ objs[o].down \in BOOLEAN
                        /\ objs[o].flight \in {"none", "session", "restore"}
  BY <1>1 DEF Obj
<1>3. \A s \in Sessions : /\ sub[s] \in Sub /\ sub[s].pc \in {"idle", "wait"}
                          /\ sub[s].again \in BOOLEAN
                          /\ unsub[s] \in Unsub
                          /\ unsub[s].pc \in {"idle", "wait", "go", "sent"}
  BY <1>1 DEF Sub, Unsub
<1> QED BY <1>1, <1>2, <1>3

(* Subscribing: what happens to the state and to the session. *)
LEMMA SubscribeInv ==
    ASSUME SubsInv, NEW s \in Sessions, Subscribe(s)
    PROVE  SubsInv'
<1> USE DEF SubsInv
<1>0. /\ objs \in [ObjIds -> Obj] /\ cur \in ObjIds \cup {None}
      /\ sub \in [Sessions -> Sub] /\ unsub \in [Sessions -> Unsub]
      /\ \A o \in ObjIds : /\ objs[o] \in Obj /\ objs[o].subs \subseteq Sessions
                           /\ objs[o].down \in BOOLEAN
                           /\ objs[o].flight \in {"none", "session", "restore"}
      /\ \A p \in Sessions : /\ sub[p] \in Sub /\ sub[p].pc \in {"idle", "wait"}
                             /\ sub[p].again \in BOOLEAN
                             /\ unsub[p] \in Unsub
                             /\ unsub[p].pc \in {"idle", "wait", "go", "sent"}
  BY Types
<1>1. sub[s].pc = "idle" /\ UNCHANGED <<conn, server, unsub, seen>>
      /\ \A p \in Sessions : unsub[p].pc # "go"
  BY DEF Subscribe, Settled
<1>2. PICK o \in ObjIds, old \in Obj :
         /\ IF cur # None THEN o = cur ELSE o \in FreeObjs
         /\ cur' = o
         /\ old = IF cur # None THEN objs[o] ELSE NewObj
         /\ objs' = [objs EXCEPT ![o] =
               [old EXCEPT !.subs = @ \cup {s},
                           !.flight = IF @ = "none" /\ ~old.down /\ conn # "down"
                                      THEN "session" ELSE @]]
         /\ IF old.down
            THEN acked' = acked \cup {s} /\ UNCHANGED sub
            ELSE sub' = Joined(s, o, s \in old.subs) /\ UNCHANGED acked
  <2>1. PICK o \in ObjIds :
         /\ IF cur # None THEN o = cur
                          ELSE o \in FreeObjs /\ \A q \in FreeObjs : o <= q
         /\ cur' = o
         /\ LET old == IF cur # None THEN objs[o] ELSE NewObj
                new == [old EXCEPT !.subs = @ \cup {s},
                                   !.flight = IF @ = "none" /\ ~old.down /\ conn # "down"
                                              THEN "session" ELSE @]
            IN /\ objs' = [objs EXCEPT ![o] = new]
               /\ IF old.down
                  THEN acked' = acked \cup {s} /\ UNCHANGED sub
                  ELSE sub' = Joined(s, o, s \in old.subs) /\ UNCHANGED acked
    BY DEF Subscribe
  <2>2. PICK old \in Obj : old = IF cur # None THEN objs[o] ELSE NewObj
    BY <1>0, NewObjOK
  <2> QED BY <2>1, <2>2
<1>3. /\ cur # None => o = cur /\ old = objs[o]
      /\ cur = None => /\ objs[o].flight = "none"
                       /\ old.subs = {} /\ ~old.down /\ old.flight = "none"
      /\ o # None /\ old.flight = objs[o].flight /\ old.down \in BOOLEAN
      /\ old.flight \in {"none", "session", "restore"} /\ old.subs \subseteq Sessions
  BY <1>0, <1>2, NewObjOK, NoneIsNoObject DEF FreeObjs
<1>4. PICK f \in {"none", "session", "restore"} :
         f = IF old.flight = "none" /\ ~old.down /\ conn # "down" THEN "session" ELSE old.flight
  BY <1>3
<1>5. PICK new \in Obj : /\ objs' = [objs EXCEPT ![o] = new]
                         /\ new.subs = old.subs \cup {s}
                         /\ new.down = old.down /\ new.flight = f
  <2>1. PICK new : new = [old EXCEPT !.subs = old.subs \cup {s}, !.flight = f]
    OBVIOUS
  <2>2. objs' = [objs EXCEPT ![o] = new]
    BY <1>2, <1>4, <2>1
  <2>3. new \in Obj /\ new.subs = old.subs \cup {s} /\ new.down = old.down /\ new.flight = f
    BY <1>3, <2>1 DEF Obj
  <2> QED BY <2>2, <2>3
<1>6. /\ objs' \in [ObjIds -> Obj] /\ objs'[o] = new
      /\ \A q \in ObjIds : q # o => objs'[q] = objs[q]
  BY <1>0, <1>2, <1>5
<1>7. \A q \in ObjIds : /\ objs[q].flight # "none" => objs'[q].flight = objs[q].flight
                        /\ objs'[q].flight # objs[q].flight =>
                              q = o /\ objs'[q].flight = "session" /\ conn # "down"
  BY <1>3, <1>4, <1>5, <1>6
<1>8. /\ sub' \in [Sessions -> Sub]
      /\ \A p \in Sessions : p # s => sub'[p] = sub[p]
      /\ \/ /\ UNCHANGED sub /\ (old.down \/ conn = "down")
            /\ acked' = IF old.down THEN acked \cup {s} ELSE acked
         \/ /\ ~old.down /\ conn # "down" /\ f # "none" /\ UNCHANGED acked
            /\ sub'[s].pc = "wait" /\ sub'[s].obj = o /\ (sub'[s].again <=> s \in old.subs)
  <2>1. CASE old.down \/ conn = "down"
    BY <1>0, <1>2, <2>1 DEF Joined
  <2>2. CASE ~old.down /\ conn # "down"
    <3>0. (s \in old.subs) \in BOOLEAN
      OBVIOUS
    <3>1. PICK b \in BOOLEAN : b = (s \in old.subs)
      BY <3>0
    <3>2. PICK r : r = [pc |-> "wait", obj |-> o, again |-> b, void |-> FALSE]
      OBVIOUS
    <3>3. r \in Sub /\ r.pc = "wait" /\ r.obj = o /\ r.again = b
      BY <3>2 DEF Sub
    <3>4. sub' = [sub EXCEPT ![s] = r] /\ UNCHANGED acked
      BY <1>2, <2>2, <3>1, <3>2 DEF Joined
    <3>5. f # "none"
      BY <1>4, <2>2
    <3> QED BY <1>0, <2>2, <3>1, <3>3, <3>4, <3>5
  <2> QED BY <2>1, <2>2
<1>9. TypeOK'
  BY <1>1, <1>2, <1>6, <1>8 DEF TypeOK
<1>10. WaitInv'
  BY <1>0, <1>1, <1>5, <1>6, <1>7, <1>8 DEF WaitInv
<1>11. DownInv'
  BY <1>1, <1>7 DEF DownInv
<1>12. KeptInv'
  <2> SUFFICES ASSUME "left" \notin seen
               PROVE  /\ \A p \in Sessions : unsub'[p].pc = "idle"
                      /\ \A q \in ObjIds : objs'[q].flight # "none" => q = cur'
                      /\ \A p \in Sessions : sub'[p].pc = "wait" =>
                            p \in objs'[sub'[p].obj].subs /\ (p \in acked' => sub'[p].again)
                      /\ AckedIsSubscribed'
    BY <1>1 DEF KeptInv
  <2>1. /\ \A p \in Sessions : unsub[p].pc = "idle"
        /\ \A q \in ObjIds : objs[q].flight # "none" => q = cur
        /\ \A p \in Sessions : sub[p].pc = "wait" =>
              p \in objs[sub[p].obj].subs /\ (p \in acked => sub[p].again)
        /\ \A p \in acked : cur # None /\ p \in objs[cur].subs
    BY DEF KeptInv, AckedIsSubscribed
  <2>2. \A q \in ObjIds : objs'[q].flight # "none" => q = cur'
    BY <1>2, <1>3, <1>7, <2>1, NoneIsNoObject
  <2>3. \A q \in ObjIds : objs[q].flight # "none" => objs[q].subs \subseteq objs'[q].subs
    BY <1>3, <1>5, <1>6, <2>1, NoneIsNoObject
  <2>4. ASSUME NEW p \in Sessions, sub'[p].pc = "wait"
        PROVE  p \in objs'[sub'[p].obj].subs /\ (p \in acked' => sub'[p].again)
    <3>1. CASE p = s /\ sub'[s] # sub[s]
      BY <1>2, <1>3, <1>5, <1>6, <1>8, <2>1, <3>1
    <3>2. CASE sub'[p] = sub[p]
      <4>1. sub[p].obj \in ObjIds /\ objs[sub[p].obj].flight # "none" /\ p # s
        BY <1>1, <2>4, <3>2 DEF WaitInv
      <4> QED BY <1>8, <2>1, <2>3, <2>4, <3>2, <4>1
    <3> QED BY <1>8, <3>1, <3>2
  <2>5. AckedIsSubscribed'
    <3>1. \A p \in acked : cur' # None /\ p \in objs'[cur'].subs
      BY <1>2, <1>3, <1>5, <1>6, <2>1
    <3>2. s \in objs'[cur'].subs /\ cur' # None
      BY <1>2, <1>3, <1>5, <1>6
    <3> QED BY <1>8, <3>1, <3>2 DEF AckedIsSubscribed
  <2> QED BY <1>1, <2>1, <2>2, <2>4, <2>5
<1>13. FreshInv'
  <2>1. Fresh => Fresh'
    BY <1>1, <1>2, <1>3, <1>5, <1>6, <1>7 DEF Fresh
  <2>2. ASSUME conn' # "down", ~objs'[cur'].down, NEW p \in Staying(cur)' PROVE Fresh'
    <3>0. cur' = o
      BY <1>2
    <3>1. p \in objs'[o].subs /\ ~(sub'[p].pc = "wait" /\ sub'[p].obj = o /\ ~sub'[p].again)
      BY <2>2, <3>0 DEF Staying
    <3>2. sub'[s].pc = "wait" /\ sub'[s].obj = o /\ (sub'[s].again <=> s \in old.subs)
      BY <1>1, <1>2, <1>5, <1>6, <1>8, <2>2
    <3>3. p \in old.subs
      BY <1>5, <1>6, <3>1, <3>2
    <3>4. cur # None /\ o = cur /\ old = objs[cur]
      BY <1>3, <3>3
    <3>5. p \in Staying(cur)
      <4>1. CASE p = s
        BY <1>1, <3>3, <3>4, <4>1 DEF Staying
      <4>2. CASE p # s
        <5>1. sub'[p] = sub[p]
          BY <1>0, <1>3, <1>8, <3>3, <4>2
        <5> QED BY <3>1, <3>3, <3>4, <5>1 DEF Staying
      <4> QED BY <4>1, <4>2
    <3> QED BY <1>1, <1>2, <1>5, <1>6, <2>1, <2>2, <3>4, <3>5 DEF FreshInv
  <2>3. ASSUME NEW q \in ObjIds, objs'[q].flight = "restore" PROVE conn' = "restoring" /\ Fresh'
    BY <1>1, <1>7, <2>1, <2>3 DEF FreshInv
  <2> QED BY <2>2, <2>3 DEF FreshInv
<1>14. FlagInv'
  BY <1>1, <1>2, <1>3, <1>5, <1>6 DEF FlagInv
<1>15. EmptyInv'
  BY <1>2, <1>5, <1>6 DEF EmptyInv
<1> QED BY <1>9, <1>10, <1>11, <1>12, <1>13, <1>14, <1>15


(* What becomes of those who wait for the request of o. *)
LEMMA ResumeOK ==
    ASSUME SubsInv, NEW o \in ObjIds, Resume(o)
    PROVE  /\ sub' \in [Sessions -> Sub] /\ unsub' \in [Sessions -> Unsub]
           /\ \A p \in Sessions :
                 /\ p \in SubWaiters(o) => sub'[p].pc = "idle"
                 /\ p \notin SubWaiters(o) => sub'[p] = sub[p]
                 /\ sub'[p].pc = "wait" => sub'[p] = sub[p] /\ sub[p].obj # o
                 /\ p \in UnsubWaiters(o) => unsub'[p].pc = "go" /\ unsub'[p].obj = o
                 /\ p \notin UnsubWaiters(o) => unsub'[p] = unsub[p]
                 /\ unsub'[p].pc = "wait" => unsub'[p] = unsub[p] /\ unsub[p].obj # o
<1>1. /\ sub \in [Sessions -> Sub] /\ unsub \in [Sessions -> Unsub]
  BY Types
<1>2. ASSUME NEW p \in Sessions
      PROVE  /\ sub'[p] \in Sub
             /\ p \in SubWaiters(o) => sub'[p].pc = "idle"
             /\ p \notin SubWaiters(o) => sub'[p] = sub[p]
             /\ sub'[p].pc = "wait" => sub'[p] = sub[p] /\ sub[p].obj # o
  BY <1>1, NothingOK DEF Resume, SubWaiters
<1>3. ASSUME NEW p \in Sessions
      PROVE  /\ unsub'[p] \in Unsub
             /\ p \in UnsubWaiters(o) => unsub'[p].pc = "go" /\ unsub'[p].obj = o
             /\ p \notin UnsubWaiters(o) => unsub'[p] = unsub[p]
             /\ unsub'[p].pc = "wait" => unsub'[p] = unsub[p] /\ unsub[p].obj # o
  <2>1. CASE p \in UnsubWaiters(o)
    <3>1. unsub'[p] = [unsub[p] EXCEPT !.pc = "go"] /\ unsub[p] \in Unsub /\ unsub[p].obj = o
      BY <1>1, <2>1 DEF Resume, UnsubWaiters
    <3> QED BY <2>1, <3>1 DEF Unsub
  <2>2. CASE p \notin UnsubWaiters(o)
    BY <1>1, <2>2 DEF Resume, UnsubWaiters
  <2> QED BY <2>1, <2>2
<1> QED BY <1>2, <1>3 DEF Resume

(* The downstream server accepts a subscription. *)
LEMMA SubscribeSucceedsInv ==
    ASSUME SubsInv, NEW o \in ObjIds, SubscribeSucceeds(o)
    PROVE  SubsInv'
<1> USE DEF SubsInv
<1>0. /\ objs \in [ObjIds -> Obj] /\ cur \in ObjIds \cup {None}
      /\ \A q \in ObjIds : /\ objs[q] \in Obj /\ objs[q].subs \subseteq Sessions
                           /\ objs[q].flight \in {"none", "session", "restore"}
      /\ \A p \in Sessions : unsub[p].pc \in {"idle", "wait", "go", "sent"}
  BY Types
<1>1. /\ \A p \in Sessions : unsub[p].pc # "go"
      /\ objs[o].flight # "none" /\ server' = TRUE /\ UNCHANGED <<cur, conn, seen>>
      /\ acked' = acked \cup {p \in SubWaiters(o) : ~sub[p].void}
  BY DEF SubscribeSucceeds, Settled
<1>2. /\ sub' \in [Sessions -> Sub] /\ unsub' \in [Sessions -> Unsub]
      /\ \A p \in Sessions :
            /\ p \in SubWaiters(o) => sub'[p].pc = "idle"
            /\ p \notin SubWaiters(o) => sub'[p] = sub[p]
            /\ sub'[p].pc = "wait" => sub'[p] = sub[p] /\ sub[p].obj # o
            /\ p \in UnsubWaiters(o) => unsub'[p].pc = "go" /\ unsub'[p].obj = o
            /\ p \notin UnsubWaiters(o) => unsub'[p] = unsub[p]
            /\ unsub'[p].pc = "wait" => unsub'[p] = unsub[p] /\ unsub[p].obj # o
  BY ResumeOK DEF SubscribeSucceeds
<1>3. PICK n \in Obj : /\ objs' = [objs EXCEPT ![o] = n]
                       /\ n.subs = objs[o].subs /\ n.down = TRUE /\ n.flight = "none"
  <2>1. PICK n : n = [objs[o] EXCEPT !.flight = "none", !.down = TRUE]
    OBVIOUS
  <2>2. n \in Obj /\ n.subs = objs[o].subs /\ n.down = TRUE /\ n.flight = "none"
    BY <1>0, <2>1 DEF Obj
  <2>3. objs' = [objs EXCEPT ![o] = n]
    BY <1>0, <2>1 DEF SubscribeSucceeds
  <2> QED BY <2>2, <2>3
<1>4. /\ objs' \in [ObjIds -> Obj] /\ objs'[o] = n
      /\ \A q \in ObjIds : q # o => objs'[q] = objs[q]
  BY <1>0, <1>3
<1>5. \A p \in Sessions : p \in UnsubWaiters(o) => unsub[p].pc = "wait" /\ unsub[p].obj = o
  BY DEF UnsubWaiters
<1>6. TypeOK'
  BY <1>1, <1>2, <1>4 DEF TypeOK, SubWaiters
<1>7. WaitInv'
  <2>1. ASSUME NEW p \in Sessions, sub'[p].pc = "wait"
        PROVE  sub'[p].obj \in ObjIds /\ objs'[sub'[p].obj].flight # "none"
    BY <1>2, <1>4, <2>1 DEF WaitInv
  <2>2. ASSUME NEW p \in Sessions, unsub'[p].pc # "idle"
        PROVE  /\ unsub'[p].obj \in ObjIds
               /\ unsub'[p].pc = "wait" => objs'[unsub'[p].obj].flight # "none"
               /\ unsub'[p].pc = "go" => objs'[unsub'[p].obj].flight = "none"
    <3>1. CASE p \in UnsubWaiters(o)
      BY <1>2, <1>3, <1>4, <3>1
    <3>2. CASE p \notin UnsubWaiters(o)
      BY <1>1, <1>2, <1>4, <2>2, <3>2 DEF WaitInv
    <3> QED BY <3>1, <3>2
  <2> QED BY <2>1, <2>2 DEF WaitInv
<1>8. conn # "down"
  BY <1>1 DEF DownInv
<1>9. DownInv'
  BY <1>1, <1>8 DEF DownInv
<1>10. KeptInv'
  <2> SUFFICES ASSUME "left" \notin seen
               PROVE  /\ \A p \in Sessions : unsub'[p].pc = "idle"
                      /\ \A q \in ObjIds : objs'[q].flight # "none" => q = cur'
                      /\ \A p \in Sessions : sub'[p].pc = "wait" =>
                            p \in objs'[sub'[p].obj].subs /\ (p \in acked' => sub'[p].again)
                      /\ AckedIsSubscribed'
    BY <1>1 DEF KeptInv
  <2>1. /\ \A p \in Sessions : unsub[p].pc = "idle"
        /\ \A q \in ObjIds : objs[q].flight # "none" => q = cur
        /\ \A p \in Sessions : sub[p].pc = "wait" =>
              p \in objs[sub[p].obj].subs /\ (p \in acked => sub[p].again)
        /\ \A p \in acked : cur # None /\ p \in objs[cur].subs
    BY DEF KeptInv, AckedIsSubscribed
  <2>2. \A p \in Sessions : unsub'[p].pc = "idle"
    BY <1>2, <1>5, <2>1
  <2>3. \A q \in ObjIds : objs'[q].subs = objs[q].subs
    BY <1>3, <1>4
  <2>4. ASSUME NEW p \in Sessions, sub'[p].pc = "wait"
        PROVE  p \in objs'[sub'[p].obj].subs /\ (p \in acked' => sub'[p].again)
    <3>1. sub'[p] = sub[p] /\ p \notin SubWaiters(o) /\ sub[p].obj \in ObjIds
      BY <1>2, <2>4 DEF WaitInv
    <3> QED BY <1>1, <2>1, <2>3, <2>4, <3>1
  <2>5. o = cur /\ cur # None
    BY <1>1, <2>1, NoneIsNoObject
  <2>6. \A p \in SubWaiters(o) : p \in objs[cur].subs
    BY <2>1, <2>5 DEF SubWaiters
  <2>7. AckedIsSubscribed'
    BY <1>1, <2>1, <2>3, <2>5, <2>6 DEF AckedIsSubscribed
  <2>8. \A q \in ObjIds : objs'[q].flight # "none" => q = cur'
    BY <1>1, <1>3, <1>4, <2>1
  <2> QED BY <2>2, <2>4, <2>7, <2>8
<1>11. FreshInv'
  <2>1. ~Fresh \/ o = cur
    BY <1>1 DEF Fresh
  <2>2. ASSUME conn' # "down", cur' # None, ~objs'[cur'].down, NEW p \in Staying(cur)' PROVE Fresh'
    <3>0. cur' = cur /\ cur \in ObjIds
      BY <1>0, <1>1, <2>2
    <3>1. o # cur
      BY <1>1, <1>3, <1>4, <2>2
    <3>2. objs'[cur] = objs[cur]
      BY <1>4, <3>0, <3>1
    <3>3. p \in objs'[cur].subs /\ ~(sub'[p].pc = "wait" /\ sub'[p].obj = cur /\ ~sub'[p].again)
      BY <2>2, <3>0 DEF Staying
    <3>4. p \in Sessions /\ p \in objs[cur].subs
      BY <1>0, <3>0, <3>2, <3>3
    <3>5. ~(sub[p].pc = "wait" /\ sub[p].obj = cur /\ ~sub[p].again)
      <4>1. CASE p \in SubWaiters(o)
        BY <3>1, <4>1 DEF SubWaiters
      <4>2. CASE p \notin SubWaiters(o)
        BY <1>2, <3>3, <3>4, <4>2
      <4> QED BY <4>1, <4>2
    <3>6. Staying(cur) # {}
      BY <3>4, <3>5 DEF Staying
    <3> QED BY <1>1, <2>1, <2>2, <3>0, <3>1, <3>2, <3>6 DEF FreshInv
  <2>3. ASSUME NEW q \in ObjIds, objs'[q].flight = "restore" PROVE FALSE
    <3>1. q # o /\ objs[q].flight = "restore"
      BY <1>3, <1>4, <2>3
    <3> QED BY <1>1, <3>1 DEF FreshInv, Fresh
  <2> QED BY <2>2, <2>3 DEF FreshInv
<1>12. FlagInv'
  BY <1>1, <1>8 DEF FlagInv
<1>13. EmptyInv'
  <2> SUFFICES ASSUME cur' # None, objs'[cur'].subs = {}
               PROVE  \E p \in Sessions : \/ unsub'[p].pc \in {"wait", "go"} /\ unsub'[p].obj = cur'
                                          \/ unsub'[p].pc = "sent"
    BY DEF EmptyInv
  <2>1. cur # None /\ objs[cur].subs = {}
    BY <1>0, <1>1, <1>3, <1>4
  <2>2. PICK p \in Sessions : \/ unsub[p].pc \in {"wait", "go"} /\ unsub[p].obj = cur
                              \/ unsub[p].pc = "sent"
    BY <2>1 DEF EmptyInv
  <2>3. CASE p \in UnsubWaiters(o)
    BY <1>1, <1>2, <1>5, <2>2, <2>3
  <2>4. CASE p \notin UnsubWaiters(o)
    BY <1>1, <1>2, <2>2, <2>4
  <2> QED BY <2>3, <2>4
<1> QED BY <1>6, <1>7, <1>9, <1>10, <1>11, <1>12, <1>13

(* The downstream server refuses a subscription, or does not answer it. *)
LEMMA SubscribeFailsInv ==
    ASSUME SubsInv, NEW o \in ObjIds, SubscribeFails(o)
    PROVE  SubsInv'
<1> USE DEF SubsInv
<1>0. /\ objs \in [ObjIds -> Obj] /\ cur \in ObjIds \cup {None}
      /\ \A q \in ObjIds : /\ objs[q] \in Obj /\ objs[q].subs \subseteq Sessions
                           /\ objs[q].down \in BOOLEAN
                           /\ objs[q].flight \in {"none", "session", "restore"}
      /\ \A p \in Sessions : unsub[p].pc \in {"idle", "wait", "go", "sent"}
  BY Types
<1>1. /\ \A p \in Sessions : unsub[p].pc # "go"
      /\ objs[o].flight # "none" /\ UNCHANGED <<acked, seen>>
      /\ conn' = IF objs[o].flight = "restore" THEN "down" ELSE conn
      /\ server' = IF objs[o].flight = "restore" THEN FALSE ELSE server
  BY DEF SubscribeFails, Settled
<1>2. /\ sub' \in [Sessions -> Sub] /\ unsub' \in [Sessions -> Unsub]
      /\ \A p \in Sessions :
            /\ p \in SubWaiters(o) => sub'[p].pc = "idle"
            /\ p \notin SubWaiters(o) => sub'[p] = sub[p]
            /\ sub'[p].pc = "wait" => sub'[p] = sub[p] /\ sub[p].obj # o
            /\ p \in UnsubWaiters(o) => unsub'[p].pc = "go" /\ unsub'[p].obj = o
            /\ p \notin UnsubWaiters(o) => unsub'[p] = unsub[p]
            /\ unsub'[p].pc = "wait" => unsub'[p] = unsub[p] /\ unsub[p].obj # o
  BY ResumeOK DEF SubscribeFails
<1>3. PICK A \in SUBSET Sessions : A = AfterFailure(o)
  BY <1>0 DEF AfterFailure
<1>4. /\ A \subseteq objs[o].subs
      /\ \A p \in objs[o].subs : p \in A <=> ~(p \in SubWaiters(o) /\ ~sub[p].again)
      /\ cur' = cur \/ (cur' = None /\ A = {})
      /\ A = {} /\ SubWaiters(o) # {} => cur' = None
  BY <1>3 DEF AfterFailure, Leavers, SubscribeFails, DropIfEmpty
<1>5. PICK n \in Obj : /\ objs' = [objs EXCEPT ![o] = n]
                       /\ n.subs = A /\ n.down = objs[o].down /\ n.flight = "none"
  <2>1. PICK n : n = [objs[o] EXCEPT !.flight = "none", !.subs = A]
    OBVIOUS
  <2>2. n \in Obj /\ n.subs = A /\ n.down = objs[o].down /\ n.flight = "none"
    BY <1>0, <2>1 DEF Obj
  <2>3. objs' = [objs EXCEPT ![o] = n]
    BY <1>0, <1>3, <2>1 DEF SubscribeFails
  <2> QED BY <2>2, <2>3
<1>6. /\ objs' \in [ObjIds -> Obj] /\ objs'[o] = n
      /\ \A q \in ObjIds : q # o => objs'[q] = objs[q]
  BY <1>0, <1>5
<1>7. \A p \in Sessions : p \in UnsubWaiters(o) => unsub[p].pc = "wait" /\ unsub[p].obj = o
  BY DEF UnsubWaiters
<1>8. TypeOK'
  BY <1>0, <1>1, <1>2, <1>4, <1>6 DEF TypeOK
<1>9. WaitInv'
  <2>1. ASSUME NEW p \in Sessions, sub'[p].pc = "wait"
        PROVE  sub'[p].obj \in ObjIds /\ objs'[sub'[p].obj].flight # "none"
    BY <1>2, <1>6, <2>1 DEF WaitInv
  <2>2. ASSUME NEW p \in Sessions, unsub'[p].pc # "idle"
        PROVE  /\ unsub'[p].obj \in ObjIds
               /\ unsub'[p].pc = "wait" => objs'[unsub'[p].obj].flight # "none"
               /\ unsub'[p].pc = "go" => objs'[unsub'[p].obj].flight = "none"
    <3>1. CASE p \in UnsubWaiters(o)
      BY <1>2, <1>5, <1>6, <3>1
    <3>2. CASE p \notin UnsubWaiters(o)
      BY <1>1, <1>2, <1>6, <2>2, <3>2 DEF WaitInv
    <3> QED BY <3>1, <3>2
  <2> QED BY <2>1, <2>2 DEF WaitInv
<1>10. conn # "down"
  BY <1>1 DEF DownInv
<1>11. DownInv'
  <2> SUFFICES ASSUME conn' = "down"
               PROVE  /\ \A q \in ObjIds : objs'[q].flight = "none"
                      /\ \A p \in Sessions : unsub'[p].pc # "sent"
    BY DEF DownInv
  <2>1. objs[o].flight = "restore"
    BY <1>1, <1>10
  <2>2. Fresh
    BY <2>1 DEF FreshInv
  <2>3. o = cur
    BY <1>1, <2>2 DEF Fresh
  <2>4. \A q \in ObjIds : objs'[q].flight = "none"
    BY <1>5, <1>6, <2>2, <2>3 DEF Fresh
  <2>5. \A p \in Sessions : unsub'[p].pc # "sent"
    BY <1>2, <2>2 DEF Fresh
  <2> QED BY <2>4, <2>5
<1>12. KeptInv'
  <2> SUFFICES ASSUME "left" \notin seen
               PROVE  /\ \A p \in Sessions : unsub'[p].pc = "idle"
                      /\ \A q \in ObjIds : objs'[q].flight # "none" => q = cur'
                      /\ \A p \in Sessions : sub'[p].pc = "wait" =>
                            p \in objs'[sub'[p].obj].subs /\ (p \in acked' => sub'[p].again)
                      /\ AckedIsSubscribed'
    BY <1>1 DEF KeptInv
  <2>1. /\ \A p \in Sessions : unsub[p].pc = "idle"
        /\ \A q \in ObjIds : objs[q].flight # "none" => q = cur
        /\ \A p \in Sessions : sub[p].pc = "wait" =>
              p \in objs[sub[p].obj].subs /\ (p \in acked => sub[p].again)
        /\ \A p \in acked : cur # None /\ p \in objs[cur].subs
    BY DEF KeptInv, AckedIsSubscribed
  <2>2. \A p \in Sessions : unsub'[p].pc = "idle"
    BY <1>2, <1>7, <2>1
  <2>3. o = cur /\ cur # None
    BY <1>1, <2>1, NoneIsNoObject
  <2>4. \A q \in ObjIds : objs'[q].flight = "none"
    BY <1>5, <1>6, <2>1, <2>3
  <2>5. \A p \in Sessions : sub'[p].pc # "wait"
    BY <1>9, <2>4 DEF WaitInv
  <2>6. \A p \in acked : p \in A
    BY <1>4, <2>1, <2>3 DEF SubWaiters
  <2>7. AckedIsSubscribed'
    BY <1>1, <1>4, <1>5, <1>6, <2>3, <2>6 DEF AckedIsSubscribed
  <2> QED BY <2>2, <2>4, <2>5, <2>7
<1>13. FreshInv'
  <2>1. ASSUME Fresh, cur' # None PROVE Fresh'
    <3>1. o = cur /\ cur' = cur
      BY <1>1, <1>4, <2>1 DEF Fresh
    <3>2. \A p \in Sessions : unsub'[p].pc \in {"wait", "go"} => unsub'[p].obj = cur
      BY <1>2, <1>7, <2>1, <3>1 DEF Fresh
    <3>3. \A p \in Sessions : unsub'[p].pc # "sent"
      BY <1>2, <2>1 DEF Fresh
    <3> QED BY <1>5, <1>6, <2>1, <3>1, <3>2, <3>3 DEF Fresh
  <2>2. ASSUME conn' # "down", cur' # None, ~objs'[cur'].down, NEW p \in Staying(cur)' PROVE Fresh'
    <3>0. cur' = cur /\ cur \in ObjIds /\ conn' = conn
      BY <1>0, <1>1, <1>4, <2>2
    <3>1. ~objs[cur].down
      BY <1>5, <1>6, <2>2, <3>0
    <3>2. p \in objs'[cur].subs /\ ~(sub'[p].pc = "wait" /\ sub'[p].obj = cur /\ ~sub'[p].again)
      BY <2>2, <3>0 DEF Staying
    <3>3. p \in objs[cur].subs /\ p \in Sessions
      BY <1>0, <1>4, <1>5, <1>6, <3>0, <3>2
    <3>4. ~(sub[p].pc = "wait" /\ sub[p].obj = cur /\ ~sub[p].again)
      <4>1. CASE p \in SubWaiters(o) /\ o = cur
        BY <1>4, <1>5, <1>6, <3>2, <3>3, <4>1
      <4>2. CASE p \in SubWaiters(o) /\ o # cur
        BY <4>2 DEF SubWaiters
      <4>3. CASE p \notin SubWaiters(o)
        BY <1>2, <3>2, <3>3, <4>3
      <4> QED BY <4>1, <4>2, <4>3
    <3>5. Staying(cur) # {}
      BY <3>3, <3>4 DEF Staying
    <3>6. Fresh
      BY <2>2, <3>0, <3>1, <3>5 DEF FreshInv
    <3> QED BY <2>1, <2>2, <3>6
  <2>3. ASSUME NEW q \in ObjIds, objs'[q].flight = "restore" PROVE FALSE
    <3>1. q # o /\ objs[q].flight = "restore"
      BY <1>5, <1>6, <2>3
    <3> QED BY <1>1, <3>1 DEF FreshInv, Fresh
  <2> QED BY <2>2, <2>3 DEF FreshInv
<1>14. FlagInv'
  <2> SUFFICES ASSUME "lost" \notin seen, cur' # None, objs'[cur'].down
               PROVE  conn' # "down" /\ (server' \/ \E p \in Sessions : unsub'[p].pc = "sent")
    BY <1>1 DEF FlagInv
  <2>1. cur' = cur /\ cur \in ObjIds /\ objs[cur].down
    BY <1>0, <1>4, <1>5, <1>6
  <2>2. objs[o].flight # "restore"
    BY <2>1 DEF FreshInv, Fresh
  <2>3. conn # "down" /\ (server \/ \E p \in Sessions : unsub[p].pc = "sent")
    BY <2>1 DEF FlagInv
  <2>4. \A p \in Sessions : unsub[p].pc = "sent" => unsub'[p].pc = "sent"
    BY <1>2, <1>7
  <2> QED BY <1>1, <2>2, <2>3, <2>4
<1>15. EmptyInv'
  <2> SUFFICES ASSUME cur' # None, objs'[cur'].subs = {}
               PROVE  \E p \in Sessions : \/ unsub'[p].pc \in {"wait", "go"} /\ unsub'[p].obj = cur'
                                          \/ unsub'[p].pc = "sent"
    BY DEF EmptyInv
  <2>0. cur' = cur /\ cur \in ObjIds
    BY <1>0, <1>4
  <2>1. objs[cur].subs = {}
    <3>1. CASE o = cur
      BY <1>4, <1>5, <1>6, <2>0, <3>1
    <3>2. CASE o # cur
      BY <1>6, <2>0, <3>2
    <3> QED BY <3>1, <3>2
  <2>2. PICK p \in Sessions : \/ unsub[p].pc \in {"wait", "go"} /\ unsub[p].obj = cur
                              \/ unsub[p].pc = "sent"
    BY <2>0, <2>1, NoneIsNoObject DEF EmptyInv
  <2>3. CASE p \in UnsubWaiters(o)
    BY <1>2, <1>7, <2>0, <2>2, <2>3
  <2>4. CASE p \notin UnsubWaiters(o)
    BY <1>2, <2>0, <2>2, <2>4
  <2> QED BY <2>3, <2>4
<1> QED BY <1>8, <1>9, <1>11, <1>12, <1>13, <1>14, <1>15

(* The end of unsubscribeResourceState, by cases. *)
LEMMA UnsubscribedOK ==
    ASSUME SubsInv, NEW s \in Sessions, NEW o \in ObjIds, Unsubscribed(s, o)
    PROVE  /\ unsub' \in [Sessions -> Unsub] /\ server' \in BOOLEAN
           /\ \A p \in Sessions : p # s => unsub'[p] = unsub[p]
           /\ \/ /\ objs[o].down /\ conn # "down" /\ cur' = cur
                 /\ unsub'[s].pc = "sent" /\ unsub'[s].obj = o
              \/ unsub'[s].pc = "idle" /\ cur' = None /\ server' = server
<1>1. unsub \in [Sessions -> Unsub] /\ server \in BOOLEAN
  BY DEF SubsInv, TypeOK
<1>2. CASE objs[o].down /\ conn # "down"
  <2>1. PICK r : r = [pc |-> "sent", obj |-> o]
    OBVIOUS
  <2>2. r \in Unsub /\ r.pc = "sent" /\ r.obj = o
    BY <2>1 DEF Unsub
  <2>3. /\ unsub' = [unsub EXCEPT ![s] = r] /\ cur' = cur
        /\ \E ok \in BOOLEAN : server' = IF ok THEN FALSE ELSE server
    BY <1>2, <2>1 DEF Unsubscribed
  <2> QED BY <1>1, <1>2, <2>2, <2>3
<1>3. CASE ~(objs[o].down /\ conn # "down")
  <2>1. unsub' = [unsub EXCEPT ![s] = NoUnsub] /\ cur' = None /\ server' = server
    BY <1>3 DEF Unsubscribed
  <2> QED BY <1>1, <2>1, NothingOK
<1> QED BY <1>2, <1>3

(* A session unsubscribes, or is gone. *)
LEMMA UnsubscribeInv ==
    ASSUME SubsInv, NEW s \in Sessions, Unsubscribe(s)
    PROVE  SubsInv'
<1> USE DEF SubsInv
<1>0. /\ objs \in [ObjIds -> Obj] /\ cur \in ObjIds \cup {None}
      /\ sub \in [Sessions -> Sub] /\ unsub \in [Sessions -> Unsub]
      /\ \A q \in ObjIds : /\ objs[q] \in Obj /\ objs[q].subs \subseteq Sessions
                           /\ objs[q].down \in BOOLEAN
                           /\ objs[q].flight \in {"none", "session", "restore"}
      /\ \A p \in Sessions : /\ sub[p] \in Sub
                             /\ unsub[p].pc \in {"idle", "wait", "go", "sent"}
  BY Types
<1>1. /\ \A p \in Sessions : unsub[p].pc # "go"
      /\ cur # None /\ unsub[s].pc = "idle" /\ conn' = conn
      /\ acked' = acked \ {s} /\ seen' = seen \cup {"left"}
  BY DEF Unsubscribe, Settled
<1>2. PICK c \in ObjIds : c = cur
  BY <1>0, <1>1
<1>3. PICK left \in SUBSET Sessions : left = objs[c].subs \ {s}
  BY <1>0
<1>4. PICK n \in Obj : /\ objs' = [objs EXCEPT ![c] = n]
                       /\ n.subs = left /\ n.down = objs[c].down /\ n.flight = objs[c].flight
  <2>1. PICK n : n = [objs[c] EXCEPT !.subs = left]
    OBVIOUS
  <2>2. n \in Obj /\ n.subs = left /\ n.down = objs[c].down /\ n.flight = objs[c].flight
    BY <1>0, <2>1 DEF Obj
  <2>3. objs' = [objs EXCEPT ![c] = n]
    BY <1>0, <1>2, <1>3, <2>1 DEF Unsubscribe
  <2> QED BY <2>2, <2>3
<1>5. /\ objs' \in [ObjIds -> Obj] /\ objs'[c] = n
      /\ \A q \in ObjIds : q # c => objs'[q] = objs[q]
      /\ \A q \in ObjIds : objs'[q].flight = objs[q].flight /\ objs'[q].down = objs[q].down
  BY <1>0, <1>4
<1>6. /\ sub' \in [Sessions -> Sub]
      /\ \A p \in Sessions : /\ sub'[p].pc = sub[p].pc /\ sub'[p].obj = sub[p].obj
                             /\ sub'[p].again = sub[p].again
  <2>0. (sub[s].pc # "idle") \in BOOLEAN
    OBVIOUS
  <2>1. PICK b \in BOOLEAN : b = (sub[s].pc # "idle")
    BY <2>0
  <2>2. PICK r : r = [sub[s] EXCEPT !.void = b]
    OBVIOUS
  <2>3. /\ r \in Sub /\ r.pc = sub[s].pc /\ r.obj = sub[s].obj /\ r.again = sub[s].again
    BY <1>0, <2>2 DEF Sub
  <2>4. sub' = [sub EXCEPT ![s] = r]
    BY <1>0, <2>1, <2>2 DEF Unsubscribe
  <2> QED BY <1>0, <2>3, <2>4
<1>7. /\ unsub' \in [Sessions -> Unsub] /\ server' \in BOOLEAN
      /\ \A p \in Sessions : p # s => unsub'[p] = unsub[p]
      /\ \/ left # {} /\ UNCHANGED <<cur, server, unsub>>
         \/ /\ left = {} /\ objs[c].flight # "none" /\ UNCHANGED <<cur, server>>
            /\ unsub'[s].pc = "wait" /\ unsub'[s].obj = c
         \/ /\ left = {} /\ objs[c].flight = "none" /\ objs[c].down /\ conn # "down" /\ cur' = cur
            /\ unsub'[s].pc = "sent" /\ unsub'[s].obj = c
         \/ /\ left = {} /\ objs[c].flight = "none" /\ unsub'[s].pc = "idle" /\ cur' = None
  <2>0. server \in BOOLEAN
    BY DEF TypeOK
  <2>1. CASE left # {}
    <3>1. UNCHANGED <<cur, server, unsub>>
      BY <1>2, <1>3, <2>1 DEF Unsubscribe
    <3> QED BY <1>0, <2>0, <2>1, <3>1
  <2>2. CASE left = {} /\ objs[c].flight # "none"
    <3>1. PICK r : r = [pc |-> "wait", obj |-> c]
      OBVIOUS
    <3>2. r \in Unsub /\ r.pc = "wait" /\ r.obj = c
      BY <3>1 DEF Unsub
    <3>3. unsub' = [unsub EXCEPT ![s] = r] /\ UNCHANGED <<cur, server>>
      BY <1>2, <1>3, <2>2, <3>1 DEF Unsubscribe
    <3> QED BY <1>0, <2>0, <2>2, <3>2, <3>3
  <2>3. CASE left = {} /\ objs[c].flight = "none"
    <3>1. Unsubscribed(s, c)
      BY <1>2, <1>3, <2>3 DEF Unsubscribe
    <3> QED BY <2>3, <3>1, UnsubscribedOK
  <2> QED BY <2>1, <2>2, <2>3
<1>8. TypeOK'
  BY <1>0, <1>1, <1>5, <1>6, <1>7 DEF TypeOK
<1>9. WaitInv'
  BY <1>1, <1>5, <1>6, <1>7 DEF WaitInv
<1>10. DownInv'
  BY <1>1, <1>5, <1>7 DEF DownInv
<1>11. KeptInv'
  BY <1>1 DEF KeptInv
<1>12. FreshInv'
  <2>1. ASSUME Fresh, objs[c].flight # "none" \/ left # {} PROVE Fresh'
    BY <1>1, <1>2, <1>5, <1>7, <2>1 DEF Fresh
  <2>2. ASSUME conn' # "down", cur' # None, ~objs'[cur'].down, NEW p \in Staying(cur)' PROVE Fresh'
    <3>0. cur' = cur
      BY <1>7, <2>2
    <3>1. ~objs[cur].down
      BY <1>2, <1>5, <2>2, <3>0
    <3>2. p \in objs'[c].subs /\ ~(sub'[p].pc = "wait" /\ sub'[p].obj = c /\ ~sub'[p].again)
      BY <1>2, <2>2, <3>0 DEF Staying
    <3>3. p \in left /\ p \in objs[c].subs /\ p \in Sessions
      BY <1>3, <1>4, <1>5, <3>2
    <3>4. p \in Staying(cur)
      BY <1>2, <1>6, <3>2, <3>3 DEF Staying
    <3> QED BY <1>1, <2>1, <2>2, <3>1, <3>3, <3>4 DEF FreshInv
  <2>3. ASSUME NEW q \in ObjIds, objs'[q].flight = "restore" PROVE conn' = "restoring" /\ Fresh'
    <3>1. objs[q].flight = "restore" /\ conn = "restoring" /\ Fresh
      BY <1>5, <2>3 DEF FreshInv
    <3>2. q = c
      BY <1>2, <3>1 DEF Fresh
    <3> QED BY <1>1, <2>1, <3>1, <3>2
  <2> QED BY <2>2, <2>3 DEF FreshInv
<1>13. FlagInv'
  <2> SUFFICES ASSUME "lost" \notin seen, cur' # None, objs'[cur'].down
               PROVE  conn' # "down" /\ (server' \/ \E p \in Sessions : unsub'[p].pc = "sent")
    BY <1>1 DEF FlagInv
  <2>1. cur' = cur /\ objs[cur].down
    BY <1>2, <1>5, <1>7
  <2>2. conn # "down" /\ (server \/ \E p \in Sessions : unsub[p].pc = "sent")
    BY <1>1, <2>1 DEF FlagInv
  <2>3. \A p \in Sessions : unsub[p].pc = "sent" => unsub'[p].pc = "sent"
    BY <1>1, <1>7
  <2> QED BY <1>1, <1>7, <2>2, <2>3
<1>14. EmptyInv'
  <2> SUFFICES ASSUME cur' # None, objs'[cur'].subs = {}
               PROVE  \E p \in Sessions : \/ unsub'[p].pc \in {"wait", "go"} /\ unsub'[p].obj = cur'
                                          \/ unsub'[p].pc = "sent"
    BY DEF EmptyInv
  <2>1. cur' = cur /\ left = {}
    BY <1>2, <1>4, <1>5, <1>7
  <2> QED BY <1>2, <1>7, <2>1
<1> QED BY <1>8, <1>9, <1>10, <1>11, <1>12, <1>13, <1>14

(* The request that an unsubscriber waited for has settled. *)
LEMMA UnsubscribeGoesInv ==
    ASSUME SubsInv, NEW s \in Sessions, UnsubscribeGoes(s)
    PROVE  SubsInv'
<1> USE DEF SubsInv
<1>0. /\ objs \in [ObjIds -> Obj] /\ cur \in ObjIds \cup {None}
      /\ sub \in [Sessions -> Sub] /\ unsub \in [Sessions -> Unsub] /\ server \in BOOLEAN
      /\ \A q \in ObjIds : objs[q].down \in BOOLEAN
      /\ \A p \in Sessions : unsub[p].pc \in {"idle", "wait", "go", "sent"}
  BY Types DEF TypeOK
<1>1. unsub[s].pc = "go" /\ UNCHANGED <<objs, conn, sub, acked, seen>>
  BY DEF UnsubscribeGoes
<1>2. PICK o \in ObjIds : o = unsub[s].obj /\ objs[o].flight = "none"
  BY <1>1 DEF WaitInv
<1>3. "left" \in seen
  BY <1>1 DEF KeptInv
<1>4. /\ unsub' \in [Sessions -> Unsub] /\ server' \in BOOLEAN
      /\ \A p \in Sessions : p # s => unsub'[p] = unsub[p]
      /\ \/ objs[o].subs # {} /\ unsub'[s].pc = "idle" /\ UNCHANGED <<cur, server>>
         \/ /\ objs[o].subs = {} /\ objs[o].down /\ conn # "down" /\ cur' = cur
            /\ unsub'[s].pc = "sent" /\ unsub'[s].obj = o
         \/ objs[o].subs = {} /\ unsub'[s].pc = "idle" /\ cur' = None
  <2>1. CASE objs[o].subs # {}
    <3>1. unsub' = [unsub EXCEPT ![s] = NoUnsub] /\ UNCHANGED <<cur, server>>
      BY <1>2, <2>1 DEF UnsubscribeGoes
    <3> QED BY <1>0, <2>1, <3>1, NothingOK
  <2>2. CASE objs[o].subs = {}
    <3>1. Unsubscribed(s, o)
      BY <1>2, <2>2 DEF UnsubscribeGoes
    <3> QED BY <2>2, <3>1, UnsubscribedOK
  <2> QED BY <2>1, <2>2
<1>5. Fresh => o = cur /\ ~objs[o].down
  BY <1>1, <1>2 DEF Fresh
<1>6. \A q \in ObjIds : objs[q].flight # "restore"
  BY <1>2, <1>5 DEF FreshInv, Fresh
<1>7. TypeOK'
  BY <1>0, <1>1, <1>4 DEF TypeOK
<1>8. WaitInv'
  BY <1>1, <1>4 DEF WaitInv
<1>9. DownInv'
  BY <1>1, <1>4 DEF DownInv
<1>10. KeptInv'
  BY <1>1, <1>3 DEF KeptInv
<1>11. FreshInv'
  <2>1. ASSUME conn' # "down", cur' # None, ~objs'[cur'].down, NEW p \in Staying(cur)' PROVE Fresh'
    <3>1. cur' = cur /\ p \in Staying(cur)
      BY <1>1, <1>4, <2>1 DEF Staying
    <3>2. Fresh
      BY <1>1, <2>1, <3>1 DEF FreshInv
    <3> QED BY <1>1, <1>4, <1>5, <2>1, <3>1, <3>2 DEF Fresh
  <2> QED BY <1>1, <1>6, <2>1 DEF FreshInv
<1>12. FlagInv'
  BY <1>1, <1>4 DEF FlagInv
<1>13. EmptyInv'
  BY <1>1, <1>2, <1>4 DEF EmptyInv
<1> QED BY <1>7, <1>8, <1>9, <1>10, <1>11, <1>12, <1>13

(* The downstream server has answered an unsubscription. *)
LEMMA UnsubscribeAnsweredInv ==
    ASSUME SubsInv, NEW s \in Sessions, UnsubscribeAnswered(s)
    PROVE  SubsInv'
<1> USE DEF SubsInv
<1>0. unsub \in [Sessions -> Unsub]
  BY DEF TypeOK
<1>1. /\ unsub[s].pc = "sent" /\ cur' = None
      /\ unsub' = [unsub EXCEPT ![s] = NoUnsub]
      /\ UNCHANGED <<objs, conn, server, sub, acked, seen>>
  BY DEF UnsubscribeAnswered
<1>2. /\ unsub' \in [Sessions -> Unsub] /\ unsub'[s].pc = "idle"
      /\ \A p \in Sessions : p # s => unsub'[p] = unsub[p]
  BY <1>0, <1>1, NothingOK
<1>3. "left" \in seen
  BY <1>1 DEF KeptInv
<1>4. \A q \in ObjIds : objs[q].flight # "restore"
  BY <1>1 DEF FreshInv, Fresh
<1>5. TypeOK' /\ WaitInv' /\ DownInv'
  BY <1>1, <1>2 DEF TypeOK, WaitInv, DownInv
<1>6. KeptInv' /\ FreshInv' /\ FlagInv' /\ EmptyInv'
  BY <1>1, <1>3, <1>4 DEF KeptInv, FreshInv, FlagInv, EmptyInv
<1> QED BY <1>5, <1>6

(* A connection ends: every request in flight fails with it. *)
LEMMA ConnectionEndsInv ==
    ASSUME SubsInv, Settled, NEW reset \in BOOLEAN, ConnectionEnds(reset),
           seen' \subseteq {"left", "lost"}, seen \subseteq seen',
           reset \/ "lost" \in seen'
    PROVE  SubsInv'
<1> USE DEF SubsInv
<1> DEFINE hit == {o \in ObjIds : objs[o].flight # "none"}
           emptied == \E o \in hit : DropIfEmpty(o) = None /\ cur # None
           sent == {s \in Sessions : unsub[s].pc = "sent"}
<1>0. /\ objs \in [ObjIds -> Obj] /\ cur \in ObjIds \cup {None}
      /\ sub \in [Sessions -> Sub] /\ unsub \in [Sessions -> Unsub]
      /\ \A q \in ObjIds : /\ objs[q] \in Obj /\ objs[q].subs \subseteq Sessions
                           /\ objs[q].down \in BOOLEAN
      /\ \A p \in Sessions : /\ sub[p].pc \in {"idle", "wait"}
                             /\ unsub[p].pc \in {"idle", "wait", "go", "sent"}
  BY Types
<1>1. /\ conn' = "down" /\ server' = FALSE /\ acked' = acked
      /\ cur' = IF emptied \/ sent # {} THEN None ELSE cur
      /\ \A p \in Sessions : unsub[p].pc # "go"
  BY DEF ConnectionEnds, Settled
<1>2. ASSUME NEW q \in ObjIds
      PROVE  /\ objs'[q] \in Obj /\ objs'[q].flight = "none"
             /\ objs'[q].subs = IF q \in hit THEN AfterFailure(q) ELSE objs[q].subs
             /\ objs'[q].down => ~(reset /\ q = cur)
  <2>1. PICK A \in SUBSET Sessions : A = IF q \in hit THEN AfterFailure(q) ELSE objs[q].subs
    BY <1>0 DEF AfterFailure
  <2>2. (objs[q].down /\ ~(reset /\ q = cur)) \in BOOLEAN
    OBVIOUS
  <2>3. PICK b \in BOOLEAN : b = (objs[q].down /\ ~(reset /\ q = cur))
    BY <2>2
  <2>4. objs'[q] = [subs |-> A, down |-> b, flight |-> "none"]
    BY <2>1, <2>3 DEF ConnectionEnds
  <2>5. /\ objs'[q] \in Obj /\ objs'[q].flight = "none" /\ objs'[q].subs = A
        /\ objs'[q].down = b
    BY <2>4 DEF Obj
  <2> QED BY <2>1, <2>3, <2>5
<1>3. objs' \in [ObjIds -> Obj]
  BY <1>2 DEF ConnectionEnds
<1>4. ASSUME NEW p \in Sessions
      PROVE  sub'[p] \in Sub /\ sub'[p].pc = "idle"
  <2>1. sub'[p] = IF sub[p].obj \in hit THEN NoSub ELSE sub[p]
    BY DEF ConnectionEnds
  <2>2. sub[p].pc = "wait" => sub[p].obj \in hit
    BY DEF WaitInv
  <2> QED BY <1>0, <2>1, <2>2, NothingOK
<1>5. ASSUME NEW p \in Sessions
      PROVE  /\ unsub'[p] \in Unsub
             /\ unsub[p].pc = "wait" => unsub'[p].pc = "go" /\ unsub'[p].obj = unsub[p].obj
             /\ unsub[p].pc # "wait" => unsub'[p].pc = "idle"
  <2>1. CASE unsub[p].pc = "sent"
    BY <2>1, NothingOK DEF ConnectionEnds
  <2>2. CASE unsub[p].pc = "wait"
    <3>1. unsub'[p] = [unsub[p] EXCEPT !.pc = "go"] /\ unsub[p] \in Unsub
      BY <1>0, <2>2 DEF ConnectionEnds
    <3> QED BY <2>2, <3>1 DEF Unsub
  <2>3. CASE unsub[p].pc = "idle"
    BY <1>0, <2>3 DEF ConnectionEnds
  <2> QED BY <1>0, <1>1, <2>1, <2>2, <2>3
<1>6. sub' \in [Sessions -> Sub] /\ unsub' \in [Sessions -> Unsub]
  BY <1>4, <1>5 DEF ConnectionEnds
<1>7. TypeOK'
  BY <1>0, <1>1, <1>3, <1>6 DEF TypeOK
<1>8. WaitInv'
  <2>1. ASSUME NEW p \in Sessions, unsub'[p].pc # "idle"
        PROVE  unsub'[p].pc = "go" /\ unsub'[p].obj \in ObjIds
    BY <1>5, <2>1 DEF WaitInv
  <2> QED BY <1>2, <1>4, <2>1 DEF WaitInv
<1>9. DownInv'
  BY <1>2, <1>5 DEF DownInv
<1>10. KeptInv'
  <2> SUFFICES ASSUME "left" \notin seen
               PROVE  /\ \A p \in Sessions : unsub'[p].pc = "idle"
                      /\ \A p \in acked : cur' # None /\ p \in objs'[cur'].subs
    BY <1>1, <1>2, <1>4 DEF KeptInv, AckedIsSubscribed
  <2>1. /\ \A p \in Sessions : unsub[p].pc = "idle"
        /\ \A q \in ObjIds : objs[q].flight # "none" => q = cur
        /\ \A p \in Sessions : sub[p].pc = "wait" =>
              p \in objs[sub[p].obj].subs /\ (p \in acked => sub[p].again)
        /\ \A p \in acked : cur # None /\ p \in objs[cur].subs
    BY DEF KeptInv, AckedIsSubscribed
  <2>2. \A p \in Sessions : unsub'[p].pc = "idle"
    BY <1>5, <2>1
  <2>3. ASSUME NEW p \in acked PROVE cur' # None /\ p \in objs'[cur'].subs
    <3>1. cur \in ObjIds /\ cur # None /\ p \in objs[cur].subs
      BY <1>0, <2>1
    <3>2. p \in AfterFailure(cur)
      BY <2>1, <3>1 DEF AfterFailure, Leavers, SubWaiters
    <3>3. ~emptied
      BY <2>1, <3>1, <3>2 DEF DropIfEmpty
    <3>4. sent = {}
      BY <2>1
    <3>5. cur' = cur
      BY <1>1, <3>3, <3>4
    <3> QED BY <1>2, <3>1, <3>2, <3>5
  <2> QED BY <2>2, <2>3
<1>11. FreshInv'
  BY <1>1, <1>2 DEF FreshInv
<1>12. FlagInv'
  <2> SUFFICES ASSUME "lost" \notin seen', cur' # None PROVE ~objs'[cur'].down
    BY DEF FlagInv
  <2>1. cur' = cur /\ cur \in ObjIds /\ reset
    BY <1>0, <1>1
  <2> QED BY <1>2, <2>1
<1>13. EmptyInv'
  <2> SUFFICES ASSUME cur' # None, objs'[cur'].subs = {}
               PROVE  \E p \in Sessions : \/ unsub'[p].pc \in {"wait", "go"} /\ unsub'[p].obj = cur'
                                          \/ unsub'[p].pc = "sent"
    BY DEF EmptyInv
  <2>1. cur' = cur /\ cur \in ObjIds /\ ~emptied /\ sent = {}
    BY <1>0, <1>1
  <2>2. objs[cur].subs = {}
    <3>1. CASE cur \in hit
      <4>1. AfterFailure(cur) = {}
        BY <1>2, <2>1, <3>1
      <4>2. SubWaiters(cur) = {}
        BY <2>1, <3>1, <4>1, NoneIsNoObject DEF DropIfEmpty
      <4> QED BY <4>1, <4>2 DEF AfterFailure, Leavers
    <3>2. CASE cur \notin hit
      BY <1>2, <2>1, <3>2
    <3> QED BY <3>1, <3>2
  <2>3. PICK p \in Sessions : unsub[p].pc \in {"wait", "go"} /\ unsub[p].obj = cur
    BY <2>1, <2>2, NoneIsNoObject DEF EmptyInv
  <2> QED BY <1>1, <1>5, <2>1, <2>3
<1> QED BY <1>7, <1>8, <1>9, <1>10, <1>11, <1>12, <1>13

(* A connection is established: nothing of an earlier one is in progress. *)
LEMMA ConnectInv ==
    ASSUME SubsInv, Connect
    PROVE  SubsInv'
<1> USE DEF SubsInv
<1>1. /\ conn = "down" /\ conn' = "restoring"
      /\ UNCHANGED <<objs, cur, server, sub, unsub, acked, seen>>
      /\ \A p \in Sessions : unsub[p].pc # "go"
  BY DEF Connect, Settled
<1>2. /\ \A o \in ObjIds : objs[o].flight = "none"
      /\ \A p \in Sessions : unsub[p].pc # "sent"
  BY <1>1 DEF DownInv
<1>3. \A p \in Sessions : unsub[p].pc \notin {"wait", "go"}
  BY <1>1, <1>2 DEF WaitInv
<1>4. TypeOK' /\ WaitInv' /\ DownInv'
  BY <1>1 DEF TypeOK, WaitInv, DownInv
<1>5. KeptInv'
  BY <1>1 DEF KeptInv, AckedIsSubscribed
<1>6. FreshInv'
  BY <1>1, <1>2, <1>3 DEF FreshInv, Fresh
<1>7. FlagInv' /\ EmptyInv'
  BY <1>1 DEF FlagInv, EmptyInv
<1> QED BY <1>4, <1>5, <1>6, <1>7

(* What is missing is asked for again. *)
LEMMA RestoreInv ==
    ASSUME SubsInv, Restore
    PROVE  SubsInv'
<1> USE DEF SubsInv
<1>0. /\ objs \in [ObjIds -> Obj] /\ cur \in ObjIds \cup {None}
      /\ \A q \in ObjIds : objs[q] \in Obj
  BY Types
<1>1. /\ conn = "restoring" /\ UNCHANGED <<cur, conn, server, sub, unsub, acked, seen>>
      /\ \A p \in Sessions : unsub[p].pc # "go"
      /\ cur # None /\ objs[cur].subs # {} /\ ~objs[cur].down /\ objs[cur].flight = "none"
  BY DEF Restore, Settled, Missing
<1>2. PICK c \in ObjIds : c = cur
  BY <1>0, <1>1
<1>3. PICK n \in Obj : /\ objs' = [objs EXCEPT ![c] = n]
                       /\ n.subs = objs[c].subs /\ n.down = objs[c].down /\ n.flight = "restore"
  <2>1. PICK n : n = [objs[c] EXCEPT !.flight = "restore"]
    OBVIOUS
  <2>2. n \in Obj /\ n.subs = objs[c].subs /\ n.down = objs[c].down /\ n.flight = "restore"
    BY <1>0, <2>1 DEF Obj
  <2>3. objs' = [objs EXCEPT ![c] = n]
    BY <1>0, <1>2, <2>1 DEF Restore
  <2> QED BY <2>2, <2>3
<1>4. /\ objs' \in [ObjIds -> Obj] /\ objs'[c] = n
      /\ \A q \in ObjIds : /\ q # c => objs'[q] = objs[q]
                           /\ objs'[q].subs = objs[q].subs /\ objs'[q].down = objs[q].down
  BY <1>0, <1>3
<1>5. Staying(cur) # {}
  <2>1. PICK p \in objs[c].subs : TRUE
    BY <1>1, <1>2
  <2>2. p \in Sessions
    BY <1>0, <1>2, Types
  <2>3. ~(sub[p].pc = "wait" /\ sub[p].obj = c)
    BY <1>1, <1>2, <2>2 DEF WaitInv
  <2> QED BY <1>2, <2>1, <2>3 DEF Staying
<1>6. Fresh
  BY <1>1, <1>5 DEF FreshInv
<1>7. Fresh'
  BY <1>1, <1>2, <1>4, <1>6 DEF Fresh
<1>8. TypeOK'
  BY <1>1, <1>4 DEF TypeOK
<1>9. WaitInv'
  BY <1>1, <1>3, <1>4 DEF WaitInv
<1>10. DownInv' /\ FreshInv'
  BY <1>1, <1>7 DEF DownInv, FreshInv
<1>11. KeptInv'
  <2>1. \A p \in Sessions : sub[p].pc = "wait" => sub[p].obj \in ObjIds
    BY DEF WaitInv
  <2> QED BY <1>1, <1>2, <1>4, <2>1 DEF KeptInv, AckedIsSubscribed
<1>12. FlagInv' /\ EmptyInv'
  BY <1>1, <1>2, <1>4 DEF FlagInv, EmptyInv
<1> QED BY <1>8, <1>9, <1>10, <1>11, <1>12

(* Nothing is missing any more. *)
LEMMA RestoredInv ==
    ASSUME SubsInv, Restored
    PROVE  SubsInv'
<1> USE DEF SubsInv
<1>1. /\ conn = "restoring" /\ conn' = "up"
      /\ UNCHANGED <<objs, cur, server, sub, unsub, acked, seen>>
      /\ \A o \in ObjIds : objs[o].flight # "restore"
  BY DEF Restored
<1>2. TypeOK' /\ WaitInv' /\ DownInv'
  BY <1>1 DEF TypeOK, WaitInv, DownInv
<1>3. KeptInv'
  BY <1>1 DEF KeptInv, AckedIsSubscribed
<1>4. Staying(cur)' = Staying(cur)
  BY <1>1 DEF Staying
<1>5. FreshInv'
  BY <1>1, <1>4 DEF FreshInv, Fresh
<1>6. FlagInv' /\ EmptyInv'
  BY <1>1 DEF FlagInv, EmptyInv
<1> QED BY <1>2, <1>3, <1>5, <1>6

-----------------------------------------------------------------------------
(* The invariant holds at first. *)
LEMMA InitInv == Init => SubsInv
<1> SUFFICES ASSUME Init PROVE SubsInv
  OBVIOUS
<1>1. /\ cur = None /\ conn = "up" /\ server = FALSE /\ acked = {} /\ seen = {}
      /\ objs = [o \in ObjIds |-> NewObj]
      /\ sub = [s \in Sessions |-> NoSub] /\ unsub = [s \in Sessions |-> NoUnsub]
  BY DEF Init
<1>2. /\ \A o \in ObjIds : objs[o] = NewObj
      /\ \A s \in Sessions : sub[s] = NoSub /\ unsub[s] = NoUnsub
  BY <1>1
<1>3. TypeOK
  BY <1>1, NewObjOK, NothingOK DEF TypeOK
<1>4. WaitInv /\ DownInv
  BY <1>1, <1>2, NothingOK DEF WaitInv, DownInv
<1>5. KeptInv
  BY <1>1, <1>2, NewObjOK, NothingOK DEF KeptInv, AckedIsSubscribed
<1>6. FreshInv /\ FlagInv /\ EmptyInv
  BY <1>1, <1>2, NewObjOK DEF FreshInv, FlagInv, EmptyInv
<1> QED BY <1>3, <1>4, <1>5, <1>6 DEF SubsInv

(* Every step keeps it. *)
LEMMA NextInv == SubsInv /\ [Next]_vars => SubsInv'
<1> SUFFICES ASSUME SubsInv, [Next]_vars PROVE SubsInv'
  OBVIOUS
<1>1. ASSUME NEW s \in Sessions, Subscribe(s) PROVE SubsInv'
  BY <1>1, SubscribeInv
<1>2. ASSUME NEW s \in Sessions, Unsubscribe(s) PROVE SubsInv'
  BY <1>2, UnsubscribeInv
<1>3. ASSUME NEW s \in Sessions, UnsubscribeGoes(s) PROVE SubsInv'
  BY <1>3, UnsubscribeGoesInv
<1>4. ASSUME NEW s \in Sessions, UnsubscribeAnswered(s) PROVE SubsInv'
  BY <1>4, UnsubscribeAnsweredInv
<1>5. ASSUME NEW o \in ObjIds, SubscribeSucceeds(o) PROVE SubsInv'
  BY <1>5, SubscribeSucceedsInv
<1>6. ASSUME NEW o \in ObjIds, SubscribeFails(o) PROVE SubsInv'
  BY <1>6, SubscribeFailsInv
<1>7. ASSUME Close PROVE SubsInv'
  <2>1. /\ Settled /\ ConnectionEnds(TRUE) /\ seen' \subseteq {"left", "lost"}
        /\ seen \subseteq seen' /\ TRUE \in BOOLEAN
    BY <1>7 DEF Close, SubsInv, TypeOK
  <2> QED BY <2>1, ConnectionEndsInv
<1>8. ASSUME Lose PROVE SubsInv'
  <2>1. /\ Settled /\ ConnectionEnds(FALSE) /\ seen' \subseteq {"left", "lost"}
        /\ seen \subseteq seen' /\ "lost" \in seen' /\ FALSE \in BOOLEAN
    BY <1>8 DEF Lose, SubsInv, TypeOK
  <2> QED BY <2>1, ConnectionEndsInv
<1>9. CASE UNCHANGED vars
  <2>1. UNCHANGED <<objs, cur, conn, server, sub, unsub, acked, seen>>
    BY <1>9 DEF vars
  <2>2. TypeOK' /\ WaitInv' /\ DownInv'
    BY <2>1 DEF SubsInv, TypeOK, WaitInv, DownInv
  <2>3. KeptInv'
    BY <2>1 DEF SubsInv, KeptInv, AckedIsSubscribed
  <2>4. Staying(cur)' = Staying(cur)
    BY <2>1 DEF Staying
  <2>5. FreshInv'
    BY <2>1, <2>4 DEF SubsInv, FreshInv, Fresh
  <2>6. FlagInv' /\ EmptyInv'
    BY <2>1 DEF SubsInv, FlagInv, EmptyInv
  <2> QED BY <2>2, <2>3, <2>5, <2>6 DEF SubsInv
<1> QED BY <1>1, <1>2, <1>3, <1>4, <1>5, <1>6, <1>7, <1>8, <1>9,
           ConnectInv, RestoreInv, RestoredInv DEF Next

(* The invariant is one of the specification. *)
LEMMA SubsInvHolds == Spec => []SubsInv
BY InitInv, NextInv, PTL DEF Spec

(* For any number of sessions: the state of a resource is well formed, its *)
(* flag downstreamSubscribed is of this connection as long as connections  *)
(* end by disconnectServerContext, and it is kept for somebody.            *)
THEOREM StatesStaySound == Spec => []StatesSound
<1>1. SubsInv => StatesSound
  <2> SUFFICES ASSUME SubsInv PROVE PlannedCloseResetsFlag /\ NoEmptyState
    BY DEF StatesSound, SubsInv
  <2>1. PlannedCloseResetsFlag
    BY DEF SubsInv, FlagInv, PlannedCloseResetsFlag, FlagIsTrue, Idle
  <2>2. NoEmptyState
    BY DEF SubsInv, EmptyInv, NoEmptyState, Idle
  <2> QED BY <2>1, <2>2
<1> QED BY <1>1, SubsInvHolds, PTL

(* As long as no session unsubscribes, neither a failed request nor a      *)
(* connection that comes or goes takes a session out of subscribedSessions *)
(* that was told it is subscribed.                                         *)
THEOREM SubscribersAreKept == Spec => []FailuresKeepSubscribers
<1>1. SubsInv => FailuresKeepSubscribers
  BY DEF SubsInv, KeptInv, FailuresKeepSubscribers
<1> QED BY <1>1, SubsInvHolds, PTL

(* restoreResourceSubscriptions is not over before the sessions that were  *)
(* subscribed on the connection before are served by the new one.          *)
THEOREM RestoringCovers == Spec => RestoreCovers
<1> DEFINE Covers == seen = {} /\ conn = "restoring" /\ conn' = "up" /\ acked # {} =>
                        server \/ (cur # None /\ objs[cur].flight # "none")
<1>1. SubsInv /\ [Next]_vars => [Covers]_vars
  <2> SUFFICES ASSUME SubsInv, Next, seen = {}, conn = "restoring", conn' = "up", acked # {}
               PROVE  server \/ (cur # None /\ objs[cur].flight # "none")
    OBVIOUS
  <2>1. Restored
    BY DEF Next, Subscribe, Unsubscribe, UnsubscribeGoes, UnsubscribeAnswered,
           SubscribeSucceeds, SubscribeFails, Close, Lose, ConnectionEnds, Connect, Restore
  <2>2. ~Missing
    BY <2>1 DEF Restored
  <2>3. /\ \A s \in Sessions : unsub[s].pc = "idle"
        /\ cur # None /\ objs[cur].subs # {}
    BY DEF SubsInv, KeptInv, AckedIsSubscribed
  <2>4. objs[cur].down \/ objs[cur].flight # "none"
    BY <2>2, <2>3 DEF Missing
  <2> QED BY <2>3, <2>4 DEF SubsInv, FlagInv
<1> QED BY <1>1, SubsInvHolds, PTL DEF Spec, RestoreCovers
=============================================================================
