--------------------------- MODULE TenantAccessProofs ---------------------------
(***************************************************************************)
(* What TenantProvisioning keeps of the access lists: why a tenant may     *)
(* read a topic it has no channel for, and what an answered removal means; *)
(* and why an event may name a channel its tenant no longer has.           *)
(***************************************************************************)
EXTENDS TenantProvisioningProofs

\* A request that has arrived has a call.
AskedInv == \A q \in Requests : pc[q] # "idle" => call[q] \in Calls

Added(t, k) == \E a \in Requests : call[a] = Call("add", t, k)

\* After its revoke, a removal finds the access again only if somebody adds the topic.
RevokedInv ==
    \A q \in Requests, t \in Tenants, k \in Topics :
        pc[q] \in {"publishing", "ok"} /\ call[q] = Call("remove", t, k)
            => t \in rows /\ (k \in acl[LoginOf[t]] => Added(t, k))

\* Access is given to logins of rows only.
AclInv == \A l \in Logins : acl[l] # {} => \E t \in rows : LoginOf[t] = l

\* Why t may read k now without a channel.
Pending(t, k) ==
    \/ \E q \in Requests :
           pc[q] \in {"inserting channel", "failed"} /\ call[q] = Call("add", t, k)
    \/ \E q \in Requests, c \in Topics :
           /\ call[q] = Call("remove", t, c) /\ victim[q] = k
           /\ pc[q] \in {"revoking", "failed"} \/ (c # k /\ pc[q] # "deleting")

StrayInv == \A t \in rows : \A k \in acl[LoginOf[t]] : k \in subs[t] \/ Pending(t, k)

\* A removal has loaded channels its tenant had, and others only have taken them since.
Loaded(q) ==
    /\ call[q] = NoCall => loaded[q] = {}
    /\ \A t \in Tenants, c \in Topics : call[q] = Call("remove", t, c) =>
           /\ victim[q] \notin loaded[q]
           /\ \A k \in loaded[q] : k \in subs[t] \/ TakenAway(t, k)

LoadedInv == \A q \in Requests : Loaded(q)

AccessListInv == AskedInv /\ RevokedInv /\ AclInv /\ StrayInv

LEMMA AddedElsewhere ==
    ASSUME NEW q \in Requests, NEW u, NEW c, NEW t, NEW k,
           call[q] = Call("add", u, c), ~(t = u /\ k = c)
    PROVE  call[q] # Call("add", t, k)
  BY CallIsTyped

LEMMA AddInHand ==
    ASSUME PhaseInv, NEW q \in Requests, pc[q] \in AddSteps
    PROVE  \E u \in rows, c \in Topics :
               call[q] = Call("add", u, c) /\ call[q].tenant = u /\ call[q].topic = c
<1>1. PICK u \in rows, c \in Topics : call[q] = Call("add", u, c)
  BY DEF PhaseInv, Phase
<1>2. call[q].tenant = u /\ call[q].topic = c
  BY <1>1, CallIsTyped
<1> QED BY <1>1, <1>2

LEMMA CallsDiffer ==
    \A kind, other, t, u, k, c :
        Call(kind, t, k) = Call(other, u, c) => kind = other /\ t = u /\ k = c
<1>1. \A kind, t, k : /\ Call(kind, t, k).kind = kind
                      /\ Call(kind, t, k).tenant = t /\ Call(kind, t, k).topic = k
  BY DEF Call
<1> QED BY <1>1

--------------------------------------------------------------------------------
(* Calls *)

LEMMA AskedStep == TypeOK /\ AskedInv /\ [Next]_vars => AskedInv'
<1> SUFFICES ASSUME TypeOK, AskedInv, [Next]_vars PROVE AskedInv'
  OBVIOUS
<1>1. ASSUME NEW q \in Requests, NEW t \in Tenants, Create(q, t) PROVE AskedInv'
  <2>1. Call("create", t, NoTopic) \in Calls
    BY CallIsTyped
  <2>2. /\ call' = [call EXCEPT ![q] = Call("create", t, NoTopic)]
        /\ \A r \in Requests : r # q => pc'[r] = pc[r]
    BY <1>1 DEF Create, Goto, TypeOK
  <2> QED BY <2>1, <2>2 DEF AskedInv, TypeOK
<1>2. ASSUME NEW q \in Requests, Register(q) PROVE AskedInv'
  BY <1>2 DEF Register, Goto, TypeOK, AskedInv
<1>3. ASSUME NEW q \in Requests, RegisterFail(q) PROVE AskedInv'
  BY <1>3 DEF RegisterFail, Leave, Goto, TypeOK, AskedInv
<1>4. ASSUME NEW q \in Requests, InsertTenant(q) PROVE AskedInv'
  BY <1>4 DEF InsertTenant, Goto, TypeOK, AskedInv
<1>5. ASSUME NEW q \in Requests, InsertTenantFail(q) PROVE AskedInv'
  BY <1>5 DEF InsertTenantFail, Goto, TypeOK, AskedInv
<1>6. ASSUME NEW q \in Requests, NEW t \in Tenants, NEW k \in Topics, Add(q, t, k) PROVE AskedInv'
  <2>1. Call("add", t, k) \in Calls
    BY CallIsTyped
  <2>2. /\ call' = [call EXCEPT ![q] = Call("add", t, k)]
        /\ \A r \in Requests : r # q => pc'[r] = pc[r]
    BY <1>6 DEF Add, Goto, TypeOK
  <2> QED BY <2>1, <2>2 DEF AskedInv, TypeOK
<1>7. ASSUME NEW q \in Requests, Grant(q) PROVE AskedInv'
  BY <1>7 DEF Grant, Goto, TypeOK, AskedInv
<1>8. ASSUME NEW q \in Requests, GrantFail(q) PROVE AskedInv'
  BY <1>8 DEF GrantFail, Leave, Goto, TypeOK, AskedInv
<1>9. ASSUME NEW q \in Requests, InsertChannel(q) PROVE AskedInv'
  BY <1>9 DEF InsertChannel, Goto, TypeOK, AskedInv
<1>10. ASSUME NEW q \in Requests, InsertChannelFail(q) PROVE AskedInv'
  BY <1>10 DEF InsertChannelFail, Goto, TypeOK, AskedInv
<1>11. ASSUME NEW q \in Requests, NEW t \in Tenants, NEW k \in Topics, Remove(q, t, k) PROVE AskedInv'
  <2>1. Call("remove", t, k) \in Calls
    BY CallIsTyped
  <2>2. /\ call' = [call EXCEPT ![q] = Call("remove", t, k)]
        /\ \A r \in Requests : r # q => pc'[r] = pc[r]
    BY <1>11 DEF Remove, Goto, TypeOK
  <2> QED BY <2>1, <2>2 DEF AskedInv, TypeOK
<1>12. ASSUME NEW q \in Requests, Delete(q) PROVE AskedInv'
  BY <1>12 DEF Delete, Goto, TypeOK, AskedInv
<1>13. ASSUME NEW q \in Requests, DeleteFail(q) PROVE AskedInv'
  BY <1>13 DEF DeleteFail, Goto, TypeOK, AskedInv
<1>14. ASSUME NEW q \in Requests, Revoke(q) PROVE AskedInv'
  BY <1>14 DEF Revoke, Goto, TypeOK, AskedInv
<1>15. ASSUME NEW q \in Requests, RevokeFail(q) PROVE AskedInv'
  BY <1>15 DEF RevokeFail, Leave, Goto, TypeOK, AskedInv
<1>16. ASSUME NEW q \in Requests, Publish(q) PROVE AskedInv'
  BY <1>16 DEF Publish, Leave, Goto, TypeOK, AskedInv
<1>17. ASSUME NEW q \in Requests, PublishFail(q) PROVE AskedInv'
  BY <1>17 DEF PublishFail, Leave, Goto, TypeOK, AskedInv
<1>18. ASSUME NEW q \in Requests, Abandon(q) PROVE AskedInv'
  BY <1>18 DEF Abandon, Goto, TypeOK, AskedInv, Done
<1>19. ASSUME NEW q \in Requests, Land(q) PROVE AskedInv'
  BY <1>19 DEF Land, AskedInv
<1>20. ASSUME NEW q \in Requests, Resend(q) PROVE AskedInv'
  BY <1>20 DEF Resend, AskedInv
<1>21. CASE UNCHANGED vars
  BY <1>21 DEF vars, AskedInv
<1> QED
  BY <1>1, <1>2, <1>3, <1>4, <1>5, <1>6, <1>7, <1>8, <1>9, <1>10,
     <1>11, <1>12, <1>13, <1>14, <1>15, <1>16, <1>17, <1>18, <1>19, <1>20, <1>21 DEF Next

--------------------------------------------------------------------------------
(* Answered removals *)

LEMMA AddedStays ==
    ASSUME Remembered, NEW t \in Tenants, NEW k \in Topics, Added(t, k)
    PROVE  Added(t, k)'
<1>1. PICK a \in Requests : call[a] = Call("add", t, k)
  BY DEF Added
<1>2. call'[a] = call[a]
  BY <1>1, CallIsTyped, CallAssumption DEF Remembered
<1> QED BY <1>1, <1>2 DEF Added

\* A step that gives no access and takes no removal past its revoke.
LEMMA RevokedFrame ==
    ASSUME TypeOK, PhaseInv, RevokedInv, Remembered,
           rows \subseteq rows',
           \A l \in Logins : acl'[l] \subseteq acl[l],
           \A r \in Requests : pc'[r] \in {"publishing", "ok"} =>
               /\ call'[r] = call[r]
               /\ pc[r] \in {"publishing", "ok"} \cup CreateSteps \cup AddSteps
    PROVE  RevokedInv'
<1> SUFFICES ASSUME NEW q \in Requests, NEW t \in Tenants, NEW k \in Topics,
                    pc'[q] \in {"publishing", "ok"}, call'[q] = Call("remove", t, k)
             PROVE  t \in rows' /\ (k \in acl'[LoginOf[t]] => Added(t, k)')
  BY DEF RevokedInv
<1>1. call[q] = Call("remove", t, k)
  OBVIOUS
<1>2. pc[q] \notin CreateSteps
  <2> SUFFICES ASSUME pc[q] \in CreateSteps PROVE FALSE
    OBVIOUS
  <2>1. PICK u \in Tenants : call[q] = Call("create", u, NoTopic)
    BY DEF PhaseInv, Phase
  <2> QED BY <1>1, <2>1, CallsDiffer
<1>3. pc[q] \notin AddSteps
  <2> SUFFICES ASSUME pc[q] \in AddSteps PROVE FALSE
    OBVIOUS
  <2>1. PICK u \in rows, c \in Topics : call[q] = Call("add", u, c)
    BY DEF PhaseInv, Phase
  <2> QED BY <1>1, <2>1, CallsDiffer
<1>4. pc[q] \in {"publishing", "ok"}
  BY <1>2, <1>3
<1>5. t \in rows /\ (k \in acl[LoginOf[t]] => Added(t, k))
  BY <1>1, <1>4 DEF RevokedInv
<1>6. LoginOf[t] \in Logins
  BY TenantAssumption
<1> QED BY <1>5, <1>6, AddedStays

\* A grant, in time or late: whoever has the access back has this add behind him.
LEMMA RevokedGrant ==
    ASSUME TypeOK, LoginInv, RevokedInv, Remembered, NEW q \in Requests,
           NEW u \in rows, NEW c \in Topics, call[q] = Call("add", u, c),
           acl' = [acl EXCEPT ![LoginOf[u]] = @ \cup {c}],
           rows' = rows, call' = call,
           \A r \in Requests : pc'[r] \in {"publishing", "ok"} => pc[r] \in {"publishing", "ok"}
    PROVE  RevokedInv'
<1> SUFFICES ASSUME NEW r \in Requests, NEW t \in Tenants, NEW k \in Topics,
                    pc'[r] \in {"publishing", "ok"}, call[r] = Call("remove", t, k),
                    k \in acl'[LoginOf[t]]
             PROVE  Added(t, k)'
  BY DEF RevokedInv
<1>1. pc[r] \in {"publishing", "ok"}
  OBVIOUS
<1>2. t \in rows /\ (k \in acl[LoginOf[t]] => Added(t, k))
  BY <1>1 DEF RevokedInv
<1>3. CASE k \in acl[LoginOf[t]]
  BY <1>2, <1>3, AddedStays
<1>4. CASE k \notin acl[LoginOf[t]]
  <2>1. LoginOf[t] = LoginOf[u] /\ k = c
    BY <1>4, TenantAssumption DEF TypeOK
  <2>2. t = u
    BY <1>2, <2>1 DEF LoginInv, OneTenantPerLogin
  <2> QED BY <2>1, <2>2 DEF Added
<1> QED BY <1>3, <1>4

\* The revoke: the access is gone.
LEMMA RevokedRevoke ==
    ASSUME TypeOK, PhaseInv, RevokedInv, Remembered, NEW q \in Requests, Revoke(q)
    PROVE  RevokedInv'
<1>1. /\ pc[q] = "revoking" /\ pc' = [pc EXCEPT ![q] = "publishing"]
      /\ acl' = [acl EXCEPT ![LoginOf[call[q].tenant]] = @ \ {call[q].topic}]
      /\ rows' = rows /\ call' = call
  BY DEF Revoke, Goto
<1>2. PICK u \in rows, c \in Topics : call[q] = Call("remove", u, c)
  BY <1>1 DEF PhaseInv, Phase, RemoveSteps
<1>3. call[q].tenant = u /\ call[q].topic = c
  BY <1>2, CallIsTyped
<1> SUFFICES ASSUME NEW r \in Requests, NEW t \in Tenants, NEW k \in Topics,
                    pc'[r] \in {"publishing", "ok"}, call[r] = Call("remove", t, k)
             PROVE  t \in rows /\ (k \in acl'[LoginOf[t]] => Added(t, k)')
  BY <1>1 DEF RevokedInv
<1>4. CASE r = q
  <2>1. t = u /\ k = c
    BY <1>2, <1>4, CallsDiffer
  <2>2. k \notin acl'[LoginOf[t]]
    BY <1>1, <1>3, <2>1, TenantAssumption DEF TypeOK
  <2> QED BY <2>1, <2>2
<1>5. CASE r # q
  <2>1. pc[r] \in {"publishing", "ok"}
    BY <1>1, <1>5 DEF TypeOK
  <2>2. t \in rows /\ (k \in acl[LoginOf[t]] => Added(t, k))
    BY <2>1 DEF RevokedInv
  <2>3. k \in acl'[LoginOf[t]] => k \in acl[LoginOf[t]]
    BY <1>1, TenantAssumption DEF TypeOK
  <2> QED BY <2>2, <2>3, AddedStays
<1> QED BY <1>4, <1>5

LEMMA RevokedStep ==
    TypeOK /\ PhaseInv /\ LateInv /\ LoginInv /\ RevokedInv /\ [Next]_vars => RevokedInv'
<1> SUFFICES ASSUME TypeOK, PhaseInv, LateInv, LoginInv, RevokedInv, [Next]_vars PROVE RevokedInv'
  OBVIOUS
<1>0. Remembered
  BY CallsAreRemembered
<1>1. ASSUME NEW q \in Requests, NEW t \in Tenants, Create(q, t) PROVE RevokedInv'
  <2>1. /\ rows \subseteq rows'
        /\ \A l \in Logins : acl'[l] \subseteq acl[l]
        /\ \A r \in Requests : pc'[r] \in {"publishing", "ok"} =>
               /\ call'[r] = call[r]
               /\ pc[r] \in {"publishing", "ok"} \cup CreateSteps \cup AddSteps
    BY <1>1 DEF Create, Goto, TypeOK
  <2> QED BY <1>0, <2>1, RevokedFrame
<1>2. ASSUME NEW q \in Requests, Register(q) PROVE RevokedInv'
  <2>1. /\ rows \subseteq rows'
        /\ \A l \in Logins : acl'[l] \subseteq acl[l]
        /\ \A r \in Requests : pc'[r] \in {"publishing", "ok"} =>
               /\ call'[r] = call[r]
               /\ pc[r] \in {"publishing", "ok"} \cup CreateSteps \cup AddSteps
    BY <1>2 DEF Register, Goto, TypeOK, CreateSteps
  <2> QED BY <1>0, <2>1, RevokedFrame
<1>3. ASSUME NEW q \in Requests, RegisterFail(q) PROVE RevokedInv'
  <2>1. /\ rows \subseteq rows'
        /\ \A l \in Logins : acl'[l] \subseteq acl[l]
        /\ \A r \in Requests : pc'[r] \in {"publishing", "ok"} =>
               /\ call'[r] = call[r]
               /\ pc[r] \in {"publishing", "ok"} \cup CreateSteps \cup AddSteps
    BY <1>3 DEF RegisterFail, Leave, Goto, TypeOK
  <2> QED BY <1>0, <2>1, RevokedFrame
<1>4. ASSUME NEW q \in Requests, InsertTenant(q) PROVE RevokedInv'
  <2>1. /\ rows \subseteq rows'
        /\ \A l \in Logins : acl'[l] \subseteq acl[l]
        /\ \A r \in Requests : pc'[r] \in {"publishing", "ok"} =>
               /\ call'[r] = call[r]
               /\ pc[r] \in {"publishing", "ok"} \cup CreateSteps \cup AddSteps
    BY <1>4 DEF InsertTenant, Goto, TypeOK, CreateSteps
  <2> QED BY <1>0, <2>1, RevokedFrame
<1>5. ASSUME NEW q \in Requests, InsertTenantFail(q) PROVE RevokedInv'
  <2>1. /\ rows \subseteq rows'
        /\ \A l \in Logins : acl'[l] \subseteq acl[l]
        /\ \A r \in Requests : pc'[r] \in {"publishing", "ok"} =>
               /\ call'[r] = call[r]
               /\ pc[r] \in {"publishing", "ok"} \cup CreateSteps \cup AddSteps
    BY <1>5 DEF InsertTenantFail, Goto, TypeOK, CreateSteps
  <2> QED BY <1>0, <2>1, RevokedFrame
<1>6. ASSUME NEW q \in Requests, NEW t \in Tenants, NEW k \in Topics, Add(q, t, k) PROVE RevokedInv'
  <2>1. /\ rows \subseteq rows'
        /\ \A l \in Logins : acl'[l] \subseteq acl[l]
        /\ \A r \in Requests : pc'[r] \in {"publishing", "ok"} =>
               /\ call'[r] = call[r]
               /\ pc[r] \in {"publishing", "ok"} \cup CreateSteps \cup AddSteps
    BY <1>6 DEF Add, Goto, TypeOK
  <2> QED BY <1>0, <2>1, RevokedFrame
<1>7. ASSUME NEW q \in Requests, Grant(q) PROVE RevokedInv'
  <2>1. PICK u \in rows, c \in Topics :
            call[q] = Call("add", u, c) /\ call[q].tenant = u /\ call[q].topic = c
    BY <1>7, AddInHand DEF Grant, AddSteps
  <2>2. acl' = [acl EXCEPT ![LoginOf[u]] = @ \cup {c}] /\ rows' = rows /\ call' = call
    BY <1>7, <2>1 DEF Grant
  <2>3. \A r \in Requests : pc'[r] \in {"publishing", "ok"} => pc[r] \in {"publishing", "ok"}
    BY <1>7 DEF Grant, Goto, TypeOK
  <2> QED BY <1>0, <2>1, <2>2, <2>3, RevokedGrant
<1>8. ASSUME NEW q \in Requests, GrantFail(q) PROVE RevokedInv'
  <2>1. /\ rows \subseteq rows'
        /\ \A l \in Logins : acl'[l] \subseteq acl[l]
        /\ \A r \in Requests : pc'[r] \in {"publishing", "ok"} =>
               /\ call'[r] = call[r]
               /\ pc[r] \in {"publishing", "ok"} \cup CreateSteps \cup AddSteps
    BY <1>8 DEF GrantFail, Leave, Goto, TypeOK
  <2> QED BY <1>0, <2>1, RevokedFrame
<1>9. ASSUME NEW q \in Requests, InsertChannel(q) PROVE RevokedInv'
  <2>1. /\ rows \subseteq rows'
        /\ \A l \in Logins : acl'[l] \subseteq acl[l]
        /\ \A r \in Requests : pc'[r] \in {"publishing", "ok"} =>
               /\ call'[r] = call[r]
               /\ pc[r] \in {"publishing", "ok"} \cup CreateSteps \cup AddSteps
    BY <1>9 DEF InsertChannel, Goto, TypeOK, AddSteps
  <2> QED BY <1>0, <2>1, RevokedFrame
<1>10. ASSUME NEW q \in Requests, InsertChannelFail(q) PROVE RevokedInv'
  <2>1. /\ rows \subseteq rows'
        /\ \A l \in Logins : acl'[l] \subseteq acl[l]
        /\ \A r \in Requests : pc'[r] \in {"publishing", "ok"} =>
               /\ call'[r] = call[r]
               /\ pc[r] \in {"publishing", "ok"} \cup CreateSteps \cup AddSteps
    BY <1>10 DEF InsertChannelFail, Goto, TypeOK
  <2> QED BY <1>0, <2>1, RevokedFrame
<1>11. ASSUME NEW q \in Requests, NEW t \in Tenants, NEW k \in Topics, Remove(q, t, k) PROVE RevokedInv'
  <2>1. /\ rows \subseteq rows'
        /\ \A l \in Logins : acl'[l] \subseteq acl[l]
        /\ \A r \in Requests : pc'[r] \in {"publishing", "ok"} =>
               /\ call'[r] = call[r]
               /\ pc[r] \in {"publishing", "ok"} \cup CreateSteps \cup AddSteps
    BY <1>11 DEF Remove, Goto, TypeOK
  <2> QED BY <1>0, <2>1, RevokedFrame
<1>12. ASSUME NEW q \in Requests, Delete(q) PROVE RevokedInv'
  <2>1. /\ rows \subseteq rows'
        /\ \A l \in Logins : acl'[l] \subseteq acl[l]
        /\ \A r \in Requests : pc'[r] \in {"publishing", "ok"} =>
               /\ call'[r] = call[r]
               /\ pc[r] \in {"publishing", "ok"} \cup CreateSteps \cup AddSteps
    BY <1>12 DEF Delete, Goto, TypeOK
  <2> QED BY <1>0, <2>1, RevokedFrame
<1>13. ASSUME NEW q \in Requests, DeleteFail(q) PROVE RevokedInv'
  <2>1. /\ rows \subseteq rows'
        /\ \A l \in Logins : acl'[l] \subseteq acl[l]
        /\ \A r \in Requests : pc'[r] \in {"publishing", "ok"} =>
               /\ call'[r] = call[r]
               /\ pc[r] \in {"publishing", "ok"} \cup CreateSteps \cup AddSteps
    BY <1>13 DEF DeleteFail, Goto, TypeOK
  <2> QED BY <1>0, <2>1, RevokedFrame
<1>14. ASSUME NEW q \in Requests, Revoke(q) PROVE RevokedInv'
  BY <1>0, <1>14, RevokedRevoke
<1>15. ASSUME NEW q \in Requests, RevokeFail(q) PROVE RevokedInv'
  <2>1. /\ rows \subseteq rows'
        /\ \A l \in Logins : acl'[l] \subseteq acl[l]
        /\ \A r \in Requests : pc'[r] \in {"publishing", "ok"} =>
               /\ call'[r] = call[r]
               /\ pc[r] \in {"publishing", "ok"} \cup CreateSteps \cup AddSteps
    BY <1>15 DEF RevokeFail, Leave, Goto, TypeOK
  <2> QED BY <1>0, <2>1, RevokedFrame
<1>16. ASSUME NEW q \in Requests, Publish(q) PROVE RevokedInv'
  <2>1. /\ rows \subseteq rows'
        /\ \A l \in Logins : acl'[l] \subseteq acl[l]
        /\ \A r \in Requests : pc'[r] \in {"publishing", "ok"} =>
               /\ call'[r] = call[r]
               /\ pc[r] \in {"publishing", "ok"} \cup CreateSteps \cup AddSteps
    BY <1>16 DEF Publish, Leave, Goto, TypeOK
  <2> QED BY <1>0, <2>1, RevokedFrame
<1>17. ASSUME NEW q \in Requests, PublishFail(q) PROVE RevokedInv'
  <2>1. /\ rows \subseteq rows'
        /\ \A l \in Logins : acl'[l] \subseteq acl[l]
        /\ \A r \in Requests : pc'[r] \in {"publishing", "ok"} =>
               /\ call'[r] = call[r]
               /\ pc[r] \in {"publishing", "ok"} \cup CreateSteps \cup AddSteps
    BY <1>17 DEF PublishFail, Leave, Goto, TypeOK
  <2> QED BY <1>0, <2>1, RevokedFrame
<1>18. ASSUME NEW q \in Requests, Abandon(q) PROVE RevokedInv'
  <2>1. /\ rows \subseteq rows'
        /\ \A l \in Logins : acl'[l] \subseteq acl[l]
        /\ \A r \in Requests : pc'[r] \in {"publishing", "ok"} =>
               /\ call'[r] = call[r]
               /\ pc[r] \in {"publishing", "ok"} \cup CreateSteps \cup AddSteps
    BY <1>18 DEF Abandon, Goto, TypeOK
  <2> QED BY <1>0, <2>1, RevokedFrame
<1>19. ASSUME NEW q \in Requests, Land(q) PROVE RevokedInv'
  <2>1. call' = call /\ pc' = pc /\ rows' = rows
    BY <1>19 DEF Land
  <2>2. CASE \A l \in Logins : acl'[l] \subseteq acl[l]
    BY <1>0, <2>1, <2>2, RevokedFrame
  <2>3. CASE \E u \in rows, c \in Topics :
                call[q] = Call("add", u, c) /\ acl' = [acl EXCEPT ![LoginOf[u]] = @ \cup {c}]
    BY <1>0, <2>1, <2>3, RevokedGrant
  <2>4. CASE \E u \in rows, c \in Topics : acl' = [acl EXCEPT ![LoginOf[u]] = @ \ {c}]
    <3>1. \A l \in Logins : acl'[l] \subseteq acl[l]
      BY <2>4 DEF TypeOK
    <3> QED BY <2>2, <3>1
  <2>5. CASE acl' = acl
    BY <2>2, <2>5
  <2> QED BY <1>19, <2>3, <2>4, <2>5, LandingCall
<1>20. ASSUME NEW q \in Requests, Resend(q) PROVE RevokedInv'
  BY <1>0, <1>20, RevokedFrame DEF Resend
<1>21. CASE UNCHANGED vars
  BY <1>0, <1>21, RevokedFrame DEF vars
<1> QED
  BY <1>1, <1>2, <1>3, <1>4, <1>5, <1>6, <1>7, <1>8, <1>9, <1>10,
     <1>11, <1>12, <1>13, <1>14, <1>15, <1>16, <1>17, <1>18, <1>19, <1>20, <1>21 DEF Next

--------------------------------------------------------------------------------
(* Stray access *)

\* A reason stays one as long as its request is not answered with success.
LEMMA PendingStays ==
    ASSUME Remembered, NEW t \in Tenants, NEW k \in Topics, Pending(t, k),
           \A r \in Requests : pc[r] = "failed" => pc'[r] = "failed",
           \A r \in Requests : call[r] = Call("add", t, k) /\ pc[r] = "inserting channel"
               => pc'[r] \in {"inserting channel", "failed"},
           \A r \in Requests : call[r] = Call("remove", t, k) /\ pc[r] = "revoking"
               => pc'[r] \in {"revoking", "failed"}
    PROVE  Pending(t, k)'
<1>1. CASE \E r \in Requests :
               pc[r] \in {"inserting channel", "failed"} /\ call[r] = Call("add", t, k)
  <2>1. PICK r \in Requests :
            pc[r] \in {"inserting channel", "failed"} /\ call[r] = Call("add", t, k)
    BY <1>1
  <2>2. call'[r] = call[r]
    BY <2>1, CallIsTyped, CallAssumption DEF Remembered
  <2>3. pc'[r] \in {"inserting channel", "failed"}
    BY <2>1
  <2> QED BY <2>1, <2>2, <2>3 DEF Pending
<1>2. CASE \E r \in Requests, c \in Topics :
               /\ call[r] = Call("remove", t, c) /\ victim[r] = k
               /\ pc[r] \in {"revoking", "failed"} \/ (c # k /\ pc[r] # "deleting")
  <2>1. PICK r \in Requests, c \in Topics :
            /\ call[r] = Call("remove", t, c) /\ victim[r] = k
            /\ pc[r] \in {"revoking", "failed"} \/ (c # k /\ pc[r] # "deleting")
    BY <1>2
  <2>2. call[r] # NoCall /\ k # NoTopic
    BY <2>1, CallIsTyped, CallAssumption, TopicAssumption
  <2>3. call'[r] = call[r] /\ victim'[r] = k
    BY <2>1, <2>2 DEF Remembered
  <2>4. CASE c = k
    <3>1. pc'[r] \in {"revoking", "failed"}
      BY <2>1, <2>4
    <3> QED BY <2>1, <2>3, <3>1 DEF Pending
  <2>5. CASE c # k
    <3>1. pc'[r] # "deleting"
      BY <2>1, <2>2 DEF Remembered
    <3> QED BY <2>1, <2>3, <2>5, <3>1 DEF Pending
  <2> QED BY <2>4, <2>5
<1> QED BY <1>1, <1>2 DEF Pending

LEMMA TypedAccess ==
    ASSUME TypeOK
    PROVE  /\ rows \subseteq Tenants
           /\ \A t \in Tenants : LoginOf[t] \in Logins /\ acl[LoginOf[t]] \subseteq Topics
  BY TenantAssumption DEF TypeOK

\* A step that gives no access, takes no channel away and ends no request with success.
LEMMA StrayFrame ==
    ASSUME TypeOK, AclInv, StrayInv, Remembered, rows' = rows,
           \A t \in Tenants : subs[t] \subseteq subs'[t],
           \A l \in Logins : acl'[l] \subseteq acl[l],
           \A r \in Requests :
               /\ pc[r] = "failed" => pc'[r] = "failed"
               /\ pc[r] = "inserting channel" => pc'[r] \in {"inserting channel", "failed"}
               /\ pc[r] = "revoking" => pc'[r] \in {"revoking", "failed"}
    PROVE  AclInv' /\ StrayInv'
<1>1. AclInv'
  BY DEF AclInv
<1>2. ASSUME NEW t \in rows, NEW k \in acl'[LoginOf[t]] PROVE k \in subs'[t] \/ Pending(t, k)'
  <2>1. t \in Tenants /\ k \in acl[LoginOf[t]] /\ k \in Topics
    BY TypedAccess
  <2>2. k \in subs[t] \/ Pending(t, k)
    BY <2>1 DEF StrayInv
  <2> QED BY <2>1, <2>2, PendingStays
<1> QED BY <1>1, <1>2 DEF StrayInv

\* The insert of a tenant: nobody may read anything by its login yet.
LEMMA StrayInsertTenant ==
    ASSUME TypeOK, LoginInv, AclInv, StrayInv, Remembered, NEW q \in Requests,
           pc[q] = "inserting tenant", call[q].tenant \in Tenants,
           rows' = rows \cup {call[q].tenant}, subs' = subs, acl' = acl,
           NEW stage \in Done, pc' = [pc EXCEPT ![q] = stage]
    PROVE  AclInv' /\ StrayInv'
<1>1. AclInv'
  BY DEF AclInv
<1>2. acl[LoginOf[call[q].tenant]] = {}
  <2>1. \A t \in rows : LoginOf[t] # LoginOf[call[q].tenant]
    BY DEF LoginInv
  <2> QED BY <2>1, TypedAccess DEF AclInv
<1>3. \A r \in Requests :
          /\ pc[r] = "failed" => pc'[r] = "failed"
          /\ pc[r] = "inserting channel" => pc'[r] \in {"inserting channel", "failed"}
          /\ pc[r] = "revoking" => pc'[r] \in {"revoking", "failed"}
  BY DEF TypeOK
<1>4. ASSUME NEW t \in rows', NEW k \in acl[LoginOf[t]] PROVE k \in subs[t] \/ Pending(t, k)'
  <2>1. t \in rows /\ t \in Tenants /\ k \in Topics
    BY <1>2, TypedAccess
  <2>2. k \in subs[t] \/ Pending(t, k)
    BY <2>1 DEF StrayInv
  <2> QED BY <1>3, <2>1, <2>2, PendingStays
<1> QED BY <1>1, <1>4 DEF StrayInv

\* A grant, in time or late, is the access of an add not yet, or never, inserted.
LEMMA StrayGrant ==
    ASSUME TypeOK, LoginInv, AclInv, StrayInv, Remembered, NEW q \in Requests,
           NEW u \in rows, NEW c \in Topics, call[q] = Call("add", u, c),
           pc'[q] \in {"inserting channel", "failed"},
           acl' = [acl EXCEPT ![LoginOf[u]] = @ \cup {c}],
           rows' = rows, subs' = subs, call' = call,
           \A r \in Requests :
               /\ pc[r] = "failed" => pc'[r] = "failed"
               /\ pc[r] = "inserting channel" => pc'[r] \in {"inserting channel", "failed"}
               /\ pc[r] = "revoking" => pc'[r] \in {"revoking", "failed"}
    PROVE  AclInv' /\ StrayInv'
<1>1. LoginOf[u] \in Logins
  BY TypedAccess
<1>2. \A l \in Logins : \A k \in acl'[l] : k \in acl[l] \/ (l = LoginOf[u] /\ k = c)
  BY <1>1 DEF TypeOK
<1>3. AclInv'
  BY <1>2 DEF AclInv
<1>4. ASSUME NEW t \in rows, NEW k \in acl'[LoginOf[t]] PROVE k \in subs[t] \/ Pending(t, k)'
  <2>1. t \in Tenants /\ LoginOf[t] \in Logins
    BY TypedAccess
  <2>2. CASE k \in acl[LoginOf[t]]
    <3>1. k \in Topics /\ (k \in subs[t] \/ Pending(t, k))
      BY <2>1, <2>2, TypedAccess DEF StrayInv
    <3> QED BY <2>1, <3>1, PendingStays
  <2>3. CASE k \notin acl[LoginOf[t]]
    <3>1. LoginOf[t] = LoginOf[u] /\ k = c
      BY <1>2, <2>1, <2>3
    <3>2. t = u
      BY <3>1 DEF LoginInv, OneTenantPerLogin
    <3> QED BY <3>1, <3>2 DEF Pending
  <2> QED BY <2>2, <2>3
<1> QED BY <1>3, <1>4 DEF StrayInv

\* The insert of a channel ends its add with a row.
LEMMA StrayInsertChannel ==
    ASSUME TypeOK, PhaseInv, AclInv, StrayInv, Remembered, NEW q \in Requests,
           pc[q] = "inserting channel",
           subs' = [subs EXCEPT ![call[q].tenant] = @ \cup {call[q].topic}],
           rows' = rows, acl' = acl, call' = call,
           NEW stage \in Done, pc' = [pc EXCEPT ![q] = stage]
    PROVE  AclInv' /\ StrayInv'
<1>1. PICK u \in rows, c \in Topics :
          call[q] = Call("add", u, c) /\ call[q].tenant = u /\ call[q].topic = c
  BY AddInHand DEF AddSteps
<1>2. call[q].tenant = u /\ call[q].topic = c
  BY <1>1
<1>3. AclInv'
  BY DEF AclInv
<1>4. \A t \in Tenants : subs[t] \subseteq subs'[t] /\ (t = u => c \in subs'[t])
  BY <1>2 DEF TypeOK
<1>5. ASSUME NEW t \in rows, NEW k \in acl[LoginOf[t]] PROVE k \in subs'[t] \/ Pending(t, k)'
  <2>1. t \in Tenants /\ k \in Topics /\ (k \in subs[t] \/ Pending(t, k))
    BY TypedAccess DEF StrayInv
  <2>2. CASE t = u /\ k = c
    BY <1>4, <2>1, <2>2
  <2>3. CASE ~(t = u /\ k = c)
    <3>1. \A r \in Requests : r # q => pc'[r] = pc[r]
      BY DEF TypeOK
    <3>2. call[q] # Call("add", t, k)
      BY <2>3, AddedElsewhere, <1>1
    <3>3. \A r \in Requests :
              /\ pc[r] = "failed" => pc'[r] = "failed"
              /\ call[r] = Call("add", t, k) /\ pc[r] = "inserting channel"
                     => pc'[r] \in {"inserting channel", "failed"}
              /\ pc[r] = "revoking" => pc'[r] \in {"revoking", "failed"}
      BY <3>1, <3>2
    <3> QED BY <1>4, <2>1, <3>3, PendingStays
  <2> QED BY <2>2, <2>3
<1> QED BY <1>3, <1>5 DEF StrayInv

\* A channel that goes leaves its removal with the access to take away.
LEMMA StrayDelete ==
    ASSUME TypeOK, PhaseInv, AclInv, StrayInv, Remembered, NEW q \in Requests,
           pc[q] = "deleting",
           subs' = [subs EXCEPT ![call[q].tenant] = @ \ {victim[q]}],
           rows' = rows, acl' = acl, call' = call, victim' = victim,
           NEW stage \in {"revoking", "failed"}, pc' = [pc EXCEPT ![q] = stage]
    PROVE  AclInv' /\ StrayInv'
<1>1. PICK u \in rows, c \in Topics : call[q] = Call("remove", u, c)
  BY DEF PhaseInv, Phase, RemoveSteps
<1>2. call[q].tenant = u
  BY <1>1, CallIsTyped
<1>3. AclInv'
  BY DEF AclInv
<1>4. pc'[q] \in {"revoking", "failed"}
  BY DEF TypeOK
<1>5. \A r \in Requests :
          /\ pc[r] = "failed" => pc'[r] = "failed"
          /\ pc[r] = "inserting channel" => pc'[r] \in {"inserting channel", "failed"}
          /\ pc[r] = "revoking" => pc'[r] \in {"revoking", "failed"}
  BY DEF TypeOK
<1>6. ASSUME NEW t \in rows, NEW k \in acl[LoginOf[t]] PROVE k \in subs'[t] \/ Pending(t, k)'
  <2>1. t \in Tenants /\ k \in Topics /\ (k \in subs[t] \/ Pending(t, k))
    BY TypedAccess DEF StrayInv
  <2>2. CASE Pending(t, k)
    BY <1>5, <2>1, <2>2, PendingStays
  <2>3. CASE k \in subs[t] /\ t = u /\ k = victim[q]
    BY <1>1, <1>4, <2>3 DEF Pending
  <2>4. CASE k \in subs[t] /\ ~(t = u /\ k = victim[q])
    BY <1>2, <2>1, <2>4 DEF TypeOK
  <2> QED BY <2>1, <2>2, <2>3, <2>4
<1> QED BY <1>3, <1>6 DEF StrayInv

\* The revoke takes the topic of its call away; a victim of another name stays explained.
LEMMA StrayRevoke ==
    ASSUME TypeOK, PhaseInv, AclInv, StrayInv, Remembered, NEW q \in Requests, Revoke(q)
    PROVE  AclInv' /\ StrayInv'
<1>1. /\ pc[q] = "revoking" /\ pc' = [pc EXCEPT ![q] = "publishing"]
      /\ acl' = [acl EXCEPT ![LoginOf[call[q].tenant]] = @ \ {call[q].topic}]
      /\ rows' = rows /\ subs' = subs /\ call' = call
  BY DEF Revoke, Goto
<1>2. PICK u \in rows, c \in Topics : call[q] = Call("remove", u, c)
  BY <1>1 DEF PhaseInv, Phase, RemoveSteps
<1>3. call[q].tenant = u /\ call[q].topic = c
  BY <1>2, CallIsTyped
<1>4. \A l \in Logins : acl'[l] \subseteq acl[l] /\ (l = LoginOf[u] => c \notin acl'[l])
  BY <1>1, <1>3 DEF TypeOK
<1>5. AclInv'
  BY <1>1, <1>4 DEF AclInv
<1>6. ASSUME NEW t \in rows, NEW k \in acl'[LoginOf[t]] PROVE k \in subs[t] \/ Pending(t, k)'
  <2>1. t \in Tenants /\ k \in acl[LoginOf[t]] /\ k \in Topics /\ ~(t = u /\ k = c)
    BY <1>4, TypedAccess
  <2>2. k \in subs[t] \/ Pending(t, k)
    BY <2>1 DEF StrayInv
  <2>3. \A r \in Requests : r # q => pc'[r] = pc[r]
    BY <1>1 DEF TypeOK
  <2>4. call[q] # Call("remove", t, k)
    BY <1>2, <2>1, CallsDiffer
  <2>5. \A r \in Requests :
            /\ pc[r] = "failed" => pc'[r] = "failed"
            /\ pc[r] = "inserting channel" => pc'[r] \in {"inserting channel", "failed"}
            /\ call[r] = Call("remove", t, k) /\ pc[r] = "revoking"
                   => pc'[r] \in {"revoking", "failed"}
    BY <1>1, <2>3, <2>4
  <2> QED BY <2>1, <2>2, <2>5, PendingStays
<1> QED BY <1>1, <1>5, <1>6 DEF StrayInv

LEMMA StrayStep ==
    TypeOK /\ PhaseInv /\ LateInv /\ LoginInv /\ AclInv /\ StrayInv /\ [Next]_vars
        => AclInv' /\ StrayInv'
<1> SUFFICES ASSUME TypeOK, PhaseInv, LateInv, LoginInv, AclInv, StrayInv, [Next]_vars
             PROVE  AclInv' /\ StrayInv'
  OBVIOUS
<1>0. Remembered
  BY CallsAreRemembered
<1>1. ASSUME NEW q \in Requests, NEW t \in Tenants, Create(q, t) PROVE AclInv' /\ StrayInv'
  <2>1. /\ rows' = rows
        /\ \A u \in Tenants : subs[u] \subseteq subs'[u]
        /\ \A l \in Logins : acl'[l] \subseteq acl[l]
        /\ \A r \in Requests :
               /\ pc[r] = "failed" => pc'[r] = "failed"
               /\ pc[r] = "inserting channel" => pc'[r] \in {"inserting channel", "failed"}
               /\ pc[r] = "revoking" => pc'[r] \in {"revoking", "failed"}
    BY <1>1 DEF Create, Goto, TypeOK
  <2> QED BY <1>0, <2>1, StrayFrame
<1>2. ASSUME NEW q \in Requests, Register(q) PROVE AclInv' /\ StrayInv'
  <2>1. /\ rows' = rows
        /\ \A u \in Tenants : subs[u] \subseteq subs'[u]
        /\ \A l \in Logins : acl'[l] \subseteq acl[l]
        /\ \A r \in Requests :
               /\ pc[r] = "failed" => pc'[r] = "failed"
               /\ pc[r] = "inserting channel" => pc'[r] \in {"inserting channel", "failed"}
               /\ pc[r] = "revoking" => pc'[r] \in {"revoking", "failed"}
    BY <1>2 DEF Register, Goto, TypeOK
  <2> QED BY <1>0, <2>1, StrayFrame
<1>3. ASSUME NEW q \in Requests, RegisterFail(q) PROVE AclInv' /\ StrayInv'
  <2>1. /\ rows' = rows
        /\ \A u \in Tenants : subs[u] \subseteq subs'[u]
        /\ \A l \in Logins : acl'[l] \subseteq acl[l]
        /\ \A r \in Requests :
               /\ pc[r] = "failed" => pc'[r] = "failed"
               /\ pc[r] = "inserting channel" => pc'[r] \in {"inserting channel", "failed"}
               /\ pc[r] = "revoking" => pc'[r] \in {"revoking", "failed"}
    BY <1>3 DEF RegisterFail, Leave, Goto, TypeOK
  <2> QED BY <1>0, <2>1, StrayFrame
<1>4. ASSUME NEW q \in Requests, InsertTenant(q) PROVE AclInv' /\ StrayInv'
  <2>1. /\ pc[q] = "inserting tenant" /\ rows' = rows \cup {call[q].tenant}
        /\ subs' = subs /\ acl' = acl /\ pc' = [pc EXCEPT ![q] = "ok"] /\ "ok" \in Done
    BY <1>4 DEF InsertTenant, Goto, Done
  <2>2. call[q].tenant \in Tenants
    BY <2>1, RunningRequest DEF CreateSteps
  <2> QED BY <1>0, <2>1, <2>2, StrayInsertTenant
<1>5. ASSUME NEW q \in Requests, InsertTenantFail(q) PROVE AclInv' /\ StrayInv'
  <2>1. CASE rows' = rows
    <3>1. /\ subs' = subs /\ acl' = acl
          /\ \A r \in Requests :
                 /\ pc[r] = "failed" => pc'[r] = "failed"
                 /\ pc[r] = "inserting channel" => pc'[r] \in {"inserting channel", "failed"}
                 /\ pc[r] = "revoking" => pc'[r] \in {"revoking", "failed"}
      BY <1>5 DEF InsertTenantFail, Goto, TypeOK
    <3> QED BY <1>0, <2>1, <3>1, StrayFrame
  <2>2. CASE rows' = rows \cup {call[q].tenant}
    <3>1. /\ pc[q] = "inserting tenant" /\ subs' = subs /\ acl' = acl
          /\ pc' = [pc EXCEPT ![q] = "failed"] /\ "failed" \in Done
      BY <1>5 DEF InsertTenantFail, Goto, Done
    <3>2. call[q].tenant \in Tenants
      BY <3>1, RunningRequest DEF CreateSteps
    <3> QED BY <1>0, <2>2, <3>1, <3>2, StrayInsertTenant
  <2> QED BY <1>5, <2>1, <2>2 DEF InsertTenantFail
<1>6. ASSUME NEW q \in Requests, NEW t \in Tenants, NEW k \in Topics, Add(q, t, k) PROVE AclInv' /\ StrayInv'
  <2>1. /\ rows' = rows
        /\ \A u \in Tenants : subs[u] \subseteq subs'[u]
        /\ \A l \in Logins : acl'[l] \subseteq acl[l]
        /\ \A r \in Requests :
               /\ pc[r] = "failed" => pc'[r] = "failed"
               /\ pc[r] = "inserting channel" => pc'[r] \in {"inserting channel", "failed"}
               /\ pc[r] = "revoking" => pc'[r] \in {"revoking", "failed"}
    BY <1>6 DEF Add, Goto, TypeOK
  <2> QED BY <1>0, <2>1, StrayFrame
<1>7. ASSUME NEW q \in Requests, Grant(q) PROVE AclInv' /\ StrayInv'
  <2>1. PICK u \in rows, c \in Topics :
            call[q] = Call("add", u, c) /\ call[q].tenant = u /\ call[q].topic = c
    BY <1>7, AddInHand DEF Grant, AddSteps
  <2>2. /\ acl' = [acl EXCEPT ![LoginOf[u]] = @ \cup {c}]
        /\ rows' = rows /\ subs' = subs /\ call' = call
    BY <1>7, <2>1 DEF Grant
  <2>3. /\ pc'[q] \in {"inserting channel", "failed"}
        /\ \A r \in Requests :
               /\ pc[r] = "failed" => pc'[r] = "failed"
               /\ pc[r] = "inserting channel" => pc'[r] \in {"inserting channel", "failed"}
               /\ pc[r] = "revoking" => pc'[r] \in {"revoking", "failed"}
    BY <1>7 DEF Grant, Goto, TypeOK
  <2> QED BY <1>0, <2>1, <2>2, <2>3, StrayGrant
<1>8. ASSUME NEW q \in Requests, GrantFail(q) PROVE AclInv' /\ StrayInv'
  <2>1. /\ rows' = rows
        /\ \A u \in Tenants : subs[u] \subseteq subs'[u]
        /\ \A l \in Logins : acl'[l] \subseteq acl[l]
        /\ \A r \in Requests :
               /\ pc[r] = "failed" => pc'[r] = "failed"
               /\ pc[r] = "inserting channel" => pc'[r] \in {"inserting channel", "failed"}
               /\ pc[r] = "revoking" => pc'[r] \in {"revoking", "failed"}
    BY <1>8 DEF GrantFail, Leave, Goto, TypeOK
  <2> QED BY <1>0, <2>1, StrayFrame
<1>9. ASSUME NEW q \in Requests, InsertChannel(q) PROVE AclInv' /\ StrayInv'
  <2>1. /\ pc[q] = "inserting channel" /\ rows' = rows /\ acl' = acl /\ call' = call
        /\ subs' = [subs EXCEPT ![call[q].tenant] = @ \cup {call[q].topic}]
    BY <1>9 DEF InsertChannel
  <2>2. PICK stage \in Done : pc' = [pc EXCEPT ![q] = stage]
    BY <1>9 DEF InsertChannel, Goto, Done
  <2> QED BY <1>0, <2>1, <2>2, StrayInsertChannel
<1>10. ASSUME NEW q \in Requests, InsertChannelFail(q) PROVE AclInv' /\ StrayInv'
  <2>1. CASE subs' = subs
    <3>1. /\ rows' = rows /\ acl' = acl
          /\ \A r \in Requests :
                 /\ pc[r] = "failed" => pc'[r] = "failed"
                 /\ pc[r] = "inserting channel" => pc'[r] \in {"inserting channel", "failed"}
                 /\ pc[r] = "revoking" => pc'[r] \in {"revoking", "failed"}
      BY <1>10 DEF InsertChannelFail, Goto, TypeOK
    <3> QED BY <1>0, <2>1, <3>1, StrayFrame
  <2>2. CASE subs' = [subs EXCEPT ![call[q].tenant] = @ \cup {call[q].topic}]
    <3>1. /\ pc[q] = "inserting channel" /\ rows' = rows /\ acl' = acl /\ call' = call
          /\ pc' = [pc EXCEPT ![q] = "failed"] /\ "failed" \in Done
      BY <1>10 DEF InsertChannelFail, Goto, Done
    <3> QED BY <1>0, <2>2, <3>1, StrayInsertChannel
  <2> QED BY <1>10, <2>1, <2>2 DEF InsertChannelFail
<1>11. ASSUME NEW q \in Requests, NEW t \in Tenants, NEW k \in Topics, Remove(q, t, k) PROVE AclInv' /\ StrayInv'
  <2>1. /\ rows' = rows
        /\ \A u \in Tenants : subs[u] \subseteq subs'[u]
        /\ \A l \in Logins : acl'[l] \subseteq acl[l]
        /\ \A r \in Requests :
               /\ pc[r] = "failed" => pc'[r] = "failed"
               /\ pc[r] = "inserting channel" => pc'[r] \in {"inserting channel", "failed"}
               /\ pc[r] = "revoking" => pc'[r] \in {"revoking", "failed"}
    BY <1>11 DEF Remove, Goto, TypeOK
  <2> QED BY <1>0, <2>1, StrayFrame
<1>12. ASSUME NEW q \in Requests, Delete(q) PROVE AclInv' /\ StrayInv'
  <2>1. /\ pc[q] = "deleting" /\ rows' = rows /\ acl' = acl /\ call' = call /\ victim' = victim
        /\ subs' = [subs EXCEPT ![call[q].tenant] = @ \ {victim[q]}]
    BY <1>12 DEF Delete
  <2>2. PICK stage \in {"revoking", "failed"} : pc' = [pc EXCEPT ![q] = stage]
    BY <1>12 DEF Delete, Goto
  <2> QED BY <1>0, <2>1, <2>2, StrayDelete
<1>13. ASSUME NEW q \in Requests, DeleteFail(q) PROVE AclInv' /\ StrayInv'
  <2>1. CASE subs' = subs
    <3>1. /\ rows' = rows /\ acl' = acl
          /\ \A r \in Requests :
                 /\ pc[r] = "failed" => pc'[r] = "failed"
                 /\ pc[r] = "inserting channel" => pc'[r] \in {"inserting channel", "failed"}
                 /\ pc[r] = "revoking" => pc'[r] \in {"revoking", "failed"}
      BY <1>13 DEF DeleteFail, Goto, TypeOK
    <3> QED BY <1>0, <2>1, <3>1, StrayFrame
  <2>2. CASE subs' = [subs EXCEPT ![call[q].tenant] = @ \ {victim[q]}]
    <3>1. /\ pc[q] = "deleting" /\ rows' = rows /\ acl' = acl /\ call' = call
          /\ victim' = victim /\ pc' = [pc EXCEPT ![q] = "failed"]
      BY <1>13 DEF DeleteFail, Goto
    <3> QED BY <1>0, <2>2, <3>1, StrayDelete
  <2> QED BY <1>13, <2>1, <2>2 DEF DeleteFail
<1>14. ASSUME NEW q \in Requests, Revoke(q) PROVE AclInv' /\ StrayInv'
  BY <1>0, <1>14, StrayRevoke
<1>15. ASSUME NEW q \in Requests, RevokeFail(q) PROVE AclInv' /\ StrayInv'
  <2>1. /\ rows' = rows
        /\ \A u \in Tenants : subs[u] \subseteq subs'[u]
        /\ \A l \in Logins : acl'[l] \subseteq acl[l]
        /\ \A r \in Requests :
               /\ pc[r] = "failed" => pc'[r] = "failed"
               /\ pc[r] = "inserting channel" => pc'[r] \in {"inserting channel", "failed"}
               /\ pc[r] = "revoking" => pc'[r] \in {"revoking", "failed"}
    BY <1>15 DEF RevokeFail, Leave, Goto, TypeOK
  <2> QED BY <1>0, <2>1, StrayFrame
<1>16. ASSUME NEW q \in Requests, Publish(q) PROVE AclInv' /\ StrayInv'
  <2>1. /\ rows' = rows
        /\ \A u \in Tenants : subs[u] \subseteq subs'[u]
        /\ \A l \in Logins : acl'[l] \subseteq acl[l]
        /\ \A r \in Requests :
               /\ pc[r] = "failed" => pc'[r] = "failed"
               /\ pc[r] = "inserting channel" => pc'[r] \in {"inserting channel", "failed"}
               /\ pc[r] = "revoking" => pc'[r] \in {"revoking", "failed"}
    BY <1>16 DEF Publish, Leave, Goto, TypeOK
  <2> QED BY <1>0, <2>1, StrayFrame
<1>17. ASSUME NEW q \in Requests, PublishFail(q) PROVE AclInv' /\ StrayInv'
  <2>1. /\ rows' = rows
        /\ \A u \in Tenants : subs[u] \subseteq subs'[u]
        /\ \A l \in Logins : acl'[l] \subseteq acl[l]
        /\ \A r \in Requests :
               /\ pc[r] = "failed" => pc'[r] = "failed"
               /\ pc[r] = "inserting channel" => pc'[r] \in {"inserting channel", "failed"}
               /\ pc[r] = "revoking" => pc'[r] \in {"revoking", "failed"}
    BY <1>17 DEF PublishFail, Leave, Goto, TypeOK
  <2> QED BY <1>0, <2>1, StrayFrame
<1>18. ASSUME NEW q \in Requests, Abandon(q) PROVE AclInv' /\ StrayInv'
  <2>1. /\ rows' = rows
        /\ \A u \in Tenants : subs[u] \subseteq subs'[u]
        /\ \A l \in Logins : acl'[l] \subseteq acl[l]
        /\ \A r \in Requests :
               /\ pc[r] = "failed" => pc'[r] = "failed"
               /\ pc[r] = "inserting channel" => pc'[r] \in {"inserting channel", "failed"}
               /\ pc[r] = "revoking" => pc'[r] \in {"revoking", "failed"}
    BY <1>18 DEF Abandon, Goto, TypeOK, Done
  <2> QED BY <1>0, <2>1, StrayFrame
<1>19. ASSUME NEW q \in Requests, Land(q) PROVE AclInv' /\ StrayInv'
  <2>1. call' = call /\ pc' = pc /\ rows' = rows /\ subs' = subs
    BY <1>19 DEF Land
  <2>2. CASE \A l \in Logins : acl'[l] \subseteq acl[l]
    BY <1>0, <2>1, <2>2, StrayFrame
  <2>3. CASE \E u \in rows, c \in Topics : /\ pc[q] = "failed" /\ call[q] = Call("add", u, c)
                                           /\ acl' = [acl EXCEPT ![LoginOf[u]] = @ \cup {c}]
    <3>1. PICK u \in rows, c \in Topics : /\ pc[q] = "failed" /\ call[q] = Call("add", u, c)
                                          /\ acl' = [acl EXCEPT ![LoginOf[u]] = @ \cup {c}]
      BY <2>3
    <3>2. /\ pc'[q] \in {"inserting channel", "failed"}
          /\ \A r \in Requests :
                 /\ pc[r] = "failed" => pc'[r] = "failed"
                 /\ pc[r] = "inserting channel" => pc'[r] \in {"inserting channel", "failed"}
                 /\ pc[r] = "revoking" => pc'[r] \in {"revoking", "failed"}
      BY <2>1, <3>1
    <3> QED BY <1>0, <2>1, <3>1, <3>2, StrayGrant
  <2>4. CASE \E u \in rows, c \in Topics : acl' = [acl EXCEPT ![LoginOf[u]] = @ \ {c}]
    <3>1. \A l \in Logins : acl'[l] \subseteq acl[l]
      BY <2>4 DEF TypeOK
    <3> QED BY <2>2, <3>1
  <2>5. CASE acl' = acl
    BY <2>2, <2>5
  <2> QED BY <1>19, <2>3, <2>4, <2>5, LandingCall
<1>20. ASSUME NEW q \in Requests, Resend(q) PROVE AclInv' /\ StrayInv'
  BY <1>0, <1>20, StrayFrame DEF Resend
<1>21. CASE UNCHANGED vars
  BY <1>0, <1>21, StrayFrame DEF vars
<1> QED
  BY <1>1, <1>2, <1>3, <1>4, <1>5, <1>6, <1>7, <1>8, <1>9, <1>10,
     <1>11, <1>12, <1>13, <1>14, <1>15, <1>16, <1>17, <1>18, <1>19, <1>20, <1>21 DEF Next

--------------------------------------------------------------------------------
(* Events *)

\* A request keeps what it has loaded, the topic only grows, and who answers a removal
\* has published.
Announced ==
    /\ \A r \in Requests :
           /\ call[r] # NoCall => victim'[r] = victim[r] /\ loaded'[r] = loaded[r]
           /\ pc'[r] = "ok" /\ pc[r] # "ok" =>
                  \/ pc[r] \in CreateSteps \cup AddSteps
                  \/ pc[r] = "publishing" /\ log' = Append(log, Announcement(r))
    /\ \/ log' = log
       \/ \E q \in Requests :
              /\ "publishing" \in {pc[q], late[q]}
              /\ subs' = subs /\ log' = Append(log, Announcement(q))

LEMMA RequestsAnnounce == TypeOK /\ PhaseInv /\ [Next]_vars => Announced
<1> SUFFICES ASSUME TypeOK, PhaseInv, [Next]_vars PROVE Announced
  OBVIOUS
<1>0. \A q \in Requests : pc[q] = "idle" => call[q] = NoCall
  BY DEF PhaseInv, Phase
<1>1. ASSUME NEW q \in Requests, NEW t \in Tenants, Create(q, t) PROVE Announced
  BY <1>0, <1>1 DEF Announced, Create, Goto, TypeOK
<1>2. ASSUME NEW q \in Requests, Register(q) PROVE Announced
  BY <1>0, <1>2 DEF Announced, Register, Goto, TypeOK
<1>3. ASSUME NEW q \in Requests, RegisterFail(q) PROVE Announced
  BY <1>0, <1>3 DEF Announced, RegisterFail, Leave, Goto, TypeOK
<1>4. ASSUME NEW q \in Requests, InsertTenant(q) PROVE Announced
  BY <1>0, <1>4 DEF Announced, InsertTenant, Goto, TypeOK, CreateSteps
<1>5. ASSUME NEW q \in Requests, InsertTenantFail(q) PROVE Announced
  BY <1>0, <1>5 DEF Announced, InsertTenantFail, Goto, TypeOK
<1>6. ASSUME NEW q \in Requests, NEW t \in Tenants, NEW k \in Topics, Add(q, t, k) PROVE Announced
  BY <1>0, <1>6 DEF Announced, Add, Goto, TypeOK
<1>7. ASSUME NEW q \in Requests, Grant(q) PROVE Announced
  BY <1>0, <1>7 DEF Announced, Grant, Goto, TypeOK
<1>8. ASSUME NEW q \in Requests, GrantFail(q) PROVE Announced
  BY <1>0, <1>8 DEF Announced, GrantFail, Leave, Goto, TypeOK
<1>9. ASSUME NEW q \in Requests, InsertChannel(q) PROVE Announced
  BY <1>0, <1>9 DEF Announced, InsertChannel, Goto, TypeOK, AddSteps
<1>10. ASSUME NEW q \in Requests, InsertChannelFail(q) PROVE Announced
  BY <1>0, <1>10 DEF Announced, InsertChannelFail, Goto, TypeOK
<1>11. ASSUME NEW q \in Requests, NEW t \in Tenants, NEW k \in Topics, Remove(q, t, k) PROVE Announced
  BY <1>0, <1>11 DEF Announced, Remove, Goto, TypeOK
<1>12. ASSUME NEW q \in Requests, Delete(q) PROVE Announced
  BY <1>0, <1>12 DEF Announced, Delete, Goto, TypeOK
<1>13. ASSUME NEW q \in Requests, DeleteFail(q) PROVE Announced
  BY <1>0, <1>13 DEF Announced, DeleteFail, Goto, TypeOK
<1>14. ASSUME NEW q \in Requests, Revoke(q) PROVE Announced
  BY <1>0, <1>14 DEF Announced, Revoke, Goto, TypeOK
<1>15. ASSUME NEW q \in Requests, RevokeFail(q) PROVE Announced
  BY <1>0, <1>15 DEF Announced, RevokeFail, Leave, Goto, TypeOK
<1>16. ASSUME NEW q \in Requests, Publish(q) PROVE Announced
  BY <1>0, <1>16 DEF Announced, Publish, Leave, Goto, TypeOK
<1>17. ASSUME NEW q \in Requests, PublishFail(q) PROVE Announced
  BY <1>0, <1>17 DEF Announced, PublishFail, Leave, Goto, TypeOK
<1>18. ASSUME NEW q \in Requests, Abandon(q) PROVE Announced
  BY <1>0, <1>18 DEF Announced, Abandon, Goto, TypeOK
<1>19. ASSUME NEW q \in Requests, Land(q) PROVE Announced
  BY <1>19 DEF Announced, Land
<1>20. ASSUME NEW q \in Requests, Resend(q) PROVE Announced
  BY <1>20 DEF Announced, Resend
<1>21. CASE UNCHANGED vars
  BY <1>21 DEF vars, Announced
<1> QED
  BY <1>1, <1>2, <1>3, <1>4, <1>5, <1>6, <1>7, <1>8, <1>9, <1>10,
     <1>11, <1>12, <1>13, <1>14, <1>15, <1>16, <1>17, <1>18, <1>19, <1>20, <1>21 DEF Next

LEMMA EventsStay ==
    ASSUME TypeOK, Announced
    PROVE  /\ Len(log) \in Nat /\ Len(log') \in Nat /\ Len(log) <= Len(log')
           /\ \A i \in 1..Len(log) : i \in 1..Len(log') /\ log'[i] = log[i]
<1>1. log \in Seq(Announcements)
  BY DEF TypeOK
<1>2. CASE log' = log
  BY <1>1, <1>2
<1>3. CASE \E q \in Requests : log' = Append(log, Announcement(q))
  BY <1>1, <1>3
<1> QED BY <1>2, <1>3 DEF Announced

LEMMA TakenStays ==
    ASSUME TypeOK, PhaseInv, LoadedInv, Remembered, Announced,
           NEW t \in Tenants, NEW k \in Topics, TakenAway(t, k)
    PROVE  TakenAway(t, k)'
<1>1. PICK r \in Requests, c \in Topics :
          /\ call[r] = Call("remove", t, c) /\ victim[r] = k /\ pc[r] # "deleting"
          /\ pc[r] = "ok" => \E j \in 1..Len(log) : log[j].tenant = t /\ k \notin log[j].channels
  BY DEF TakenAway
<1>2. call[r] # NoCall
  BY <1>1, CallIsTyped, CallAssumption
<1>3. call'[r] = Call("remove", t, c) /\ victim'[r] = k /\ pc'[r] # "deleting"
  BY <1>1, <1>2 DEF Remembered, Announced
<1>4. ASSUME pc'[r] = "ok"
      PROVE  \E j \in 1..Len(log') : log'[j].tenant = t /\ k \notin log'[j].channels
  <2>1. CASE pc[r] = "ok"
    BY <1>1, <2>1, EventsStay
  <2>2. CASE pc[r] # "ok"
    <3>1. pc[r] \notin CreateSteps
      <4> SUFFICES ASSUME pc[r] \in CreateSteps PROVE FALSE
        OBVIOUS
      <4>1. PICK u \in Tenants : call[r] = Call("create", u, NoTopic)
        BY DEF PhaseInv, Phase
      <4> QED BY <1>1, <4>1, CallsDiffer
    <3>2. pc[r] \notin AddSteps
      <4> SUFFICES ASSUME pc[r] \in AddSteps PROVE FALSE
        OBVIOUS
      <4>1. PICK u \in rows, d \in Topics : call[r] = Call("add", u, d)
        BY DEF PhaseInv, Phase
      <4> QED BY <1>1, <4>1, CallsDiffer
    <3>3. log' = Append(log, Announcement(r))
      BY <1>4, <2>2, <3>1, <3>2 DEF Announced
    <3>4. Announcement(r).tenant = t /\ Announcement(r).channels = loaded[r]
      BY <1>1, CallIsTyped DEF Announcement
    <3>5. k \notin loaded[r]
      BY <1>1 DEF LoadedInv, Loaded
    <3>6. log \in Seq(Announcements)
      BY DEF TypeOK
    <3>7. Len(log) + 1 \in 1..Len(log') /\ log'[Len(log) + 1] = Announcement(r)
      BY <3>3, <3>6
    <3> QED BY <3>4, <3>5, <3>7
  <2> QED BY <2>1, <2>2
<1> QED BY <1>3, <1>4 DEF TakenAway

\* The delete, answered or not.
LEMMA TakenByDelete ==
    ASSUME TypeOK, PhaseInv, NEW q \in Requests, pc[q] = "deleting",
           subs' = [subs EXCEPT ![call[q].tenant] = @ \ {victim[q]}],
           call' = call, victim' = victim,
           NEW stage \in {"revoking", "failed"}, pc' = [pc EXCEPT ![q] = stage],
           NEW t \in Tenants, NEW k \in subs[t], k \notin subs'[t]
    PROVE  TakenAway(t, k)'
<1>1. PICK u \in rows, c \in Topics : call[q] = Call("remove", u, c)
  BY DEF PhaseInv, Phase, RemoveSteps
<1>2. call[q].tenant = u /\ u \in Tenants
  BY <1>1, CallIsTyped DEF TypeOK
<1>3. t = u /\ k = victim[q]
  BY <1>2 DEF TypeOK
<1>4. pc'[q] # "deleting" /\ pc'[q] # "ok"
  BY DEF TypeOK
<1> QED BY <1>1, <1>3, <1>4 DEF TakenAway

\* A channel leaves its tenant by a removal.
LEMMA LeavesByRemoval ==
    TypeOK /\ PhaseInv /\ [Next]_vars
        => \A t \in Tenants : \A k \in subs[t] \ subs'[t] : TakenAway(t, k)'
<1> DEFINE Explained == \A t \in Tenants : \A k \in subs[t] \ subs'[t] : TakenAway(t, k)'
<1> SUFFICES ASSUME TypeOK, PhaseInv, [Next]_vars PROVE Explained
  OBVIOUS
<1>0. ASSUME \A t \in Tenants : subs[t] \subseteq subs'[t] PROVE Explained
  BY <1>0
<1> HIDE DEF Explained
<1>1. ASSUME NEW q \in Requests, NEW t \in Tenants, Create(q, t) PROVE Explained
  BY <1>0, <1>1 DEF Create
<1>2. ASSUME NEW q \in Requests, Register(q) PROVE Explained
  BY <1>0, <1>2 DEF Register
<1>3. ASSUME NEW q \in Requests, RegisterFail(q) PROVE Explained
  BY <1>0, <1>3 DEF RegisterFail
<1>4. ASSUME NEW q \in Requests, InsertTenant(q) PROVE Explained
  BY <1>0, <1>4 DEF InsertTenant
<1>5. ASSUME NEW q \in Requests, InsertTenantFail(q) PROVE Explained
  BY <1>0, <1>5 DEF InsertTenantFail
<1>6. ASSUME NEW q \in Requests, NEW t \in Tenants, NEW k \in Topics, Add(q, t, k) PROVE Explained
  BY <1>0, <1>6 DEF Add
<1>7. ASSUME NEW q \in Requests, Grant(q) PROVE Explained
  BY <1>0, <1>7 DEF Grant
<1>8. ASSUME NEW q \in Requests, GrantFail(q) PROVE Explained
  BY <1>0, <1>8 DEF GrantFail
<1>9. ASSUME NEW q \in Requests, InsertChannel(q) PROVE Explained
  <2>1. \A t \in Tenants : subs[t] \subseteq subs'[t]
    BY <1>9 DEF InsertChannel, TypeOK
  <2> QED BY <1>0, <2>1
<1>10. ASSUME NEW q \in Requests, InsertChannelFail(q) PROVE Explained
  <2>1. \A t \in Tenants : subs[t] \subseteq subs'[t]
    BY <1>10 DEF InsertChannelFail, TypeOK
  <2> QED BY <1>0, <2>1
<1>11. ASSUME NEW q \in Requests, NEW t \in Tenants, NEW k \in Topics, Remove(q, t, k) PROVE Explained
  BY <1>0, <1>11 DEF Remove
<1>12. ASSUME NEW q \in Requests, Delete(q) PROVE Explained
  <2>1. /\ pc[q] = "deleting" /\ call' = call /\ victim' = victim
        /\ subs' = [subs EXCEPT ![call[q].tenant] = @ \ {victim[q]}]
    BY <1>12 DEF Delete
  <2>2. PICK stage \in {"revoking", "failed"} : pc' = [pc EXCEPT ![q] = stage]
    BY <1>12 DEF Delete, Goto
  <2> QED BY <2>1, <2>2, TakenByDelete DEF Explained
<1>13. ASSUME NEW q \in Requests, DeleteFail(q) PROVE Explained
  <2>1. CASE subs' = subs
    BY <1>0, <2>1
  <2>2. CASE subs' = [subs EXCEPT ![call[q].tenant] = @ \ {victim[q]}]
    <3>1. /\ pc[q] = "deleting" /\ call' = call /\ victim' = victim
          /\ pc' = [pc EXCEPT ![q] = "failed"]
      BY <1>13 DEF DeleteFail, Goto
    <3> QED BY <2>2, <3>1, TakenByDelete DEF Explained
  <2> QED BY <1>13, <2>1, <2>2 DEF DeleteFail
<1>14. ASSUME NEW q \in Requests, Revoke(q) PROVE Explained
  BY <1>0, <1>14 DEF Revoke
<1>15. ASSUME NEW q \in Requests, RevokeFail(q) PROVE Explained
  BY <1>0, <1>15 DEF RevokeFail
<1>16. ASSUME NEW q \in Requests, Publish(q) PROVE Explained
  BY <1>0, <1>16 DEF Publish
<1>17. ASSUME NEW q \in Requests, PublishFail(q) PROVE Explained
  BY <1>0, <1>17 DEF PublishFail
<1>18. ASSUME NEW q \in Requests, Abandon(q) PROVE Explained
  BY <1>0, <1>18 DEF Abandon
<1>19. ASSUME NEW q \in Requests, Land(q) PROVE Explained
  BY <1>0, <1>19 DEF Land
<1>20. ASSUME NEW q \in Requests, Resend(q) PROVE Explained
  BY <1>0, <1>20 DEF Resend
<1>21. CASE UNCHANGED vars
  BY <1>0, <1>21 DEF vars
<1>22. Explained
  BY <1>1, <1>2, <1>3, <1>4, <1>5, <1>6, <1>7, <1>8, <1>9, <1>10,
     <1>11, <1>12, <1>13, <1>14, <1>15, <1>16, <1>17, <1>18, <1>19, <1>20, <1>21 DEF Next
<1> QED BY <1>22 DEF Explained

\* A channel that was there or taken away is so after every step.
LEMMA KnownStays ==
    ASSUME ProvisioningInv, LoadedInv, [Next]_vars,
           NEW t \in Tenants, NEW k \in Topics, k \in subs[t] \/ TakenAway(t, k)
    PROVE  k \in subs'[t] \/ TakenAway(t, k)'
<1>1. TypeOK /\ PhaseInv /\ Remembered /\ Announced
  BY CallsAreRemembered, RequestsAnnounce DEF ProvisioningInv
<1> QED BY <1>1, TakenStays, LeavesByRemoval

\* Only a removal fills the collection.
LEMMA OnlyRemovalsLoad ==
    ASSUME TypeOK, [Next]_vars, NEW r \in Requests,
           ~ \E t \in Tenants, k \in Topics : Remove(r, t, k)
    PROVE  loaded'[r] = loaded[r]
<1>1. ASSUME NEW q \in Requests, NEW t \in Tenants, Create(q, t) PROVE loaded'[r] = loaded[r]
  BY <1>1 DEF Create
<1>2. ASSUME NEW q \in Requests, Register(q) PROVE loaded'[r] = loaded[r]
  BY <1>2 DEF Register
<1>3. ASSUME NEW q \in Requests, RegisterFail(q) PROVE loaded'[r] = loaded[r]
  BY <1>3 DEF RegisterFail
<1>4. ASSUME NEW q \in Requests, InsertTenant(q) PROVE loaded'[r] = loaded[r]
  BY <1>4 DEF InsertTenant
<1>5. ASSUME NEW q \in Requests, InsertTenantFail(q) PROVE loaded'[r] = loaded[r]
  BY <1>5 DEF InsertTenantFail
<1>6. ASSUME NEW q \in Requests, NEW t \in Tenants, NEW k \in Topics, Add(q, t, k) PROVE loaded'[r] = loaded[r]
  BY <1>6 DEF Add
<1>7. ASSUME NEW q \in Requests, Grant(q) PROVE loaded'[r] = loaded[r]
  BY <1>7 DEF Grant
<1>8. ASSUME NEW q \in Requests, GrantFail(q) PROVE loaded'[r] = loaded[r]
  BY <1>8 DEF GrantFail
<1>9. ASSUME NEW q \in Requests, InsertChannel(q) PROVE loaded'[r] = loaded[r]
  BY <1>9 DEF InsertChannel
<1>10. ASSUME NEW q \in Requests, InsertChannelFail(q) PROVE loaded'[r] = loaded[r]
  BY <1>10 DEF InsertChannelFail
<1>11. ASSUME NEW q \in Requests, NEW t \in Tenants, NEW k \in Topics, Remove(q, t, k) PROVE loaded'[r] = loaded[r]
  <2>1. q # r
    BY <1>11
  <2> QED BY <1>11, <2>1 DEF Remove, TypeOK
<1>12. ASSUME NEW q \in Requests, Delete(q) PROVE loaded'[r] = loaded[r]
  BY <1>12 DEF Delete
<1>13. ASSUME NEW q \in Requests, DeleteFail(q) PROVE loaded'[r] = loaded[r]
  BY <1>13 DEF DeleteFail
<1>14. ASSUME NEW q \in Requests, Revoke(q) PROVE loaded'[r] = loaded[r]
  BY <1>14 DEF Revoke
<1>15. ASSUME NEW q \in Requests, RevokeFail(q) PROVE loaded'[r] = loaded[r]
  BY <1>15 DEF RevokeFail
<1>16. ASSUME NEW q \in Requests, Publish(q) PROVE loaded'[r] = loaded[r]
  BY <1>16 DEF Publish
<1>17. ASSUME NEW q \in Requests, PublishFail(q) PROVE loaded'[r] = loaded[r]
  BY <1>17 DEF PublishFail
<1>18. ASSUME NEW q \in Requests, Abandon(q) PROVE loaded'[r] = loaded[r]
  BY <1>18 DEF Abandon
<1>19. ASSUME NEW q \in Requests, Land(q) PROVE loaded'[r] = loaded[r]
  BY <1>19 DEF Land
<1>20. ASSUME NEW q \in Requests, Resend(q) PROVE loaded'[r] = loaded[r]
  BY <1>20 DEF Resend
<1>21. CASE UNCHANGED vars
  BY <1>21 DEF vars
<1> QED
  BY <1>1, <1>2, <1>3, <1>4, <1>5, <1>6, <1>7, <1>8, <1>9, <1>10,
     <1>11, <1>12, <1>13, <1>14, <1>15, <1>16, <1>17, <1>18, <1>19, <1>20, <1>21 DEF Next

LEMMA LoadedStep == ProvisioningInv /\ LoadedInv /\ [Next]_vars => LoadedInv'
<1> SUFFICES ASSUME ProvisioningInv, LoadedInv, [Next]_vars PROVE LoadedInv'
  OBVIOUS
<1>1. TypeOK /\ PhaseInv /\ Remembered /\ Announced
  BY CallsAreRemembered, RequestsAnnounce DEF ProvisioningInv
<1>2. ASSUME NEW q \in Requests, call[q] # NoCall PROVE Loaded(q)'
  <2>1. call'[q] = call[q] /\ victim'[q] = victim[q] /\ loaded'[q] = loaded[q]
    BY <1>1, <1>2 DEF Remembered, Announced
  <2>2. loaded[q] \subseteq Topics /\ Loaded(q)
    BY <1>1 DEF TypeOK, LoadedInv
  <2> QED BY <1>2, <2>1, <2>2, KnownStays DEF Loaded
<1>3. ASSUME NEW q \in Requests, call[q] = NoCall PROVE Loaded(q)'
  <2>1. loaded[q] = {}
    BY <1>3 DEF LoadedInv, Loaded
  <2>2. CASE \E t \in Tenants, k \in Topics : Remove(q, t, k)
    <3>1. PICK t \in Tenants, k \in Topics : Remove(q, t, k)
      BY <2>2
    <3>2. /\ call'[q] = Call("remove", t, k) /\ subs' = subs
          /\ loaded'[q] = {} \/ loaded'[q] = subs[t] \ {victim'[q]}
      BY <1>1, <2>1, <3>1 DEF Remove, TypeOK
    <3>3. call'[q] # NoCall /\ \A u, c : call'[q] = Call("remove", u, c) => u = t
      BY <3>2, CallIsTyped, CallAssumption
    <3> QED BY <3>2, <3>3 DEF Loaded
  <2>3. CASE ~ \E t \in Tenants, k \in Topics : Remove(q, t, k)
    <3>1. loaded'[q] = {}
      BY <1>1, <2>1, <2>3, OnlyRemovalsLoad
    <3> QED BY <3>1 DEF Loaded
  <2> QED BY <2>2, <2>3
<1> QED BY <1>2, <1>3 DEF LoadedInv

LEMMA StaleStep ==
    ProvisioningInv /\ LoadedInv /\ StaleEventIsExplained /\ [Next]_vars => StaleEventIsExplained'
<1> SUFFICES ASSUME ProvisioningInv, LoadedInv, StaleEventIsExplained, [Next]_vars,
                    NEW i \in 1..Len(log'), NEW t \in Tenants, log'[i].tenant = t,
                    NEW k \in log'[i].channels, k \notin subs'[t]
             PROVE  TakenAway(t, k)'
  BY DEF StaleEventIsExplained
<1>1. TypeOK /\ PhaseInv /\ Announced /\ log \in Seq(Announcements)
  BY RequestsAnnounce DEF ProvisioningInv, TypeOK
<1>2. CASE i \in 1..Len(log)
  <2>1. log'[i] = log[i] /\ log[i] \in Announcements
    BY <1>1, <1>2, EventsStay
  <2>2. k \in Topics
    BY <2>1 DEF Announcements
  <2>3. k \in subs[t] \/ TakenAway(t, k)
    BY <1>2, <2>1 DEF StaleEventIsExplained
  <2> QED BY <2>2, <2>3, KnownStays
<1>3. CASE i \notin 1..Len(log)
  <2>1. PICK q \in Requests :
            "publishing" \in {pc[q], late[q]} /\ log' = Append(log, Announcement(q))
    BY <1>1, <1>3 DEF Announced
  <2>2. log'[i] = Announcement(q)
    BY <1>1, <1>3, <2>1
  <2>3. PICK u \in rows, c \in Topics : call[q] = Call("remove", u, c)
    <3>1. CASE pc[q] = "publishing"
      BY <1>1, <3>1 DEF PhaseInv, Phase, RemoveSteps
    <3>2. CASE late[q] = "publishing"
      BY <3>2 DEF ProvisioningInv, LateInv, Owed
    <3> QED BY <2>1, <3>1, <3>2
  <2>4. u = t /\ k \in loaded[q]
    BY <2>2, <2>3, CallIsTyped DEF Announcement
  <2>5. k \in Topics
    BY <1>1, <2>4 DEF TypeOK
  <2>6. k \in subs[t] \/ TakenAway(t, k)
    BY <2>3, <2>4, <2>5 DEF LoadedInv, Loaded
  <2> QED BY <2>5, <2>6, KnownStays
<1> QED BY <1>2, <1>3

--------------------------------------------------------------------------------
(* Theorems *)

LEMMA AccessListInit == Init => AccessListInv
<1> SUFFICES ASSUME Init PROVE AccessListInv
  OBVIOUS
<1>1. AskedInv /\ RevokedInv
  BY DEF Init, AskedInv, RevokedInv
<1>2. \A l \in Logins : acl[l] = UNION {subs[t] : t \in {u \in Existing : LoginOf[u] = l}}
  BY DEF Init
<1>3. AclInv
  BY <1>2 DEF Init, AclInv
<1>4. ASSUME NEW t \in rows, NEW k \in acl[LoginOf[t]] PROVE k \in subs[t]
  <2>1. t \in Existing /\ LoginOf[t] \in Logins
    BY TenantAssumption DEF Init
  <2>2. PICK u \in Existing : LoginOf[u] = LoginOf[t] /\ k \in subs[u]
    BY <1>2, <2>1
  <2> QED BY <2>1, <2>2, TenantAssumption
<1> QED BY <1>1, <1>3, <1>4 DEF AccessListInv, StrayInv

LEMMA AccessListInvariance == Spec => [](ProvisioningInv /\ AccessListInv)
<1>1. ProvisioningInv /\ AccessListInv /\ [Next]_vars => AccessListInv'
  BY AskedStep, RevokedStep, StrayStep DEF ProvisioningInv, AccessListInv
<1> QED BY <1>1, Invariance, AccessListInit, PTL DEF Spec

\* AnsweredRemovalRevokes: after a removal that answered 200 only an add of the same topic
\* lets the tenant read it.
THEOREM RemovalsRevoke == Spec => []AnsweredRemovalRevokes
<1>1. ProvisioningInv /\ AccessListInv => AnsweredRemovalRevokes
  <2> SUFFICES ASSUME ProvisioningInv, AccessListInv, NEW q \in Requests,
                      pc[q] = "ok", call[q].kind = "remove",
                      call[q].topic \in acl[LoginOf[call[q].tenant]]
               PROVE  \E a \in Requests : call[a] = [call[q] EXCEPT !.kind = "add"]
    BY DEF AnsweredRemovalRevokes
  <2>1. call[q] \in Calls
    BY DEF AccessListInv, AskedInv
  <2>2. PICK t \in Tenants, k \in Topics : call[q] = Call("remove", t, k)
    BY <2>1 DEF Calls, Call
  <2>3. call[q].tenant = t /\ call[q].topic = k
    BY <2>2, CallIsTyped
  <2>4. Added(t, k)
    BY <2>2, <2>3 DEF AccessListInv, RevokedInv
  <2>5. [call[q] EXCEPT !.kind = "add"] = Call("add", t, k)
    BY <2>2 DEF Call
  <2> QED BY <2>4, <2>5 DEF Added
<1> QED BY <1>1, AccessListInvariance, PTL

\* StrayAccessIsExplained: access without a channel is left by failed requests, or by a
\* removal whose name differs in case from its channel's, and by nothing else.
THEOREM StrayAccessHasCause == Spec => []StrayAccessIsExplained
<1>1. ProvisioningInv /\ AccessListInv => StrayAccessIsExplained
  <2> SUFFICES ASSUME ProvisioningInv, AccessListInv, Quiet,
                      NEW t \in rows, NEW k \in acl[LoginOf[t]], k \notin subs[t]
               PROVE  Leftover(t, k)
    BY DEF StrayAccessIsExplained
  <2>1. Pending(t, k)
    BY DEF AccessListInv, StrayInv
  <2>2. \A q \in Requests : pc[q] \notin {"inserting channel", "revoking"}
    BY DEF Quiet, Done
  <2> QED BY <2>1, <2>2 DEF Pending, Leftover
<1> QED BY <1>1, AccessListInvariance, PTL

LEMMA EventInvariance == Spec => [](ProvisioningInv /\ LoadedInv /\ StaleEventIsExplained)
<1>1. Init => LoadedInv /\ StaleEventIsExplained
  <2>1. ASSUME Init PROVE LoadedInv
    BY <2>1 DEF Init, LoadedInv, Loaded
  <2>2. ASSUME Init PROVE StaleEventIsExplained
    BY <2>2 DEF Init, StaleEventIsExplained
  <2> QED BY <2>1, <2>2
<1>2. ProvisioningInv /\ LoadedInv /\ StaleEventIsExplained /\ [Next]_vars
          => LoadedInv' /\ StaleEventIsExplained'
  BY LoadedStep, StaleStep
<1> QED BY <1>1, <1>2, Invariance, PTL DEF Spec

\* StaleEventIsExplained: what an event names in vain was taken by another removal, which
\* failed, has not answered, or has an event of its own without it.
THEOREM StaleEventsHaveCause == Spec => []StaleEventIsExplained
  BY EventInvariance, PTL
================================================================================
