------------------------ MODULE TenantProvisioningProofs ------------------------
(***************************************************************************)
(* Proofs about TenantProvisioning for every set of requests, tenants and  *)
(* topics, with or without faults.                                         *)
(***************************************************************************)
EXTENDS TenantProvisioning, TLAPS

\* A running request's stage fits its call, and its tenant has a row.
Phase(q) ==
    /\ pc[q] = "idle" => call[q] = NoCall
    /\ pc[q] \in CreateSteps => \E t \in Tenants : call[q] = Call("create", t, NoTopic)
    /\ pc[q] \in AddSteps => \E t \in rows, k \in Topics : call[q] = Call("add", t, k)
    /\ pc[q] \in RemoveSteps =>
           /\ victim[q] \in Topics
           /\ \E t \in rows, k \in Topics : call[q] = Call("remove", t, k)

PhaseInv == \A q \in Requests : Phase(q)

\* A call that may yet be carried out is one its request made and did not wait for.
Owed(q) ==
    /\ late[q] # "none" => pc[q] = "failed" \/ (pc[q] = "ok" /\ late[q] = "publishing")
    /\ late[q] = "registering" => \E t \in Tenants : call[q] = Call("create", t, NoTopic)
    /\ late[q] = "granting" => \E t \in rows, k \in Topics : call[q] = Call("add", t, k)
    /\ late[q] \in {"revoking", "publishing"} =>
           /\ victim[q] \in Topics
           /\ \E t \in rows, k \in Topics : call[q] = Call("remove", t, k)

LateInv == \A q \in Requests : Owed(q)

\* Registering first keeps logins apart: those of the rows, and those about to get one.
LoginInv ==
    /\ OneTenantPerLogin
    /\ \A t \in rows : LoginOf[t] \in users
    /\ \A q \in Requests : pc[q] = "inserting tenant" =>
           /\ LoginOf[call[q].tenant] \in users
           /\ \A t \in rows : LoginOf[t] # LoginOf[call[q].tenant]
    /\ \A q, r \in Requests :
           pc[q] = "inserting tenant" /\ pc[r] = "inserting tenant" /\ q # r
               => LoginOf[call[q].tenant] # LoginOf[call[r].tenant]

Accounted(t, k) == k \in acl[LoginOf[t]] \/ Removed(t, k)

\* What is or is about to be in tenant_channels may be read, or was removed meanwhile.
AccessInv ==
    /\ \A t \in rows : \A k \in subs[t] : Accounted(t, k)
    /\ \A t \in Tenants \ rows : subs[t] = {}
    /\ \A q \in Requests, t \in Tenants, k \in Topics :
           pc[q] = "inserting channel" /\ call[q] = Call("add", t, k) => Accounted(t, k)

ProvisioningInv == TypeOK /\ PhaseInv /\ LateInv /\ LoginInv /\ AccessInv

--------------------------------------------------------------------------------
(* Facts about calls *)

LEMMA CallIsTyped ==
    /\ \A t \in Tenants : Call("create", t, NoTopic) \in Calls
    /\ \A t \in Tenants, k \in Topics : Call("add", t, k) \in Calls /\ Call("remove", t, k) \in Calls
    /\ \A kind, t, k : Call(kind, t, k).tenant = t /\ Call(kind, t, k).topic = k
  BY DEF Call, Calls

\* What a running request works on.
LEMMA RunningRequest ==
    ASSUME TypeOK, PhaseInv, NEW q \in Requests, pc[q] \in CreateSteps \cup AddSteps \cup RemoveSteps
    PROVE  /\ call[q].tenant \in Tenants /\ LoginOf[call[q].tenant] \in Logins
           /\ pc[q] \notin CreateSteps => call[q].tenant \in rows /\ call[q].topic \in Topics
           /\ pc[q] \in RemoveSteps => /\ victim[q] \in Topics
                                       /\ call[q] = Call("remove", call[q].tenant, call[q].topic)
<1>1. rows \subseteq Tenants /\ \A t \in Tenants : LoginOf[t] \in Logins
  BY TenantAssumption DEF TypeOK
<1>2. CASE pc[q] \in CreateSteps
  <2>1. PICK t \in Tenants : call[q] = Call("create", t, NoTopic)
    BY <1>2 DEF PhaseInv, Phase
  <2>2. pc[q] \notin RemoveSteps
    BY <1>2 DEF CreateSteps, RemoveSteps
  <2> QED BY <1>1, <1>2, <2>1, <2>2, CallIsTyped
<1>3. CASE pc[q] \in AddSteps
  <2>1. PICK t \in rows, k \in Topics : call[q] = Call("add", t, k)
    BY <1>3 DEF PhaseInv, Phase
  <2>2. pc[q] \notin RemoveSteps
    BY <1>3 DEF AddSteps, RemoveSteps
  <2> QED BY <1>1, <2>1, <2>2, CallIsTyped
<1>4. CASE pc[q] \in RemoveSteps
  <2>1. PICK t \in rows, k \in Topics : call[q] = Call("remove", t, k)
    BY <1>4 DEF PhaseInv, Phase
  <2>2. victim[q] \in Topics
    BY <1>4 DEF PhaseInv, Phase
  <2> QED BY <1>1, <2>1, <2>2, CallIsTyped
<1> QED BY <1>2, <1>3, <1>4

\* What a late call does: it makes a user, or grants the topic of an add that failed, or
\* takes away the topic of a removal.
LEMMA LandingCall ==
    ASSUME TypeOK, LateInv, NEW q \in Requests, Land(q)
    PROVE  \/ acl' = acl /\ users \subseteq users' /\ users' \subseteq Logins
           \/ /\ users' = users /\ pc[q] = "failed"
              /\ \E u \in rows, c \in Topics :
                    /\ call[q] = Call("add", u, c)
                    /\ acl' = [acl EXCEPT ![LoginOf[u]] = @ \cup {c}]
           \/ /\ users' = users /\ pc[q] # "deleting" /\ victim[q] \in Topics
              /\ \E u \in rows, c \in Topics :
                    /\ call[q] = Call("remove", u, c)
                    /\ acl' = [acl EXCEPT ![LoginOf[u]] = @ \ {c}]
<1>1. Owed(q) /\ \A t \in Tenants : LoginOf[t] \in Logins
  BY TenantAssumption DEF LateInv
<1>2. CASE late[q] = "registering"
  <2>1. PICK t \in Tenants : call[q] = Call("create", t, NoTopic)
    BY <1>1, <1>2 DEF Owed
  <2>2. acl' = acl /\ users' = users \cup {LoginOf[t]}
    BY <1>2, <2>1, CallIsTyped DEF Land
  <2> QED BY <1>1, <2>2 DEF TypeOK
<1>3. CASE late[q] = "granting"
  <2>1. PICK u \in rows, c \in Topics : call[q] = Call("add", u, c)
    BY <1>1, <1>3 DEF Owed
  <2>2. users' = users /\ acl' = [acl EXCEPT ![LoginOf[u]] = @ \cup {c}]
    BY <1>3, <2>1, CallIsTyped DEF Land
  <2>3. pc[q] = "failed"
    BY <1>1, <1>3 DEF Owed
  <2> QED BY <2>1, <2>2, <2>3
<1>4. CASE late[q] = "revoking"
  <2>1. PICK u \in rows, c \in Topics : call[q] = Call("remove", u, c)
    BY <1>1, <1>4 DEF Owed
  <2>2. users' = users /\ acl' = [acl EXCEPT ![LoginOf[u]] = @ \ {c}]
    BY <1>4, <2>1, CallIsTyped DEF Land
  <2>3. pc[q] = "failed" /\ victim[q] \in Topics
    BY <1>1, <1>4 DEF Owed
  <2> QED BY <2>1, <2>2, <2>3
<1> QED BY <1>2, <1>3, <1>4 DEF Land

--------------------------------------------------------------------------------
(* Type correctness *)

LEMMA TypeStep == TypeOK /\ PhaseInv /\ LateInv /\ [Next]_vars => TypeOK'
<1> SUFFICES ASSUME TypeOK, PhaseInv, LateInv, [Next]_vars PROVE TypeOK'
  OBVIOUS
<1>1. ASSUME NEW q \in Requests, NEW t \in Tenants, Create(q, t) PROVE TypeOK'
  <2>1. call' \in [Requests -> Calls \cup {NoCall}]
    BY <1>1, CallIsTyped DEF Create, TypeOK
  <2>2. pc' \in [Requests -> Stages]
    BY <1>1 DEF Create, Goto, TypeOK, Stages, CreateSteps, AddSteps, RemoveSteps, Done
  <2> QED
    BY <1>1, <2>1, <2>2, Zenon DEF Create, TypeOK
<1>2. ASSUME NEW q \in Requests, Register(q) PROVE TypeOK'
  <2>1. pc[q] \in CreateSteps \cup AddSteps \cup RemoveSteps
    BY <1>2 DEF Register, CreateSteps, AddSteps, RemoveSteps
  <2>2. LoginOf[call[q].tenant] \in Logins /\ call[q].tenant \in Tenants
    BY <1>2, <2>1, RunningRequest
  <2>3. users' \subseteq Logins
    BY <1>2, <2>2 DEF Register, TypeOK
  <2>4. pc' \in [Requests -> Stages]
    BY <1>2 DEF Register, Goto, TypeOK, Stages, CreateSteps, AddSteps, RemoveSteps, Done
  <2> QED
    BY <1>2, <2>3, <2>4, Zenon DEF Register, TypeOK
<1>3. ASSUME NEW q \in Requests, RegisterFail(q) PROVE TypeOK'
  <2>1. late' \in [Requests -> Remote \cup {"none"}]
    BY <1>3 DEF RegisterFail, Leave, TypeOK, Remote
  <2>2. pc' \in [Requests -> Stages]
    BY <1>3 DEF RegisterFail, Leave, Goto, TypeOK, Stages, CreateSteps, AddSteps, RemoveSteps, Done
  <2> QED
    BY <1>3, <2>1, <2>2, Zenon DEF RegisterFail, TypeOK
<1>4. ASSUME NEW q \in Requests, InsertTenant(q) PROVE TypeOK'
  <2>1. pc[q] \in CreateSteps \cup AddSteps \cup RemoveSteps
    BY <1>4 DEF InsertTenant, CreateSteps, AddSteps, RemoveSteps
  <2>2. LoginOf[call[q].tenant] \in Logins /\ call[q].tenant \in Tenants
    BY <1>4, <2>1, RunningRequest
  <2>3. rows' \subseteq Tenants
    BY <1>4, <2>2 DEF InsertTenant, TypeOK
  <2>4. pc' \in [Requests -> Stages]
    BY <1>4 DEF InsertTenant, Goto, TypeOK, Stages, CreateSteps, AddSteps, RemoveSteps, Done
  <2> QED
    BY <1>4, <2>3, <2>4, Zenon DEF InsertTenant, TypeOK
<1>5. ASSUME NEW q \in Requests, InsertTenantFail(q) PROVE TypeOK'
  <2>1. pc[q] \in CreateSteps \cup AddSteps \cup RemoveSteps
    BY <1>5 DEF InsertTenantFail, CreateSteps, AddSteps, RemoveSteps
  <2>2. LoginOf[call[q].tenant] \in Logins /\ call[q].tenant \in Tenants
    BY <1>5, <2>1, RunningRequest
  <2>3. rows' \subseteq Tenants
    BY <1>5, <2>2 DEF InsertTenantFail, TypeOK
  <2>4. pc' \in [Requests -> Stages]
    BY <1>5 DEF InsertTenantFail, Goto, TypeOK, Stages, CreateSteps, AddSteps, RemoveSteps, Done
  <2> QED
    BY <1>5, <2>3, <2>4, Zenon DEF InsertTenantFail, TypeOK
<1>6. ASSUME NEW q \in Requests, NEW t \in Tenants, NEW k \in Topics, Add(q, t, k) PROVE TypeOK'
  <2>1. call' \in [Requests -> Calls \cup {NoCall}]
    BY <1>6, CallIsTyped DEF Add, TypeOK
  <2>2. pc' \in [Requests -> Stages]
    BY <1>6 DEF Add, Goto, TypeOK, Stages, CreateSteps, AddSteps, RemoveSteps, Done
  <2> QED
    BY <1>6, <2>1, <2>2, Zenon DEF Add, TypeOK
<1>7. ASSUME NEW q \in Requests, Grant(q) PROVE TypeOK'
  <2>1. pc[q] \in CreateSteps \cup AddSteps \cup RemoveSteps
    BY <1>7 DEF Grant, CreateSteps, AddSteps, RemoveSteps
  <2>2. LoginOf[call[q].tenant] \in Logins /\ call[q].tenant \in Tenants /\ call[q].topic \in Topics
    BY <1>7, <2>1, RunningRequest DEF Grant, CreateSteps
  <2>3. acl' \in [Logins -> SUBSET Topics]
    BY <1>7, <2>2 DEF Grant, TypeOK
  <2>4. pc' \in [Requests -> Stages]
    BY <1>7 DEF Grant, Goto, TypeOK, Stages, CreateSteps, AddSteps, RemoveSteps, Done
  <2> QED
    BY <1>7, <2>3, <2>4, Zenon DEF Grant, TypeOK
<1>8. ASSUME NEW q \in Requests, GrantFail(q) PROVE TypeOK'
  <2>1. late' \in [Requests -> Remote \cup {"none"}]
    BY <1>8 DEF GrantFail, Leave, TypeOK, Remote
  <2>2. pc' \in [Requests -> Stages]
    BY <1>8 DEF GrantFail, Leave, Goto, TypeOK, Stages, CreateSteps, AddSteps, RemoveSteps, Done
  <2> QED
    BY <1>8, <2>1, <2>2, Zenon DEF GrantFail, TypeOK
<1>9. ASSUME NEW q \in Requests, InsertChannel(q) PROVE TypeOK'
  <2>1. pc[q] \in CreateSteps \cup AddSteps \cup RemoveSteps
    BY <1>9 DEF InsertChannel, CreateSteps, AddSteps, RemoveSteps
  <2>2. LoginOf[call[q].tenant] \in Logins /\ call[q].tenant \in Tenants /\ call[q].topic \in Topics
    BY <1>9, <2>1, RunningRequest DEF InsertChannel, CreateSteps
  <2>3. subs' \in [Tenants -> SUBSET Topics]
    BY <1>9, <2>2 DEF InsertChannel, TypeOK
  <2>4. pc' \in [Requests -> Stages]
    BY <1>9 DEF InsertChannel, Goto, TypeOK, Stages, CreateSteps, AddSteps, RemoveSteps, Done
  <2> QED
    BY <1>9, <2>3, <2>4, Zenon DEF InsertChannel, TypeOK
<1>10. ASSUME NEW q \in Requests, InsertChannelFail(q) PROVE TypeOK'
  <2>1. pc[q] \in CreateSteps \cup AddSteps \cup RemoveSteps
    BY <1>10 DEF InsertChannelFail, CreateSteps, AddSteps, RemoveSteps
  <2>2. LoginOf[call[q].tenant] \in Logins /\ call[q].tenant \in Tenants /\ call[q].topic \in Topics
    BY <1>10, <2>1, RunningRequest DEF InsertChannelFail, CreateSteps
  <2>3. subs' \in [Tenants -> SUBSET Topics]
    <3>1. \/ subs' = subs
          \/ subs' = [subs EXCEPT ![call[q].tenant] = @ \cup {call[q].topic}]
      BY <1>10 DEF InsertChannelFail
    <3> QED BY <2>2, <3>1 DEF TypeOK
  <2>4. pc' \in [Requests -> Stages]
    BY <1>10 DEF InsertChannelFail, Goto, TypeOK, Stages, CreateSteps, AddSteps, RemoveSteps, Done
  <2> QED
    BY <1>10, <2>3, <2>4, Zenon DEF InsertChannelFail, TypeOK
<1>11. ASSUME NEW q \in Requests, NEW t \in Tenants, NEW k \in Topics, Remove(q, t, k) PROVE TypeOK'
  <2>1. call' \in [Requests -> Calls \cup {NoCall}]
    BY <1>11, CallIsTyped DEF Remove, TypeOK
  <2>2. pc' \in [Requests -> Stages]
    BY <1>11 DEF Remove, Goto, TypeOK, Stages, CreateSteps, AddSteps, RemoveSteps, Done
  <2>3. loaded' \in [Requests -> SUBSET Topics]
    BY <1>11 DEF Remove, TypeOK
  <2>4. victim' \in [Requests -> Topics \cup {NoTopic}]
    BY <1>11 DEF Remove, TypeOK
  <2> QED
    BY <1>11, <2>1, <2>2, <2>3, <2>4, Zenon DEF Remove, TypeOK
<1>12. ASSUME NEW q \in Requests, Delete(q) PROVE TypeOK'
  <2>1. pc[q] \in CreateSteps \cup AddSteps \cup RemoveSteps
    BY <1>12 DEF Delete, CreateSteps, AddSteps, RemoveSteps
  <2>2. LoginOf[call[q].tenant] \in Logins /\ call[q].tenant \in Tenants /\ call[q].topic \in Topics
    BY <1>12, <2>1, RunningRequest DEF Delete, CreateSteps
  <2>3. subs' \in [Tenants -> SUBSET Topics]
    BY <1>12, <2>2 DEF Delete, TypeOK
  <2>4. pc' \in [Requests -> Stages]
    BY <1>12 DEF Delete, Goto, TypeOK, Stages, CreateSteps, AddSteps, RemoveSteps, Done
  <2> QED
    BY <1>12, <2>3, <2>4, Zenon DEF Delete, TypeOK
<1>13. ASSUME NEW q \in Requests, DeleteFail(q) PROVE TypeOK'
  <2>1. pc[q] \in CreateSteps \cup AddSteps \cup RemoveSteps
    BY <1>13 DEF DeleteFail, CreateSteps, AddSteps, RemoveSteps
  <2>2. LoginOf[call[q].tenant] \in Logins /\ call[q].tenant \in Tenants /\ call[q].topic \in Topics
    BY <1>13, <2>1, RunningRequest DEF DeleteFail, CreateSteps
  <2>3. subs' \in [Tenants -> SUBSET Topics]
    BY <1>13, <2>2 DEF DeleteFail, TypeOK
  <2>4. pc' \in [Requests -> Stages]
    BY <1>13 DEF DeleteFail, Goto, TypeOK, Stages, CreateSteps, AddSteps, RemoveSteps, Done
  <2> QED
    BY <1>13, <2>3, <2>4, Zenon DEF DeleteFail, TypeOK
<1>14. ASSUME NEW q \in Requests, Revoke(q) PROVE TypeOK'
  <2>1. pc[q] \in CreateSteps \cup AddSteps \cup RemoveSteps
    BY <1>14 DEF Revoke, CreateSteps, AddSteps, RemoveSteps
  <2>2. LoginOf[call[q].tenant] \in Logins /\ call[q].tenant \in Tenants /\ call[q].topic \in Topics
    BY <1>14, <2>1, RunningRequest DEF Revoke, CreateSteps
  <2>3. acl' \in [Logins -> SUBSET Topics]
    BY <1>14, <2>2 DEF Revoke, TypeOK
  <2>4. pc' \in [Requests -> Stages]
    BY <1>14 DEF Revoke, Goto, TypeOK, Stages, CreateSteps, AddSteps, RemoveSteps, Done
  <2> QED
    BY <1>14, <2>3, <2>4, Zenon DEF Revoke, TypeOK
<1>15. ASSUME NEW q \in Requests, RevokeFail(q) PROVE TypeOK'
  <2>1. late' \in [Requests -> Remote \cup {"none"}]
    BY <1>15 DEF RevokeFail, Leave, TypeOK, Remote
  <2>2. pc' \in [Requests -> Stages]
    BY <1>15 DEF RevokeFail, Leave, Goto, TypeOK, Stages, CreateSteps, AddSteps, RemoveSteps, Done
  <2> QED
    BY <1>15, <2>1, <2>2, Zenon DEF RevokeFail, TypeOK
<1>16. ASSUME NEW q \in Requests, Publish(q) PROVE TypeOK'
  <2>1. pc[q] \in CreateSteps \cup AddSteps \cup RemoveSteps
    BY <1>16 DEF Publish, CreateSteps, AddSteps, RemoveSteps
  <2>2. LoginOf[call[q].tenant] \in Logins /\ call[q].tenant \in Tenants
    BY <1>16, <2>1, RunningRequest
  <2>3. log' \in Seq(Announcements)
    BY <1>16, <2>2 DEF Publish, TypeOK, Announcement, Announcements
  <2>4. pc' \in [Requests -> Stages]
    BY <1>16 DEF Publish, Leave, Goto, TypeOK, Stages, CreateSteps, AddSteps, RemoveSteps, Done
  <2>5. late' \in [Requests -> Remote \cup {"none"}]
    BY <1>16 DEF Publish, Leave, TypeOK, Remote
  <2> QED
    BY <1>16, <2>3, <2>4, <2>5, Zenon DEF Publish, TypeOK
<1>17. ASSUME NEW q \in Requests, PublishFail(q) PROVE TypeOK'
  <2>1. late' \in [Requests -> Remote \cup {"none"}]
    BY <1>17 DEF PublishFail, Leave, TypeOK, Remote
  <2>2. pc' \in [Requests -> Stages]
    BY <1>17 DEF PublishFail, Leave, Goto, TypeOK, Stages, CreateSteps, AddSteps, RemoveSteps, Done
  <2> QED
    BY <1>17, <2>1, <2>2, Zenon DEF PublishFail, TypeOK
<1>18. ASSUME NEW q \in Requests, Abandon(q) PROVE TypeOK'
  <2>1. pc' \in [Requests -> Stages]
    BY <1>18 DEF Abandon, Goto, TypeOK, Stages, CreateSteps, AddSteps, RemoveSteps, Done
  <2> QED
    BY <1>18, <2>1, Zenon DEF Abandon, TypeOK
<1>19. ASSUME NEW q \in Requests, Land(q) PROVE TypeOK'
  <2>1. users' \subseteq Logins
    BY <1>19, LandingCall DEF TypeOK
  <2>2. acl' \in [Logins -> SUBSET Topics]
    <3>1. \/ acl' = acl
          \/ \E u \in rows, c \in Topics : acl' = [acl EXCEPT ![LoginOf[u]] = @ \cup {c}]
          \/ \E u \in rows, c \in Topics : acl' = [acl EXCEPT ![LoginOf[u]] = @ \ {c}]
      BY <1>19, LandingCall
    <3> QED BY <3>1 DEF TypeOK
  <2>3. late' \in [Requests -> Remote \cup {"none"}]
    BY <1>19 DEF Land, TypeOK
  <2> QED
    BY <1>19, <2>1, <2>2, <2>3, Zenon DEF Land, TypeOK
<1>20. ASSUME NEW q \in Requests, Resend(q) PROVE TypeOK'
  <2>1. PICK u \in rows, c \in Topics : call[q] = Call("remove", u, c)
    <3>1. CASE pc[q] = "publishing"
      BY <3>1 DEF PhaseInv, Phase, RemoveSteps
    <3>2. CASE late[q] = "publishing"
      BY <3>2 DEF LateInv, Owed
    <3> QED BY <1>20, <3>1, <3>2 DEF Resend
  <2>2. call[q].tenant \in Tenants
    BY <2>1, CallIsTyped DEF TypeOK
  <2>3. log' \in Seq(Announcements)
    BY <1>20, <2>2 DEF Resend, TypeOK, Announcement, Announcements
  <2> QED
    BY <1>20, <2>3, Zenon DEF Resend, TypeOK
<1>21. CASE UNCHANGED vars
  BY <1>21 DEF vars, TypeOK
<1> QED
  BY <1>1, <1>2, <1>3, <1>4, <1>5, <1>6, <1>7, <1>8, <1>9, <1>10,
     <1>11, <1>12, <1>13, <1>14, <1>15, <1>16, <1>17, <1>18, <1>19, <1>20, <1>21 DEF Next

--------------------------------------------------------------------------------
(* Stages *)

LEMMA PhaseStep == TypeOK /\ PhaseInv /\ [Next]_vars => PhaseInv'
<1> SUFFICES ASSUME TypeOK, PhaseInv, [Next]_vars PROVE PhaseInv'
  OBVIOUS
<1> USE DEF CreateSteps, AddSteps, RemoveSteps, Done
<1>1. ASSUME NEW q \in Requests, NEW t \in Tenants, Create(q, t) PROVE PhaseInv'
  BY <1>1 DEF Create, Goto, TypeOK, PhaseInv, Phase
<1>2. ASSUME NEW q \in Requests, Register(q) PROVE PhaseInv'
  BY <1>2 DEF Register, Goto, TypeOK, PhaseInv, Phase
<1>3. ASSUME NEW q \in Requests, RegisterFail(q) PROVE PhaseInv'
  BY <1>3 DEF RegisterFail, Leave, Goto, TypeOK, PhaseInv, Phase
<1>4. ASSUME NEW q \in Requests, InsertTenant(q) PROVE PhaseInv'
  BY <1>4 DEF InsertTenant, Goto, TypeOK, PhaseInv, Phase
<1>5. ASSUME NEW q \in Requests, InsertTenantFail(q) PROVE PhaseInv'
  BY <1>5 DEF InsertTenantFail, Goto, TypeOK, PhaseInv, Phase
<1>6. ASSUME NEW q \in Requests, NEW t \in Tenants, NEW k \in Topics, Add(q, t, k) PROVE PhaseInv'
  BY <1>6 DEF Add, Goto, TypeOK, PhaseInv, Phase
<1>7. ASSUME NEW q \in Requests, Grant(q) PROVE PhaseInv'
  BY <1>7 DEF Grant, Goto, TypeOK, PhaseInv, Phase
<1>8. ASSUME NEW q \in Requests, GrantFail(q) PROVE PhaseInv'
  BY <1>8 DEF GrantFail, Leave, Goto, TypeOK, PhaseInv, Phase
<1>9. ASSUME NEW q \in Requests, InsertChannel(q) PROVE PhaseInv'
  BY <1>9 DEF InsertChannel, Goto, TypeOK, PhaseInv, Phase
<1>10. ASSUME NEW q \in Requests, InsertChannelFail(q) PROVE PhaseInv'
  BY <1>10 DEF InsertChannelFail, Goto, TypeOK, PhaseInv, Phase
<1>11. ASSUME NEW q \in Requests, NEW t \in Tenants, NEW k \in Topics, Remove(q, t, k) PROVE PhaseInv'
  <2>1. /\ call' = [call EXCEPT ![q] = Call("remove", t, k)] /\ rows' = rows
        /\ \A r \in Requests \ {q} : pc'[r] = pc[r] /\ victim'[r] = victim[r] /\ call'[r] = call[r]
    BY <1>11 DEF Remove, Goto, TypeOK
  <2>2. \/ pc'[q] = "refused"
        \/ pc'[q] = "deleting" /\ t \in rows /\ victim'[q] \in subs[t]
    BY <1>11 DEF Remove, Goto, TypeOK
  <2>3. Phase(q)'
    BY <2>1, <2>2 DEF TypeOK, Phase
  <2>4. ASSUME NEW r \in Requests \ {q} PROVE Phase(r)'
    <3>1. pc'[r] = pc[r] /\ victim'[r] = victim[r] /\ call'[r] = call[r] /\ rows' = rows
      BY <2>1
    <3>2. Phase(r)
      BY DEF PhaseInv
    <3> QED BY <3>1, <3>2 DEF Phase
  <2> QED BY <2>3, <2>4 DEF PhaseInv
<1>12. ASSUME NEW q \in Requests, Delete(q) PROVE PhaseInv'
  BY <1>12 DEF Delete, Goto, TypeOK, PhaseInv, Phase
<1>13. ASSUME NEW q \in Requests, DeleteFail(q) PROVE PhaseInv'
  BY <1>13 DEF DeleteFail, Goto, TypeOK, PhaseInv, Phase
<1>14. ASSUME NEW q \in Requests, Revoke(q) PROVE PhaseInv'
  BY <1>14 DEF Revoke, Goto, TypeOK, PhaseInv, Phase
<1>15. ASSUME NEW q \in Requests, RevokeFail(q) PROVE PhaseInv'
  BY <1>15 DEF RevokeFail, Leave, Goto, TypeOK, PhaseInv, Phase
<1>16. ASSUME NEW q \in Requests, Publish(q) PROVE PhaseInv'
  BY <1>16 DEF Publish, Leave, Goto, TypeOK, PhaseInv, Phase
<1>17. ASSUME NEW q \in Requests, PublishFail(q) PROVE PhaseInv'
  BY <1>17 DEF PublishFail, Leave, Goto, TypeOK, PhaseInv, Phase
<1>18. ASSUME NEW q \in Requests, Abandon(q) PROVE PhaseInv'
  BY <1>18 DEF Abandon, Goto, TypeOK, PhaseInv, Phase
<1>19. ASSUME NEW q \in Requests, Land(q) PROVE PhaseInv'
  BY <1>19 DEF Land, PhaseInv, Phase
<1>20. ASSUME NEW q \in Requests, Resend(q) PROVE PhaseInv'
  BY <1>20 DEF Resend, PhaseInv, Phase
<1>21. CASE UNCHANGED vars
  BY <1>21 DEF vars, PhaseInv, Phase
<1> QED
  BY <1>1, <1>2, <1>3, <1>4, <1>5, <1>6, <1>7, <1>8, <1>9, <1>10,
     <1>11, <1>12, <1>13, <1>14, <1>15, <1>16, <1>17, <1>18, <1>19, <1>20, <1>21 DEF Next

--------------------------------------------------------------------------------
(* Logins *)

\* A step that adds no tenant row and brings no request to its insert.
LEMMA LoginFrame ==
    ASSUME LoginInv, rows' = rows, users \subseteq users',
           \A q \in Requests :
               pc'[q] = "inserting tenant" => pc[q] = "inserting tenant" /\ call'[q] = call[q]
    PROVE  LoginInv'
  BY DEF LoginInv, OneTenantPerLogin

\* Register: the login was free.
LEMMA LoginRegister ==
    ASSUME TypeOK, LoginInv, NEW q \in Requests, Register(q)
    PROVE  LoginInv'
<1>1. /\ LoginOf[call[q].tenant] \notin users
      /\ users' = users \cup {LoginOf[call[q].tenant]}
      /\ rows' = rows /\ call' = call
      /\ pc' = [pc EXCEPT ![q] = "inserting tenant"] /\ pc \in [Requests -> Stages]
  BY DEF Register, Goto, TypeOK
<1>2. \A r \in Requests : r # q /\ pc'[r] = "inserting tenant" => pc[r] = "inserting tenant"
  BY <1>1
<1>3. OneTenantPerLogin' /\ \A t \in rows : LoginOf[t] \in users /\ LoginOf[t] \in users'
  BY <1>1 DEF LoginInv, OneTenantPerLogin
<1>4. ASSUME NEW r \in Requests, pc'[r] = "inserting tenant"
      PROVE  /\ LoginOf[call[r].tenant] \in users'
             /\ \A t \in rows : LoginOf[t] # LoginOf[call[r].tenant]
  <2>1. CASE r = q
    BY <1>1, <1>3, <2>1
  <2>2. CASE r # q
    BY <1>1, <1>2, <1>4, <2>2 DEF LoginInv
  <2> QED BY <2>1, <2>2
<1>5. ASSUME NEW r \in Requests, NEW p \in Requests,
             pc'[r] = "inserting tenant", pc'[p] = "inserting tenant", r # p
      PROVE  LoginOf[call[r].tenant] # LoginOf[call[p].tenant]
  <2>1. CASE r # q /\ p # q
    BY <1>2, <1>5, <2>1 DEF LoginInv
  <2>2. CASE r = q
    <3>1. LoginOf[call[p].tenant] \in users
      BY <1>2, <1>5, <2>2 DEF LoginInv
    <3> QED BY <1>1, <2>2, <3>1
  <2>3. CASE p = q
    <3>1. LoginOf[call[r].tenant] \in users
      BY <1>2, <1>5, <2>3 DEF LoginInv
    <3> QED BY <1>1, <2>3, <3>1
  <2> QED BY <2>1, <2>2, <2>3
<1> QED BY <1>1, <1>3, <1>4, <1>5 DEF LoginInv

\* The insert, whether or not its answer arrives: the request gives its login to the row.
LEMMA LoginInsert ==
    ASSUME TypeOK, LoginInv, NEW q \in Requests, pc[q] = "inserting tenant",
           rows' = rows \cup {call[q].tenant}, users' = users, call' = call,
           NEW stage \in Done, pc' = [pc EXCEPT ![q] = stage]
    PROVE  LoginInv'
<1>1. \A r \in Requests : pc'[r] = "inserting tenant" => pc[r] = "inserting tenant" /\ r # q
  BY DEF TypeOK, Done
<1>2. /\ LoginOf[call[q].tenant] \in users
      /\ \A t \in rows : LoginOf[t] # LoginOf[call[q].tenant]
  BY DEF LoginInv
<1>3. OneTenantPerLogin'
  BY <1>2 DEF LoginInv, OneTenantPerLogin
<1>4. \A t \in rows' : LoginOf[t] \in users
  BY <1>2 DEF LoginInv
<1>5. ASSUME NEW r \in Requests, pc'[r] = "inserting tenant"
      PROVE  /\ LoginOf[call[r].tenant] \in users
             /\ \A t \in rows' : LoginOf[t] # LoginOf[call[r].tenant]
  <2>1. pc[r] = "inserting tenant" /\ r # q
    BY <1>1, <1>5
  <2>2. LoginOf[call[q].tenant] # LoginOf[call[r].tenant]
    BY <2>1 DEF LoginInv
  <2> QED BY <2>1, <2>2 DEF LoginInv
<1>6. \A r, p \in Requests :
          pc'[r] = "inserting tenant" /\ pc'[p] = "inserting tenant" /\ r # p
              => LoginOf[call[r].tenant] # LoginOf[call[p].tenant]
  BY <1>1 DEF LoginInv
<1> QED BY <1>3, <1>4, <1>5, <1>6 DEF LoginInv

LEMMA LoginStep == TypeOK /\ PhaseInv /\ LateInv /\ LoginInv /\ [Next]_vars => LoginInv'
<1> SUFFICES ASSUME TypeOK, PhaseInv, LateInv, LoginInv, [Next]_vars PROVE LoginInv'
  OBVIOUS
<1>1. ASSUME NEW q \in Requests, NEW t \in Tenants, Create(q, t) PROVE LoginInv'
  <2>1. /\ rows' = rows /\ users \subseteq users'
        /\ \A r \in Requests : pc'[r] = "inserting tenant" => pc[r] = "inserting tenant" /\ call'[r] = call[r]
    BY <1>1 DEF Create, Goto, TypeOK
  <2> QED BY <2>1, LoginFrame
<1>2. ASSUME NEW q \in Requests, Register(q) PROVE LoginInv'
  BY <1>2, LoginRegister
<1>3. ASSUME NEW q \in Requests, RegisterFail(q) PROVE LoginInv'
  <2>1. /\ rows' = rows /\ users \subseteq users'
        /\ \A r \in Requests : pc'[r] = "inserting tenant" => pc[r] = "inserting tenant" /\ call'[r] = call[r]
    BY <1>3 DEF RegisterFail, Leave, Goto, TypeOK
  <2> QED BY <2>1, LoginFrame
<1>4. ASSUME NEW q \in Requests, InsertTenant(q) PROVE LoginInv'
  <2>1. /\ pc[q] = "inserting tenant" /\ rows' = rows \cup {call[q].tenant} /\ users' = users
        /\ call' = call /\ pc' = [pc EXCEPT ![q] = "ok"] /\ "ok" \in Done
    BY <1>4 DEF InsertTenant, Goto, Done
  <2> QED BY <2>1, LoginInsert
<1>5. ASSUME NEW q \in Requests, InsertTenantFail(q) PROVE LoginInv'
  <2>1. CASE rows' = rows
    <3>1. /\ users' = users
          /\ \A r \in Requests :
                 pc'[r] = "inserting tenant" => pc[r] = "inserting tenant" /\ call'[r] = call[r]
      BY <1>5 DEF InsertTenantFail, Goto, TypeOK
    <3> QED BY <2>1, <3>1, LoginFrame
  <2>2. CASE rows' = rows \cup {call[q].tenant}
    <3>1. /\ pc[q] = "inserting tenant" /\ users' = users
          /\ call' = call /\ pc' = [pc EXCEPT ![q] = "failed"] /\ "failed" \in Done
      BY <1>5 DEF InsertTenantFail, Goto, Done
    <3> QED BY <2>2, <3>1, LoginInsert
  <2> QED BY <1>5, <2>1, <2>2 DEF InsertTenantFail
<1>6. ASSUME NEW q \in Requests, NEW t \in Tenants, NEW k \in Topics, Add(q, t, k) PROVE LoginInv'
  <2>1. /\ rows' = rows /\ users \subseteq users'
        /\ \A r \in Requests : pc'[r] = "inserting tenant" => pc[r] = "inserting tenant" /\ call'[r] = call[r]
    BY <1>6 DEF Add, Goto, TypeOK
  <2> QED BY <2>1, LoginFrame
<1>7. ASSUME NEW q \in Requests, Grant(q) PROVE LoginInv'
  <2>1. /\ rows' = rows /\ users \subseteq users'
        /\ \A r \in Requests : pc'[r] = "inserting tenant" => pc[r] = "inserting tenant" /\ call'[r] = call[r]
    BY <1>7 DEF Grant, Goto, TypeOK
  <2> QED BY <2>1, LoginFrame
<1>8. ASSUME NEW q \in Requests, GrantFail(q) PROVE LoginInv'
  <2>1. /\ rows' = rows /\ users \subseteq users'
        /\ \A r \in Requests : pc'[r] = "inserting tenant" => pc[r] = "inserting tenant" /\ call'[r] = call[r]
    BY <1>8 DEF GrantFail, Leave, Goto, TypeOK
  <2> QED BY <2>1, LoginFrame
<1>9. ASSUME NEW q \in Requests, InsertChannel(q) PROVE LoginInv'
  <2>1. /\ rows' = rows /\ users \subseteq users'
        /\ \A r \in Requests : pc'[r] = "inserting tenant" => pc[r] = "inserting tenant" /\ call'[r] = call[r]
    BY <1>9 DEF InsertChannel, Goto, TypeOK
  <2> QED BY <2>1, LoginFrame
<1>10. ASSUME NEW q \in Requests, InsertChannelFail(q) PROVE LoginInv'
  <2>1. /\ rows' = rows /\ users \subseteq users'
        /\ \A r \in Requests : pc'[r] = "inserting tenant" => pc[r] = "inserting tenant" /\ call'[r] = call[r]
    BY <1>10 DEF InsertChannelFail, Goto, TypeOK
  <2> QED BY <2>1, LoginFrame
<1>11. ASSUME NEW q \in Requests, NEW t \in Tenants, NEW k \in Topics, Remove(q, t, k) PROVE LoginInv'
  <2>1. /\ rows' = rows /\ users \subseteq users'
        /\ \A r \in Requests : pc'[r] = "inserting tenant" => pc[r] = "inserting tenant" /\ call'[r] = call[r]
    BY <1>11 DEF Remove, Goto, TypeOK
  <2> QED BY <2>1, LoginFrame
<1>12. ASSUME NEW q \in Requests, Delete(q) PROVE LoginInv'
  <2>1. /\ rows' = rows /\ users \subseteq users'
        /\ \A r \in Requests : pc'[r] = "inserting tenant" => pc[r] = "inserting tenant" /\ call'[r] = call[r]
    BY <1>12 DEF Delete, Goto, TypeOK
  <2> QED BY <2>1, LoginFrame
<1>13. ASSUME NEW q \in Requests, DeleteFail(q) PROVE LoginInv'
  <2>1. /\ rows' = rows /\ users \subseteq users'
        /\ \A r \in Requests : pc'[r] = "inserting tenant" => pc[r] = "inserting tenant" /\ call'[r] = call[r]
    BY <1>13 DEF DeleteFail, Goto, TypeOK
  <2> QED BY <2>1, LoginFrame
<1>14. ASSUME NEW q \in Requests, Revoke(q) PROVE LoginInv'
  <2>1. /\ rows' = rows /\ users \subseteq users'
        /\ \A r \in Requests : pc'[r] = "inserting tenant" => pc[r] = "inserting tenant" /\ call'[r] = call[r]
    BY <1>14 DEF Revoke, Goto, TypeOK
  <2> QED BY <2>1, LoginFrame
<1>15. ASSUME NEW q \in Requests, RevokeFail(q) PROVE LoginInv'
  <2>1. /\ rows' = rows /\ users \subseteq users'
        /\ \A r \in Requests : pc'[r] = "inserting tenant" => pc[r] = "inserting tenant" /\ call'[r] = call[r]
    BY <1>15 DEF RevokeFail, Leave, Goto, TypeOK
  <2> QED BY <2>1, LoginFrame
<1>16. ASSUME NEW q \in Requests, Publish(q) PROVE LoginInv'
  <2>1. /\ rows' = rows /\ users \subseteq users'
        /\ \A r \in Requests : pc'[r] = "inserting tenant" => pc[r] = "inserting tenant" /\ call'[r] = call[r]
    BY <1>16 DEF Publish, Leave, Goto, TypeOK
  <2> QED BY <2>1, LoginFrame
<1>17. ASSUME NEW q \in Requests, PublishFail(q) PROVE LoginInv'
  <2>1. /\ rows' = rows /\ users \subseteq users'
        /\ \A r \in Requests : pc'[r] = "inserting tenant" => pc[r] = "inserting tenant" /\ call'[r] = call[r]
    BY <1>17 DEF PublishFail, Leave, Goto, TypeOK
  <2> QED BY <2>1, LoginFrame
<1>18. ASSUME NEW q \in Requests, Abandon(q) PROVE LoginInv'
  <2>1. /\ rows' = rows /\ users \subseteq users'
        /\ \A r \in Requests : pc'[r] = "inserting tenant" => pc[r] = "inserting tenant" /\ call'[r] = call[r]
    BY <1>18 DEF Abandon, Goto, TypeOK
  <2> QED BY <2>1, LoginFrame
<1>19. ASSUME NEW q \in Requests, Land(q) PROVE LoginInv'
  <2>1. users \subseteq users'
    BY <1>19, LandingCall
  <2>2. rows' = rows /\ pc' = pc /\ call' = call
    BY <1>19 DEF Land
  <2> QED BY <2>1, <2>2, LoginFrame
<1>20. ASSUME NEW q \in Requests, Resend(q) PROVE LoginInv'
  BY <1>20, LoginFrame DEF Resend
<1>21. CASE UNCHANGED vars
  BY <1>21, LoginFrame DEF vars
<1> QED
  BY <1>1, <1>2, <1>3, <1>4, <1>5, <1>6, <1>7, <1>8, <1>9, <1>10,
     <1>11, <1>12, <1>13, <1>14, <1>15, <1>16, <1>17, <1>18, <1>19, <1>20, <1>21 DEF Next

--------------------------------------------------------------------------------
(* What a request keeps *)

\* A request keeps its call and its victim, and never starts to delete again.
Remembered ==
    \A r \in Requests :
        call[r] # NoCall =>
            /\ call'[r] = call[r]
            /\ victim[r] # NoTopic => victim'[r] = victim[r]
            /\ pc'[r] = "deleting" => pc[r] = "deleting"

LEMMA CallsAreRemembered == TypeOK /\ PhaseInv /\ [Next]_vars => Remembered
<1> SUFFICES ASSUME TypeOK, PhaseInv, [Next]_vars PROVE Remembered
  OBVIOUS
<1>0. \A q \in Requests : pc[q] = "idle" => call[q] = NoCall
  BY DEF PhaseInv, Phase
<1>1. ASSUME NEW q \in Requests, NEW t \in Tenants, Create(q, t) PROVE Remembered
  BY <1>0, <1>1 DEF Create, Goto, TypeOK, Remembered
<1>2. ASSUME NEW q \in Requests, Register(q) PROVE Remembered
  BY <1>0, <1>2 DEF Register, Goto, TypeOK, Remembered
<1>3. ASSUME NEW q \in Requests, RegisterFail(q) PROVE Remembered
  BY <1>0, <1>3 DEF RegisterFail, Leave, Goto, TypeOK, Remembered
<1>4. ASSUME NEW q \in Requests, InsertTenant(q) PROVE Remembered
  BY <1>0, <1>4 DEF InsertTenant, Goto, TypeOK, Remembered
<1>5. ASSUME NEW q \in Requests, InsertTenantFail(q) PROVE Remembered
  BY <1>0, <1>5 DEF InsertTenantFail, Goto, TypeOK, Remembered
<1>6. ASSUME NEW q \in Requests, NEW t \in Tenants, NEW k \in Topics, Add(q, t, k) PROVE Remembered
  BY <1>0, <1>6 DEF Add, Goto, TypeOK, Remembered
<1>7. ASSUME NEW q \in Requests, Grant(q) PROVE Remembered
  BY <1>0, <1>7 DEF Grant, Goto, TypeOK, Remembered
<1>8. ASSUME NEW q \in Requests, GrantFail(q) PROVE Remembered
  BY <1>0, <1>8 DEF GrantFail, Leave, Goto, TypeOK, Remembered
<1>9. ASSUME NEW q \in Requests, InsertChannel(q) PROVE Remembered
  BY <1>0, <1>9 DEF InsertChannel, Goto, TypeOK, Remembered
<1>10. ASSUME NEW q \in Requests, InsertChannelFail(q) PROVE Remembered
  BY <1>0, <1>10 DEF InsertChannelFail, Goto, TypeOK, Remembered
<1>11. ASSUME NEW q \in Requests, NEW t \in Tenants, NEW k \in Topics, Remove(q, t, k) PROVE Remembered
  BY <1>0, <1>11 DEF Remove, Goto, TypeOK, Remembered
<1>12. ASSUME NEW q \in Requests, Delete(q) PROVE Remembered
  BY <1>0, <1>12 DEF Delete, Goto, TypeOK, Remembered
<1>13. ASSUME NEW q \in Requests, DeleteFail(q) PROVE Remembered
  BY <1>0, <1>13 DEF DeleteFail, Goto, TypeOK, Remembered
<1>14. ASSUME NEW q \in Requests, Revoke(q) PROVE Remembered
  BY <1>0, <1>14 DEF Revoke, Goto, TypeOK, Remembered
<1>15. ASSUME NEW q \in Requests, RevokeFail(q) PROVE Remembered
  BY <1>0, <1>15 DEF RevokeFail, Leave, Goto, TypeOK, Remembered
<1>16. ASSUME NEW q \in Requests, Publish(q) PROVE Remembered
  BY <1>0, <1>16 DEF Publish, Leave, Goto, TypeOK, Remembered
<1>17. ASSUME NEW q \in Requests, PublishFail(q) PROVE Remembered
  BY <1>0, <1>17 DEF PublishFail, Leave, Goto, TypeOK, Remembered
<1>18. ASSUME NEW q \in Requests, Abandon(q) PROVE Remembered
  BY <1>0, <1>18 DEF Abandon, Goto, TypeOK, Remembered
<1>19. ASSUME NEW q \in Requests, Land(q) PROVE Remembered
  BY <1>19 DEF Land, Remembered
<1>20. ASSUME NEW q \in Requests, Resend(q) PROVE Remembered
  BY <1>20 DEF Resend, Remembered
<1>21. CASE UNCHANGED vars
  BY <1>21 DEF vars, Remembered
<1> QED
  BY <1>1, <1>2, <1>3, <1>4, <1>5, <1>6, <1>7, <1>8, <1>9, <1>10,
     <1>11, <1>12, <1>13, <1>14, <1>15, <1>16, <1>17, <1>18, <1>19, <1>20, <1>21 DEF Next

--------------------------------------------------------------------------------
(* Late calls *)

\* A step that leaves no call behind.
LEMMA LateFrame ==
    ASSUME TypeOK, LateInv, Remembered, rows \subseteq rows',
           \A r \in Requests : late'[r] = late[r] \/ late'[r] = "none",
           \A r \in Requests : pc[r] \in {"ok", "failed"} => pc'[r] = pc[r]
    PROVE  LateInv'
<1> SUFFICES ASSUME NEW r \in Requests, late[r] # "none", late'[r] = late[r] PROVE Owed(r)'
  BY DEF LateInv, Owed
<1>1. Owed(r)
  BY DEF LateInv
<1>2. pc'[r] = pc[r]
  BY <1>1 DEF Owed
<1>3. ASSUME call[r] \in Calls
      PROVE  call'[r] = call[r] /\ (victim[r] # NoTopic => victim'[r] = victim[r])
  BY <1>3, CallAssumption DEF Remembered
<1>4. CASE late[r] = "registering"
  <2>1. PICK t \in Tenants : call[r] = Call("create", t, NoTopic)
    BY <1>1, <1>4 DEF Owed
  <2>2. call'[r] = Call("create", t, NoTopic)
    BY <1>3, <2>1, CallIsTyped
  <2> QED BY <1>1, <1>2, <1>4, <2>2 DEF Owed
<1>5. CASE late[r] = "granting"
  <2>1. PICK t \in rows, k \in Topics : call[r] = Call("add", t, k)
    BY <1>1, <1>5 DEF Owed
  <2>2. call'[r] = Call("add", t, k)
    BY <1>3, <2>1, CallIsTyped DEF TypeOK
  <2> QED BY <1>1, <1>2, <1>5, <2>1, <2>2 DEF Owed
<1>6. CASE late[r] \in {"revoking", "publishing"}
  <2>1. PICK t \in rows, k \in Topics : call[r] = Call("remove", t, k)
    BY <1>1, <1>6 DEF Owed
  <2>2. call'[r] = Call("remove", t, k) /\ (victim[r] # NoTopic => victim'[r] = victim[r])
    BY <1>3, <2>1, CallIsTyped DEF TypeOK
  <2>3. victim'[r] \in Topics
    BY <1>1, <1>6, <2>2, TopicAssumption DEF Owed
  <2> QED BY <1>1, <1>2, <1>6, <2>1, <2>2, <2>3 DEF Owed
<1>7. CASE late[r] \notin {"registering", "granting", "revoking", "publishing"}
  BY <1>1, <1>2, <1>7 DEF Owed
<1> QED BY <1>4, <1>5, <1>6, <1>7

\* A request that leaves its call behind.
LEMMA LateLeave ==
    ASSUME TypeOK, PhaseInv, LateInv, NEW q \in Requests, pc[q] \in Remote,
           NEW stage \in {"ok", "failed"}, stage = "ok" => pc[q] = "publishing", Leave(q, stage),
           rows' = rows, call' = call, victim' = victim
    PROVE  LateInv'
<1>1. Owed(q)'
  <2>1. pc'[q] = stage /\ late'[q] = pc[q]
    BY DEF Leave, Goto, TypeOK
  <2>2. Phase(q)
    BY DEF PhaseInv
  <2> QED BY <2>1, <2>2 DEF Phase, Owed, Remote, CreateSteps, AddSteps, RemoveSteps
<1>2. ASSUME NEW r \in Requests \ {q} PROVE Owed(r)'
  <2>1. pc'[r] = pc[r] /\ late'[r] = late[r]
    BY DEF Leave, Goto, TypeOK
  <2> QED BY <2>1 DEF LateInv, Owed
<1> QED BY <1>1, <1>2 DEF LateInv

LEMMA LateStep == TypeOK /\ PhaseInv /\ LateInv /\ [Next]_vars => LateInv'
<1> SUFFICES ASSUME TypeOK, PhaseInv, LateInv, [Next]_vars PROVE LateInv'
  OBVIOUS
<1>0. Remembered
  BY CallsAreRemembered
<1>1. ASSUME NEW q \in Requests, NEW t \in Tenants, Create(q, t) PROVE LateInv'
  <2>1. /\ rows \subseteq rows'
        /\ \A r \in Requests : late'[r] = late[r] \/ late'[r] = "none"
        /\ \A r \in Requests : pc[r] \in {"ok", "failed"} => pc'[r] = pc[r]
    BY <1>1 DEF Create, Goto, TypeOK
  <2> QED BY <1>0, <2>1, LateFrame
<1>2. ASSUME NEW q \in Requests, Register(q) PROVE LateInv'
  <2>1. /\ rows \subseteq rows'
        /\ \A r \in Requests : late'[r] = late[r] \/ late'[r] = "none"
        /\ \A r \in Requests : pc[r] \in {"ok", "failed"} => pc'[r] = pc[r]
    BY <1>2 DEF Register, Goto, TypeOK
  <2> QED BY <1>0, <2>1, LateFrame
<1>3. ASSUME NEW q \in Requests, RegisterFail(q) PROVE LateInv'
  <2>1. pc[q] \in Remote /\ rows' = rows /\ call' = call /\ victim' = victim
    BY <1>3 DEF RegisterFail, Remote
  <2> QED BY <1>3, <2>1, LateLeave DEF RegisterFail
<1>4. ASSUME NEW q \in Requests, InsertTenant(q) PROVE LateInv'
  <2>1. /\ rows \subseteq rows'
        /\ \A r \in Requests : late'[r] = late[r] \/ late'[r] = "none"
        /\ \A r \in Requests : pc[r] \in {"ok", "failed"} => pc'[r] = pc[r]
    BY <1>4 DEF InsertTenant, Goto, TypeOK
  <2> QED BY <1>0, <2>1, LateFrame
<1>5. ASSUME NEW q \in Requests, InsertTenantFail(q) PROVE LateInv'
  <2>1. /\ rows \subseteq rows'
        /\ \A r \in Requests : late'[r] = late[r] \/ late'[r] = "none"
        /\ \A r \in Requests : pc[r] \in {"ok", "failed"} => pc'[r] = pc[r]
    BY <1>5 DEF InsertTenantFail, Goto, TypeOK
  <2> QED BY <1>0, <2>1, LateFrame
<1>6. ASSUME NEW q \in Requests, NEW t \in Tenants, NEW k \in Topics, Add(q, t, k) PROVE LateInv'
  <2>1. /\ rows \subseteq rows'
        /\ \A r \in Requests : late'[r] = late[r] \/ late'[r] = "none"
        /\ \A r \in Requests : pc[r] \in {"ok", "failed"} => pc'[r] = pc[r]
    BY <1>6 DEF Add, Goto, TypeOK
  <2> QED BY <1>0, <2>1, LateFrame
<1>7. ASSUME NEW q \in Requests, Grant(q) PROVE LateInv'
  <2>1. /\ rows \subseteq rows'
        /\ \A r \in Requests : late'[r] = late[r] \/ late'[r] = "none"
        /\ \A r \in Requests : pc[r] \in {"ok", "failed"} => pc'[r] = pc[r]
    BY <1>7 DEF Grant, Goto, TypeOK
  <2> QED BY <1>0, <2>1, LateFrame
<1>8. ASSUME NEW q \in Requests, GrantFail(q) PROVE LateInv'
  <2>1. pc[q] \in Remote /\ rows' = rows /\ call' = call /\ victim' = victim
    BY <1>8 DEF GrantFail, Remote
  <2> QED BY <1>8, <2>1, LateLeave DEF GrantFail
<1>9. ASSUME NEW q \in Requests, InsertChannel(q) PROVE LateInv'
  <2>1. /\ rows \subseteq rows'
        /\ \A r \in Requests : late'[r] = late[r] \/ late'[r] = "none"
        /\ \A r \in Requests : pc[r] \in {"ok", "failed"} => pc'[r] = pc[r]
    BY <1>9 DEF InsertChannel, Goto, TypeOK
  <2> QED BY <1>0, <2>1, LateFrame
<1>10. ASSUME NEW q \in Requests, InsertChannelFail(q) PROVE LateInv'
  <2>1. /\ rows \subseteq rows'
        /\ \A r \in Requests : late'[r] = late[r] \/ late'[r] = "none"
        /\ \A r \in Requests : pc[r] \in {"ok", "failed"} => pc'[r] = pc[r]
    BY <1>10 DEF InsertChannelFail, Goto, TypeOK
  <2> QED BY <1>0, <2>1, LateFrame
<1>11. ASSUME NEW q \in Requests, NEW t \in Tenants, NEW k \in Topics, Remove(q, t, k) PROVE LateInv'
  <2>1. /\ rows \subseteq rows'
        /\ \A r \in Requests : late'[r] = late[r] \/ late'[r] = "none"
        /\ \A r \in Requests : pc[r] \in {"ok", "failed"} => pc'[r] = pc[r]
    BY <1>11 DEF Remove, Goto, TypeOK
  <2> QED BY <1>0, <2>1, LateFrame
<1>12. ASSUME NEW q \in Requests, Delete(q) PROVE LateInv'
  <2>1. /\ rows \subseteq rows'
        /\ \A r \in Requests : late'[r] = late[r] \/ late'[r] = "none"
        /\ \A r \in Requests : pc[r] \in {"ok", "failed"} => pc'[r] = pc[r]
    BY <1>12 DEF Delete, Goto, TypeOK
  <2> QED BY <1>0, <2>1, LateFrame
<1>13. ASSUME NEW q \in Requests, DeleteFail(q) PROVE LateInv'
  <2>1. /\ rows \subseteq rows'
        /\ \A r \in Requests : late'[r] = late[r] \/ late'[r] = "none"
        /\ \A r \in Requests : pc[r] \in {"ok", "failed"} => pc'[r] = pc[r]
    BY <1>13 DEF DeleteFail, Goto, TypeOK
  <2> QED BY <1>0, <2>1, LateFrame
<1>14. ASSUME NEW q \in Requests, Revoke(q) PROVE LateInv'
  <2>1. /\ rows \subseteq rows'
        /\ \A r \in Requests : late'[r] = late[r] \/ late'[r] = "none"
        /\ \A r \in Requests : pc[r] \in {"ok", "failed"} => pc'[r] = pc[r]
    BY <1>14 DEF Revoke, Goto, TypeOK
  <2> QED BY <1>0, <2>1, LateFrame
<1>15. ASSUME NEW q \in Requests, RevokeFail(q) PROVE LateInv'
  <2>1. pc[q] \in Remote /\ rows' = rows /\ call' = call /\ victim' = victim
    BY <1>15 DEF RevokeFail, Remote
  <2> QED BY <1>15, <2>1, LateLeave DEF RevokeFail
<1>16. ASSUME NEW q \in Requests, Publish(q) PROVE LateInv'
  <2>1. pc[q] \in Remote /\ rows' = rows /\ call' = call /\ victim' = victim
    BY <1>16 DEF Publish, Remote
  <2> QED BY <1>16, <2>1, LateLeave DEF Publish
<1>17. ASSUME NEW q \in Requests, PublishFail(q) PROVE LateInv'
  <2>1. pc[q] \in Remote /\ rows' = rows /\ call' = call /\ victim' = victim
    BY <1>17 DEF PublishFail, Remote
  <2> QED BY <1>17, <2>1, LateLeave DEF PublishFail
<1>18. ASSUME NEW q \in Requests, Abandon(q) PROVE LateInv'
  <2>1. /\ rows \subseteq rows'
        /\ \A r \in Requests : late'[r] = late[r] \/ late'[r] = "none"
        /\ \A r \in Requests : pc[r] \in {"ok", "failed"} => pc'[r] = pc[r]
    BY <1>18 DEF Abandon, Goto, TypeOK, Done
  <2> QED BY <1>0, <2>1, LateFrame
<1>19. ASSUME NEW q \in Requests, Land(q) PROVE LateInv'
  <2>1. /\ rows \subseteq rows'
        /\ \A r \in Requests : late'[r] = late[r] \/ late'[r] = "none"
        /\ \A r \in Requests : pc[r] \in {"ok", "failed"} => pc'[r] = pc[r]
    BY <1>19 DEF Land, TypeOK
  <2> QED BY <1>0, <2>1, LateFrame
<1>20. ASSUME NEW q \in Requests, Resend(q) PROVE LateInv'
  <2>1. /\ rows \subseteq rows'
        /\ \A r \in Requests : late'[r] = late[r] \/ late'[r] = "none"
        /\ \A r \in Requests : pc[r] \in {"ok", "failed"} => pc'[r] = pc[r]
    BY <1>20 DEF Resend, TypeOK
  <2> QED BY <1>0, <2>1, LateFrame
<1>21. CASE UNCHANGED vars
  BY <1>0, <1>21, LateFrame DEF vars
<1> QED
  BY <1>1, <1>2, <1>3, <1>4, <1>5, <1>6, <1>7, <1>8, <1>9, <1>10,
     <1>11, <1>12, <1>13, <1>14, <1>15, <1>16, <1>17, <1>18, <1>19, <1>20, <1>21 DEF Next

--------------------------------------------------------------------------------
(* Access *)

LEMMA RemovedStays ==
    ASSUME Remembered, NEW t \in Tenants, NEW k \in Topics, Removed(t, k)
    PROVE  Removed(t, k)'
<1>1. PICK r \in Requests :
          call[r] = Call("remove", t, k) /\ victim[r] # NoTopic /\ pc[r] # "deleting"
  BY DEF Removed
<1>2. call[r] # NoCall
  BY <1>1, CallIsTyped, CallAssumption
<1>3. call'[r] = Call("remove", t, k) /\ victim'[r] # NoTopic /\ pc'[r] # "deleting"
  BY <1>1, <1>2 DEF Remembered
<1> QED BY <1>3 DEF Removed

\* A step that takes no access away, adds no row and brings no add to its insert.
LEMMA AccessFrame ==
    ASSUME TypeOK, AccessInv, Remembered,
           rows' = rows,
           \A t \in Tenants : subs'[t] \subseteq subs[t],
           \A l \in Logins : acl[l] \subseteq acl'[l],
           \A q \in Requests :
               pc'[q] = "inserting channel" => pc[q] = "inserting channel" /\ call'[q] = call[q]
    PROVE  AccessInv'
<1>1. ASSUME NEW t \in Tenants, NEW k \in Topics, Accounted(t, k) PROVE Accounted(t, k)'
  <2>1. LoginOf[t] \in Logins
    BY TenantAssumption
  <2>2. CASE k \in acl[LoginOf[t]]
    BY <2>1, <2>2 DEF Accounted
  <2>3. CASE Removed(t, k)
    BY <2>3, RemovedStays DEF Accounted
  <2> QED BY <1>1, <2>2, <2>3 DEF Accounted
<1>2. rows \subseteq Tenants /\ \A t \in Tenants : subs[t] \subseteq Topics
  BY DEF TypeOK
<1>3. ASSUME NEW t \in rows', NEW k \in subs'[t] PROVE Accounted(t, k)'
  <2>1. t \in Tenants /\ k \in Topics /\ k \in subs[t] /\ t \in rows
    BY <1>2
  <2>2. Accounted(t, k)
    BY <2>1 DEF AccessInv
  <2> QED BY <1>1, <2>1, <2>2
<1>4. \A t \in Tenants \ rows' : subs'[t] = {}
  BY DEF AccessInv
<1>5. ASSUME NEW q \in Requests, NEW t \in Tenants, NEW k \in Topics,
             pc'[q] = "inserting channel", call'[q] = Call("add", t, k)
      PROVE  Accounted(t, k)'
  <2>1. Accounted(t, k)
    BY <1>5 DEF AccessInv
  <2> QED BY <1>1, <2>1
<1> QED BY <1>3, <1>4, <1>5 DEF AccessInv

\* The insert of a tenant: it has no channel yet.
LEMMA AccessInsertTenant ==
    ASSUME TypeOK, AccessInv, Remembered, NEW q \in Requests, call[q].tenant \in Tenants,
           rows' = rows \cup {call[q].tenant}, subs' = subs, acl' = acl, call' = call,
           NEW stage \in Done, pc' = [pc EXCEPT ![q] = stage]
    PROVE  AccessInv'
<1>1. ASSUME NEW t \in Tenants, NEW k \in Topics, Accounted(t, k) PROVE Accounted(t, k)'
  BY <1>1, RemovedStays DEF Accounted
<1>2. rows \subseteq Tenants /\ \A t \in Tenants : subs[t] \subseteq Topics
  BY DEF TypeOK
<1>3. ASSUME NEW t \in rows', NEW k \in subs'[t] PROVE Accounted(t, k)'
  <2>1. t \in Tenants /\ k \in Topics /\ t \in rows
    BY <1>2 DEF AccessInv
  <2>2. Accounted(t, k)
    BY <2>1 DEF AccessInv
  <2> QED BY <1>1, <2>1, <2>2
<1>4. \A t \in Tenants \ rows' : subs'[t] = {}
  BY DEF AccessInv
<1>5. \A r \in Requests : pc'[r] = "inserting channel" => pc[r] = "inserting channel"
  BY DEF TypeOK, Done
<1>6. ASSUME NEW r \in Requests, NEW t \in Tenants, NEW k \in Topics,
             pc'[r] = "inserting channel", call'[r] = Call("add", t, k)
      PROVE  Accounted(t, k)'
  <2>1. Accounted(t, k)
    BY <1>5, <1>6 DEF AccessInv
  <2> QED BY <1>1, <2>1
<1> QED BY <1>3, <1>4, <1>6 DEF AccessInv

\* The insert of a channel that was granted.
LEMMA AccessInsertChannel ==
    ASSUME TypeOK, PhaseInv, AccessInv, Remembered, NEW q \in Requests, pc[q] = "inserting channel",
           subs' = [subs EXCEPT ![call[q].tenant] = @ \cup {call[q].topic}],
           rows' = rows, acl' = acl, call' = call,
           NEW stage \in Done, pc' = [pc EXCEPT ![q] = stage]
    PROVE  AccessInv'
<1>1. ASSUME NEW t \in Tenants, NEW k \in Topics, Accounted(t, k) PROVE Accounted(t, k)'
  BY <1>1, RemovedStays DEF Accounted
<1>2. PICK u \in rows, c \in Topics : call[q] = Call("add", u, c)
  BY DEF PhaseInv, Phase, AddSteps
<1>3. call[q].tenant = u /\ call[q].topic = c
  <2>1. Call("add", u, c).tenant = u /\ Call("add", u, c).topic = c
    BY CallIsTyped
  <2> QED BY <1>2, <2>1
<1>4. u \in Tenants /\ Accounted(u, c)
  BY <1>2 DEF TypeOK, AccessInv
<1>5. rows \subseteq Tenants /\ subs \in [Tenants -> SUBSET Topics]
  BY DEF TypeOK
<1>6. ASSUME NEW t \in rows', NEW k \in subs'[t] PROVE Accounted(t, k)'
  <2>1. t \in Tenants /\ t \in rows
    BY <1>5
  <2>2. k \in subs[t] \/ (t = u /\ k = c)
    BY <1>3, <1>5, <2>1
  <2>3. Accounted(t, k) /\ k \in Topics
    BY <1>4, <1>5, <2>1, <2>2 DEF AccessInv
  <2> QED BY <1>1, <2>1, <2>3
<1>7. \A t \in Tenants \ rows' : subs'[t] = {}
  BY <1>3, <1>5 DEF AccessInv
<1>8. \A r \in Requests : pc'[r] = "inserting channel" => pc[r] = "inserting channel"
  BY DEF TypeOK, Done
<1>9. ASSUME NEW r \in Requests, NEW t \in Tenants, NEW k \in Topics,
             pc'[r] = "inserting channel", call'[r] = Call("add", t, k)
      PROVE  Accounted(t, k)'
  <2>1. Accounted(t, k)
    BY <1>8, <1>9 DEF AccessInv
  <2> QED BY <1>1, <2>1
<1> QED BY <1>6, <1>7, <1>9 DEF AccessInv

\* The grant: its request may insert now.
LEMMA AccessGrant ==
    ASSUME TypeOK, PhaseInv, AccessInv, Remembered, NEW q \in Requests, Grant(q)
    PROVE  AccessInv'
<1>1. /\ pc[q] = "granting" /\ pc' = [pc EXCEPT ![q] = "inserting channel"]
      /\ acl' = [acl EXCEPT ![LoginOf[call[q].tenant]] = @ \cup {call[q].topic}]
      /\ rows' = rows /\ subs' = subs /\ call' = call
  BY DEF Grant, Goto
<1>2. acl \in [Logins -> SUBSET Topics] /\ pc \in [Requests -> Stages] /\ rows \subseteq Tenants
      /\ \A t \in Tenants : LoginOf[t] \in Logins /\ subs[t] \subseteq Topics
  BY TenantAssumption DEF TypeOK
<1>3. ASSUME NEW t \in Tenants, NEW k \in Topics, Accounted(t, k) PROVE Accounted(t, k)'
  <2>1. CASE k \in acl[LoginOf[t]]
    BY <1>1, <1>2, <2>1 DEF Accounted
  <2>2. CASE Removed(t, k)
    BY <2>2, RemovedStays DEF Accounted
  <2> QED BY <1>3, <2>1, <2>2 DEF Accounted
<1>4. ASSUME NEW t \in rows', NEW k \in subs'[t] PROVE Accounted(t, k)'
  <2>1. t \in Tenants /\ k \in Topics /\ Accounted(t, k)
    BY <1>1, <1>2 DEF AccessInv
  <2> QED BY <1>3, <2>1
<1>5. \A t \in Tenants \ rows' : subs'[t] = {}
  BY <1>1 DEF AccessInv
<1>6. ASSUME NEW r \in Requests, NEW t \in Tenants, NEW k \in Topics,
             pc'[r] = "inserting channel", call'[r] = Call("add", t, k)
      PROVE  Accounted(t, k)'
  <2>1. CASE r = q
    <3>1. call[q].tenant = t /\ call[q].topic = k
      <4>1. Call("add", t, k).tenant = t /\ Call("add", t, k).topic = k
        BY CallIsTyped
      <4> QED BY <1>1, <1>6, <2>1, <4>1
    <3>2. k \in acl'[LoginOf[t]]
      BY <1>1, <1>2, <3>1
    <3> QED BY <3>2 DEF Accounted
  <2>2. CASE r # q
    <3>1. pc[r] = "inserting channel" /\ call[r] = Call("add", t, k)
      BY <1>1, <1>2, <1>6, <2>2
    <3>2. Accounted(t, k)
      BY <3>1 DEF AccessInv
    <3> QED BY <1>3, <3>2
  <2> QED BY <2>1, <2>2
<1> QED BY <1>4, <1>5, <1>6 DEF AccessInv

LEMMA AddHasRow ==
    ASSUME TypeOK, PhaseInv, NEW r \in Requests, NEW t, NEW k,
           pc[r] = "inserting channel", call[r] = Call("add", t, k)
    PROVE  t \in rows
<1>1. call[r].tenant = t
  <2>1. Call("add", t, k).tenant = t
    BY CallIsTyped
  <2> QED BY <2>1
<1>2. pc[r] \in CreateSteps \cup AddSteps \cup RemoveSteps /\ pc[r] \notin CreateSteps
  BY DEF AddSteps, CreateSteps
<1> QED BY <1>1, <1>2, RunningRequest

\* A revoke hits one tenant alone, since no other shares its login, and is accounted for
\* by the removal that asked for it.
LEMMA AccessRevoke ==
    ASSUME TypeOK, PhaseInv, LoginInv, AccessInv, Remembered,
           NEW u \in rows, NEW c \in Topics, NEW q \in Requests,
           call'[q] = Call("remove", u, c), victim'[q] # NoTopic, pc'[q] # "deleting",
           acl' = [acl EXCEPT ![LoginOf[u]] = @ \ {c}],
           rows' = rows, subs' = subs,
           \A r \in Requests :
               pc'[r] = "inserting channel" => pc[r] = "inserting channel" /\ call'[r] = call[r]
    PROVE  AccessInv'
<1>1. acl \in [Logins -> SUBSET Topics] /\ rows \subseteq Tenants
      /\ \A t \in Tenants : LoginOf[t] \in Logins /\ subs[t] \subseteq Topics
  BY TenantAssumption DEF TypeOK
<1>2. Removed(u, c)'
  BY DEF Removed
<1>3. ASSUME NEW t \in rows, NEW k \in Topics, Accounted(t, k) PROVE Accounted(t, k)'
  <2>1. CASE Removed(t, k)
    BY <1>1, <2>1, RemovedStays DEF Accounted
  <2>2. CASE k \in acl[LoginOf[t]] /\ LoginOf[t] # LoginOf[u]
    BY <1>1, <2>2 DEF Accounted
  <2>3. CASE k \in acl[LoginOf[t]] /\ LoginOf[t] = LoginOf[u]
    <3>1. t = u
      BY <2>3 DEF LoginInv, OneTenantPerLogin
    <3>2. CASE k = c
      BY <1>2, <3>1, <3>2 DEF Accounted
    <3>3. CASE k # c
      BY <1>1, <2>3, <3>3 DEF Accounted
    <3> QED BY <3>2, <3>3
  <2> QED BY <1>3, <2>1, <2>2, <2>3 DEF Accounted
<1>4. ASSUME NEW t \in rows', NEW k \in subs'[t] PROVE Accounted(t, k)'
  <2>1. t \in rows /\ k \in Topics /\ Accounted(t, k)
    BY <1>1 DEF AccessInv
  <2> QED BY <1>3, <2>1
<1>5. \A t \in Tenants \ rows' : subs'[t] = {}
  BY DEF AccessInv
<1>6. ASSUME NEW r \in Requests, NEW t \in Tenants, NEW k \in Topics,
             pc'[r] = "inserting channel", call'[r] = Call("add", t, k)
      PROVE  Accounted(t, k)'
  <2>1. pc[r] = "inserting channel" /\ call[r] = Call("add", t, k)
    BY <1>6
  <2>2. Accounted(t, k)
    BY <2>1 DEF AccessInv
  <2>3. t \in rows
    BY <2>1, AddHasRow
  <2> QED BY <1>3, <2>2, <2>3
<1> QED BY <1>4, <1>5, <1>6 DEF AccessInv

LEMMA AccessStep ==
    TypeOK /\ PhaseInv /\ LateInv /\ LoginInv /\ AccessInv /\ [Next]_vars => AccessInv'
<1> SUFFICES ASSUME TypeOK, PhaseInv, LateInv, LoginInv, AccessInv, [Next]_vars PROVE AccessInv'
  OBVIOUS
<1>0. Remembered
  BY CallsAreRemembered
<1>1. ASSUME NEW q \in Requests, NEW t \in Tenants, Create(q, t) PROVE AccessInv'
  <2>1. /\ rows' = rows
        /\ \A u \in Tenants : subs'[u] \subseteq subs[u]
        /\ \A l \in Logins : acl[l] \subseteq acl'[l]
        /\ \A r \in Requests :
               pc'[r] = "inserting channel" => pc[r] = "inserting channel" /\ call'[r] = call[r]
    BY <1>1 DEF Create, Goto, TypeOK
  <2> QED BY <1>0, <2>1, AccessFrame
<1>2. ASSUME NEW q \in Requests, Register(q) PROVE AccessInv'
  <2>1. /\ rows' = rows
        /\ \A u \in Tenants : subs'[u] \subseteq subs[u]
        /\ \A l \in Logins : acl[l] \subseteq acl'[l]
        /\ \A r \in Requests :
               pc'[r] = "inserting channel" => pc[r] = "inserting channel" /\ call'[r] = call[r]
    BY <1>2 DEF Register, Goto, TypeOK
  <2> QED BY <1>0, <2>1, AccessFrame
<1>3. ASSUME NEW q \in Requests, RegisterFail(q) PROVE AccessInv'
  <2>1. /\ rows' = rows
        /\ \A u \in Tenants : subs'[u] \subseteq subs[u]
        /\ \A l \in Logins : acl[l] \subseteq acl'[l]
        /\ \A r \in Requests :
               pc'[r] = "inserting channel" => pc[r] = "inserting channel" /\ call'[r] = call[r]
    BY <1>3 DEF RegisterFail, Leave, Goto, TypeOK
  <2> QED BY <1>0, <2>1, AccessFrame
<1>4. ASSUME NEW q \in Requests, InsertTenant(q) PROVE AccessInv'
  <2>1. /\ pc[q] \in CreateSteps
        /\ rows' = rows \cup {call[q].tenant} /\ subs' = subs /\ acl' = acl /\ call' = call
        /\ pc' = [pc EXCEPT ![q] = "ok"] /\ "ok" \in Done
    BY <1>4 DEF InsertTenant, Goto, Done, CreateSteps
  <2>2. call[q].tenant \in Tenants
    BY <2>1, RunningRequest
  <2> QED BY <1>0, <2>1, <2>2, AccessInsertTenant
<1>5. ASSUME NEW q \in Requests, InsertTenantFail(q) PROVE AccessInv'
  <2>1. CASE rows' = rows
    <3>1. /\ \A u \in Tenants : subs'[u] \subseteq subs[u]
          /\ \A l \in Logins : acl[l] \subseteq acl'[l]
          /\ \A r \in Requests :
                 pc'[r] = "inserting channel" => pc[r] = "inserting channel" /\ call'[r] = call[r]
      BY <1>5 DEF InsertTenantFail, Goto, TypeOK
    <3> QED BY <1>0, <2>1, <3>1, AccessFrame
  <2>2. CASE rows' = rows \cup {call[q].tenant}
    <3>1. /\ pc[q] \in CreateSteps /\ subs' = subs /\ acl' = acl /\ call' = call
          /\ pc' = [pc EXCEPT ![q] = "failed"] /\ "failed" \in Done
      BY <1>5 DEF InsertTenantFail, Goto, Done, CreateSteps
    <3>2. call[q].tenant \in Tenants
      BY <3>1, RunningRequest
    <3> QED BY <1>0, <2>2, <3>1, <3>2, AccessInsertTenant
  <2> QED BY <1>5, <2>1, <2>2 DEF InsertTenantFail
<1>6. ASSUME NEW q \in Requests, NEW t \in Tenants, NEW k \in Topics, Add(q, t, k) PROVE AccessInv'
  <2>1. /\ rows' = rows
        /\ \A u \in Tenants : subs'[u] \subseteq subs[u]
        /\ \A l \in Logins : acl[l] \subseteq acl'[l]
        /\ \A r \in Requests :
               pc'[r] = "inserting channel" => pc[r] = "inserting channel" /\ call'[r] = call[r]
    BY <1>6 DEF Add, Goto, TypeOK
  <2> QED BY <1>0, <2>1, AccessFrame
<1>7. ASSUME NEW q \in Requests, Grant(q) PROVE AccessInv'
  BY <1>0, <1>7, AccessGrant
<1>8. ASSUME NEW q \in Requests, GrantFail(q) PROVE AccessInv'
  <2>1. /\ rows' = rows
        /\ \A u \in Tenants : subs'[u] \subseteq subs[u]
        /\ \A l \in Logins : acl[l] \subseteq acl'[l]
        /\ \A r \in Requests :
               pc'[r] = "inserting channel" => pc[r] = "inserting channel" /\ call'[r] = call[r]
    BY <1>8 DEF GrantFail, Leave, Goto, TypeOK
  <2> QED BY <1>0, <2>1, AccessFrame
<1>9. ASSUME NEW q \in Requests, InsertChannel(q) PROVE AccessInv'
  <2>1. /\ pc[q] = "inserting channel" /\ rows' = rows /\ acl' = acl /\ call' = call
        /\ subs' = [subs EXCEPT ![call[q].tenant] = @ \cup {call[q].topic}]
    BY <1>9 DEF InsertChannel
  <2>2. PICK stage \in Done : pc' = [pc EXCEPT ![q] = stage]
    BY <1>9 DEF InsertChannel, Goto, Done
  <2> QED BY <1>0, <2>1, <2>2, AccessInsertChannel
<1>10. ASSUME NEW q \in Requests, InsertChannelFail(q) PROVE AccessInv'
  <2>1. CASE subs' = subs
    <3>1. /\ rows' = rows
          /\ \A u \in Tenants : subs'[u] \subseteq subs[u]
          /\ \A l \in Logins : acl[l] \subseteq acl'[l]
          /\ \A r \in Requests :
                 pc'[r] = "inserting channel" => pc[r] = "inserting channel" /\ call'[r] = call[r]
      BY <1>10, <2>1 DEF InsertChannelFail, Goto, TypeOK
    <3> QED BY <1>0, <3>1, AccessFrame
  <2>2. CASE subs' = [subs EXCEPT ![call[q].tenant] = @ \cup {call[q].topic}]
    <3>1. /\ pc[q] = "inserting channel" /\ rows' = rows /\ acl' = acl /\ call' = call
          /\ pc' = [pc EXCEPT ![q] = "failed"] /\ "failed" \in Done
      BY <1>10 DEF InsertChannelFail, Goto, Done
    <3> QED BY <1>0, <2>2, <3>1, AccessInsertChannel
  <2> QED BY <1>10, <2>1, <2>2 DEF InsertChannelFail
<1>11. ASSUME NEW q \in Requests, NEW t \in Tenants, NEW k \in Topics, Remove(q, t, k) PROVE AccessInv'
  <2>1. /\ rows' = rows
        /\ \A u \in Tenants : subs'[u] \subseteq subs[u]
        /\ \A l \in Logins : acl[l] \subseteq acl'[l]
        /\ \A r \in Requests :
               pc'[r] = "inserting channel" => pc[r] = "inserting channel" /\ call'[r] = call[r]
    BY <1>11 DEF Remove, Goto, TypeOK
  <2> QED BY <1>0, <2>1, AccessFrame
<1>12. ASSUME NEW q \in Requests, Delete(q) PROVE AccessInv'
  <2>1. /\ rows' = rows
        /\ \A u \in Tenants : subs'[u] \subseteq subs[u]
        /\ \A l \in Logins : acl[l] \subseteq acl'[l]
        /\ \A r \in Requests :
               pc'[r] = "inserting channel" => pc[r] = "inserting channel" /\ call'[r] = call[r]
    BY <1>12 DEF Delete, Goto, TypeOK
  <2> QED BY <1>0, <2>1, AccessFrame
<1>13. ASSUME NEW q \in Requests, DeleteFail(q) PROVE AccessInv'
  <2>1. /\ rows' = rows
        /\ \A u \in Tenants : subs'[u] \subseteq subs[u]
        /\ \A l \in Logins : acl[l] \subseteq acl'[l]
        /\ \A r \in Requests :
               pc'[r] = "inserting channel" => pc[r] = "inserting channel" /\ call'[r] = call[r]
    BY <1>13 DEF DeleteFail, Goto, TypeOK
  <2> QED BY <1>0, <2>1, AccessFrame
<1>14. ASSUME NEW q \in Requests, Revoke(q) PROVE AccessInv'
  <2>0. pc[q] \in RemoveSteps /\ Phase(q)
    BY <1>14 DEF Revoke, RemoveSteps, PhaseInv
  <2>1. PICK u \in rows, c \in Topics : call[q] = Call("remove", u, c)
    BY <2>0 DEF Phase
  <2>2. acl' = [acl EXCEPT ![LoginOf[u]] = @ \ {c}] /\ rows' = rows /\ subs' = subs
    <3>1. call[q].tenant = u /\ call[q].topic = c
      BY <2>1 DEF Call
    <3> QED BY <1>14, <3>1 DEF Revoke
  <2>3. \A r \in Requests :
            pc'[r] = "inserting channel" => pc[r] = "inserting channel" /\ call'[r] = call[r]
    BY <1>14 DEF Revoke, Goto, TypeOK
  <2>4. call'[q] = Call("remove", u, c) /\ victim'[q] # NoTopic /\ pc'[q] # "deleting"
    BY <1>14, <2>0, <2>1, TopicAssumption DEF Revoke, Phase, Goto, TypeOK
  <2> QED BY <1>0, <2>2, <2>3, <2>4, AccessRevoke
<1>15. ASSUME NEW q \in Requests, RevokeFail(q) PROVE AccessInv'
  <2>1. /\ rows' = rows
        /\ \A u \in Tenants : subs'[u] \subseteq subs[u]
        /\ \A l \in Logins : acl[l] \subseteq acl'[l]
        /\ \A r \in Requests :
               pc'[r] = "inserting channel" => pc[r] = "inserting channel" /\ call'[r] = call[r]
    BY <1>15 DEF RevokeFail, Leave, Goto, TypeOK
  <2> QED BY <1>0, <2>1, AccessFrame
<1>16. ASSUME NEW q \in Requests, Publish(q) PROVE AccessInv'
  <2>1. /\ rows' = rows
        /\ \A u \in Tenants : subs'[u] \subseteq subs[u]
        /\ \A l \in Logins : acl[l] \subseteq acl'[l]
        /\ \A r \in Requests :
               pc'[r] = "inserting channel" => pc[r] = "inserting channel" /\ call'[r] = call[r]
    BY <1>16 DEF Publish, Leave, Goto, TypeOK
  <2> QED BY <1>0, <2>1, AccessFrame
<1>17. ASSUME NEW q \in Requests, PublishFail(q) PROVE AccessInv'
  <2>1. /\ rows' = rows
        /\ \A u \in Tenants : subs'[u] \subseteq subs[u]
        /\ \A l \in Logins : acl[l] \subseteq acl'[l]
        /\ \A r \in Requests :
               pc'[r] = "inserting channel" => pc[r] = "inserting channel" /\ call'[r] = call[r]
    BY <1>17 DEF PublishFail, Leave, Goto, TypeOK
  <2> QED BY <1>0, <2>1, AccessFrame
<1>18. ASSUME NEW q \in Requests, Abandon(q) PROVE AccessInv'
  <2>1. /\ rows' = rows
        /\ \A u \in Tenants : subs'[u] \subseteq subs[u]
        /\ \A l \in Logins : acl[l] \subseteq acl'[l]
        /\ \A r \in Requests :
               pc'[r] = "inserting channel" => pc[r] = "inserting channel" /\ call'[r] = call[r]
    BY <1>18 DEF Abandon, Goto, TypeOK
  <2> QED BY <1>0, <2>1, AccessFrame
<1>19. ASSUME NEW q \in Requests, Land(q) PROVE AccessInv'
  <2>1. call' = call /\ pc' = pc /\ victim' = victim /\ rows' = rows /\ subs' = subs
    BY <1>19 DEF Land
  <2>2. CASE \A l \in Logins : acl[l] \subseteq acl'[l]
    BY <1>0, <2>1, <2>2, AccessFrame
  <2>3. CASE \E u \in rows, c \in Topics :
                /\ call[q] = Call("remove", u, c) /\ pc[q] # "deleting" /\ victim[q] \in Topics
                /\ acl' = [acl EXCEPT ![LoginOf[u]] = @ \ {c}]
    <3>1. PICK u \in rows, c \in Topics :
              /\ call[q] = Call("remove", u, c) /\ pc[q] # "deleting" /\ victim[q] \in Topics
              /\ acl' = [acl EXCEPT ![LoginOf[u]] = @ \ {c}]
      BY <2>3
    <3>2. call'[q] = Call("remove", u, c) /\ victim'[q] # NoTopic /\ pc'[q] # "deleting"
      BY <2>1, <3>1, TopicAssumption
    <3>3. \A r \in Requests :
              pc'[r] = "inserting channel" => pc[r] = "inserting channel" /\ call'[r] = call[r]
      BY <2>1
    <3> QED BY <1>0, <2>1, <3>1, <3>2, <3>3, AccessRevoke
  <2>4. CASE \E u \in rows, c \in Topics : acl' = [acl EXCEPT ![LoginOf[u]] = @ \cup {c}]
    <3>1. \A l \in Logins : acl[l] \subseteq acl'[l]
      BY <2>4 DEF TypeOK
    <3> QED BY <2>2, <3>1
  <2>5. CASE acl' = acl
    BY <2>2, <2>5
  <2> QED BY <1>19, <2>3, <2>4, <2>5, LandingCall
<1>20. ASSUME NEW q \in Requests, Resend(q) PROVE AccessInv'
  BY <1>0, <1>20, AccessFrame DEF Resend
<1>21. CASE UNCHANGED vars
  BY <1>0, <1>21, AccessFrame DEF vars
<1> QED
  BY <1>1, <1>2, <1>3, <1>4, <1>5, <1>6, <1>7, <1>8, <1>9, <1>10,
     <1>11, <1>12, <1>13, <1>14, <1>15, <1>16, <1>17, <1>18, <1>19, <1>20, <1>21 DEF Next

--------------------------------------------------------------------------------
(* Theorems *)

LEMMA InvInit == Init => ProvisioningInv
<1> SUFFICES ASSUME Init PROVE ProvisioningInv
  OBVIOUS
<1>1. acl \in [Logins -> SUBSET Topics] /\ \A t \in Existing : subs[t] \subseteq acl[LoginOf[t]]
  BY TenantAssumption DEF Init
<1>2. TypeOK
  <2>1. /\ call \in [Requests -> Calls \cup {NoCall}] /\ pc \in [Requests -> Stages]
        /\ loaded \in [Requests -> SUBSET Topics] /\ victim \in [Requests -> Topics \cup {NoTopic}]
        /\ subs \in [Tenants -> SUBSET Topics] /\ rows \subseteq Tenants
        /\ late \in [Requests -> Remote \cup {"none"}]
    BY TenantAssumption DEF Init, Stages
  <2>2. users \subseteq Logins
    BY TenantAssumption DEF Init
  <2>3. log \in Seq(Announcements)
    BY DEF Init
  <2> QED BY <1>1, <2>1, <2>2, <2>3, Zenon DEF TypeOK
<1>3. PhaseInv
  BY DEF Init, PhaseInv, Phase, CreateSteps, AddSteps, RemoveSteps
<1>4. LateInv
  BY DEF Init, LateInv, Owed
<1>5. LoginInv
  BY TenantAssumption DEF Init, LoginInv, OneTenantPerLogin
<1>6. AccessInv
  BY <1>1 DEF Init, AccessInv, Accounted
<1> QED BY <1>2, <1>3, <1>4, <1>5, <1>6 DEF ProvisioningInv

LEMMA Invariance == Spec => []ProvisioningInv
<1>1. ProvisioningInv /\ [Next]_vars => ProvisioningInv'
  BY TypeStep, PhaseStep, LateStep, LoginStep, AccessStep DEF ProvisioningInv
<1> QED BY <1>1, InvInit, PTL DEF Spec

\* The variables keep their types, for all constants.
THEOREM ProvisioningTypeOK == Spec => []TypeOK
<1>1. ProvisioningInv => TypeOK
  BY DEF ProvisioningInv
<1> QED BY <1>1, Invariance, PTL

\* OneTenantPerLogin: ntfy's refusal of a second user keeps the logins of tenants apart.
THEOREM LoginsStayApart == Spec => []OneTenantPerLogin
<1>1. ProvisioningInv => OneTenantPerLogin
  BY DEF ProvisioningInv, LoginInv
<1> QED BY <1>1, Invariance, PTL

\* AccessLostOnlyByRemoval: a tenant can read the topics it has channels for, unless a
\* removal of that very topic took the access away.
THEOREM ChannelsStayReadable == Spec => []AccessLostOnlyByRemoval
<1>1. ProvisioningInv => AccessLostOnlyByRemoval
  BY DEF ProvisioningInv, AccessInv, Accounted, AccessLostOnlyByRemoval
<1> QED BY <1>1, Invariance, PTL
================================================================================
