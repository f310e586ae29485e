--------------------------- MODULE TenantProvisioning ---------------------------
(***************************************************************************)
(* The Dashboard API keeps one fact in three places: the tenant's channels *)
(* in PostgreSQL, its user and access list in ntfy-server, and the latest  *)
(* configuration event in Kafka.  A request changes them one after another *)
(* without a transaction around them, requests run concurrently, a call    *)
(* may fail and take effect all the same, at once or later, and a request  *)
(* may be dropped between two calls: the client disconnects or the process *)
(* dies.                                                                   *)
(*                                                                         *)
(* Each member of Requests serves one call; a failed one is not resumed.   *)
(***************************************************************************)
EXTENDS Naturals, Sequences

CONSTANTS
    Requests,          \* requests the API serves
    Tenants,           \* Guids of the tenants
    Existing,          \* tenants that exist when the model starts
    Logins, LoginOf,   \* LoginOf[t]: the SystemLogin made from the tenant's name
    Topics, Fold,      \* topic names; Fold[k]: the name without regard to case
    NoCall,            \* a request that has not arrived
    NoTopic,           \* no channel
    RevokeAuthorized,  \* does ntfy accept RevokeAccessAsync, sent without credentials?
    Faults,            \* do external calls fail and requests stop half-way?
    MaxLog             \* bound: no event is repeated beyond this length of the topic

ASSUME TenantAssumption ==
    /\ LoginOf \in [Tenants -> Logins]
    /\ Existing \subseteq Tenants
    /\ \A t, u \in Existing : LoginOf[t] = LoginOf[u] => t = u
ASSUME TopicAssumption == DOMAIN Fold = Topics /\ NoTopic \notin Topics
ASSUME SwitchAssumption == RevokeAuthorized \in BOOLEAN /\ Faults \in BOOLEAN
ASSUME BoundAssumption == MaxLog \in Nat

Call(kind, t, k) == [kind |-> kind, tenant |-> t, topic |-> k]
Calls ==
    [kind : {"create"}, tenant : Tenants, topic : {NoTopic}]
        \cup [kind : {"add", "remove"}, tenant : Tenants, topic : Topics]

ASSUME CallAssumption == NoCall \notin Calls

VARIABLES
    call,     \* call[q]: what request q asks for
    pc,       \* pc[q]: the step q is at, then "ok", "refused" by the first checks, or "failed"
    loaded,   \* loaded[q]: the tenant's channels in q's DbContext
    victim,   \* victim[q]: the channel q deletes
    late,     \* late[q]: the step of q whose call may yet be carried out, or "none"
    rows,     \* PostgreSQL: tenants
    subs,     \* PostgreSQL: NtfyTopic of the tenant's channels
    users,    \* ntfy-server: accounts
    acl,      \* ntfy-server: topics a login may read
    log       \* Kafka: tenant-configuration-events

vars == <<call, pc, loaded, victim, late, rows, subs, users, acl, log>>

CreateSteps == {"registering", "inserting tenant"}
AddSteps == {"granting", "inserting channel"}
RemoveSteps == {"deleting", "revoking", "publishing"}
Done == {"ok", "refused", "failed"}
Remote == {"registering", "granting", "revoking", "publishing"}
Stages == {"idle"} \cup CreateSteps \cup AddSteps \cup RemoveSteps \cup Done

Quiet == \A q \in Requests : pc[q] \in Done \cup {"idle"}

Announcements == [tenant : Tenants, channels : SUBSET Topics]

\* Requests completed before the model starts left the three places in step.
Init ==
    /\ call = [q \in Requests |-> NoCall]
    /\ pc = [q \in Requests |-> "idle"]
    /\ loaded = [q \in Requests |-> {}]
    /\ victim = [q \in Requests |-> NoTopic]
    /\ late = [q \in Requests |-> "none"]
    /\ rows = Existing
    /\ subs \in [Tenants -> SUBSET Topics]
    /\ \A t \in Tenants \ Existing : subs[t] = {}
    /\ users = {LoginOf[t] : t \in Existing}
    /\ acl = [l \in Logins |-> UNION {subs[t] : t \in {u \in Existing : LoginOf[u] = l}}]
    /\ log = <<>>

Goto(q, step) == pc' = [pc EXCEPT ![q] = step]

\* q goes on to step without being sure that its call has had all its effect.
Leave(q, step) == Goto(q, step) /\ late' = [late EXCEPT ![q] = pc[q]]

\* A request is dropped between two of its calls.
Abandon(q) ==
    /\ Faults
    /\ pc[q] \notin Done \cup {"idle"}
    /\ Goto(q, "failed")
    /\ UNCHANGED <<call, loaded, victim, late, rows, subs, users, acl, log>>

--------------------------------------------------------------------------------
(* POST /tenants: CreateTenantUseCase *)

\* The use case draws a Guid nobody has.
Create(q, t) ==
    /\ pc[q] = "idle"
    /\ t \notin rows
    /\ \A r \in Requests : call[r] # Call("create", t, NoTopic)
    /\ call' = [call EXCEPT ![q] = Call("create", t, NoTopic)]
    /\ Goto(q, "registering")
    /\ UNCHANGED <<loaded, victim, late, rows, subs, users, acl, log>>

\* Mutant: the answer of ntfy is not checked.
MutantRegisterUnchecked(q) ==
    LET login == LoginOf[call[q].tenant] IN
    /\ pc[q] = "registering"
    /\ users' = users \cup {login}
    /\ Goto(q, "inserting tenant")
    /\ UNCHANGED <<call, loaded, victim, late, rows, subs, acl, log>>

\* RegisterUserAsync: ntfy refuses a user it has.
Register(q) ==
    LET login == LoginOf[call[q].tenant] IN
    /\ pc[q] = "registering"
    /\ login \notin users
    /\ users' = users \cup {login}
    /\ Goto(q, "inserting tenant")
    /\ UNCHANGED <<call, loaded, victim, late, rows, subs, acl, log>>

\* The call is refused, or fails: given up after ten seconds it may still make the user.
RegisterFail(q) ==
    /\ pc[q] = "registering"
    /\ Faults \/ LoginOf[call[q].tenant] \in users
    /\ Leave(q, "failed")
    /\ UNCHANGED <<call, loaded, victim, rows, subs, users, acl, log>>

\* The encrypted password goes into the new row.
InsertTenant(q) ==
    /\ pc[q] = "inserting tenant"
    /\ rows' = rows \cup {call[q].tenant}
    /\ Goto(q, "ok")
    /\ UNCHANGED <<call, loaded, victim, late, subs, users, acl, log>>

InsertTenantFail(q) ==
    /\ Faults
    /\ pc[q] = "inserting tenant"
    /\ rows' = rows \/ rows' = rows \cup {call[q].tenant}
    /\ Goto(q, "failed")
    /\ UNCHANGED <<call, loaded, victim, late, subs, users, acl, log>>

--------------------------------------------------------------------------------
(* POST /tenants/{id}/channels: AddTenantChannelUseCase *)

\* The tenant is found (tenants are never deleted) and has no such channel, case counting.
Add(q, t, k) ==
    /\ pc[q] = "idle"
    /\ call' = [call EXCEPT ![q] = Call("add", t, k)]
    /\ Goto(q, IF t \in rows /\ k \notin subs[t] THEN "granting" ELSE "refused")
    /\ UNCHANGED <<loaded, victim, late, rows, subs, users, acl, log>>

Grant(q) ==
    LET login == LoginOf[call[q].tenant] IN
    /\ pc[q] = "granting"
    /\ acl' = [acl EXCEPT ![login] = @ \cup {call[q].topic}]
    /\ Goto(q, "inserting channel")
    /\ UNCHANGED <<call, loaded, victim, late, rows, subs, users, log>>

\* Mutant: a grant that failed is logged and the channel is inserted all the same.
MutantGrantSwallowed(q) ==
    /\ Faults
    /\ pc[q] = "granting"
    /\ Goto(q, "inserting channel")
    /\ UNCHANGED <<call, loaded, victim, late, rows, subs, users, acl, log>>

GrantFail(q) ==
    /\ Faults
    /\ pc[q] = "granting"
    /\ Leave(q, "failed")
    /\ UNCHANGED <<call, loaded, victim, rows, subs, users, acl, log>>

\* (TenantId, RegionName) is unique: of two concurrent adds one gets DbUpdateException.
InsertChannel(q) ==
    LET t == call[q].tenant IN
    /\ pc[q] = "inserting channel"
    /\ subs' = [subs EXCEPT ![t] = @ \cup {call[q].topic}]
    /\ Goto(q, IF call[q].topic \in subs[t] THEN "failed" ELSE "ok")
    /\ UNCHANGED <<call, loaded, victim, late, rows, users, acl, log>>

InsertChannelFail(q) ==
    LET t == call[q].tenant IN
    /\ Faults
    /\ pc[q] = "inserting channel"
    /\ subs' = subs \/ subs' = [subs EXCEPT ![t] = @ \cup {call[q].topic}]
    /\ Goto(q, "failed")
    /\ UNCHANGED <<call, loaded, victim, late, rows, users, acl, log>>

--------------------------------------------------------------------------------
(* DELETE /tenants/{id}/channels/{topic}: RemoveTenantChannelUseCase *)

\* Mutant: the channel is deleted and stays in the collection the event is made from.
MutantRemoveKeepsLoaded(q, t, k) ==
    LET matches == {c \in subs[t] : Fold[c] = Fold[k]} IN
    /\ pc[q] = "idle"
    /\ call' = [call EXCEPT ![q] = Call("remove", t, k)]
    /\ \/ /\ t \in rows
          /\ \E c \in matches :
                /\ victim' = [victim EXCEPT ![q] = c]
                /\ loaded' = [loaded EXCEPT ![q] = subs[t]]
          /\ Goto(q, "deleting")
       \/ /\ t \notin rows \/ matches = {}
          /\ Goto(q, "refused")
          /\ UNCHANGED <<victim, loaded>>
    /\ UNCHANGED <<late, rows, subs, users, acl, log>>

\* Loads the tenant with its channels and takes the first that matches, case ignored,
\* out of the collection.
Remove(q, t, k) ==
    LET matches == {c \in subs[t] : Fold[c] = Fold[k]} IN
    /\ pc[q] = "idle"
    /\ call' = [call EXCEPT ![q] = Call("remove", t, k)]
    /\ \/ /\ t \in rows
          /\ \E c \in matches :
                /\ victim' = [victim EXCEPT ![q] = c]
                /\ loaded' = [loaded EXCEPT ![q] = subs[t] \ {c}]
          /\ Goto(q, "deleting")
       \/ /\ t \notin rows \/ matches = {}
          /\ Goto(q, "refused")
          /\ UNCHANGED <<victim, loaded>>
    /\ UNCHANGED <<late, rows, subs, users, acl, log>>

\* SaveChangesAsync throws when another request has deleted the row meanwhile.
Delete(q) ==
    LET t == call[q].tenant IN
    /\ pc[q] = "deleting"
    /\ subs' = [subs EXCEPT ![t] = @ \ {victim[q]}]
    /\ Goto(q, IF victim[q] \in subs[t] THEN "revoking" ELSE "failed")
    /\ UNCHANGED <<call, loaded, victim, late, rows, users, acl, log>>

DeleteFail(q) ==
    LET t == call[q].tenant IN
    /\ Faults
    /\ pc[q] = "deleting"
    /\ subs' = subs \/ subs' = [subs EXCEPT ![t] = @ \ {victim[q]}]
    /\ Goto(q, "failed")
    /\ UNCHANGED <<call, loaded, victim, late, rows, users, acl, log>>

\* Mutant: the access sent is still "read".
MutantRevokeKeepsAccess(q) ==
    /\ pc[q] = "revoking"
    /\ RevokeAuthorized
    /\ Goto(q, "publishing")
    /\ UNCHANGED <<call, loaded, victim, late, rows, subs, users, acl, log>>

\* The topic revoked is the one of the URL, not the one of the deleted row.
Revoke(q) ==
    LET login == LoginOf[call[q].tenant] IN
    /\ pc[q] = "revoking"
    /\ RevokeAuthorized
    /\ acl' = [acl EXCEPT ![login] = @ \ {call[q].topic}]
    /\ Goto(q, "publishing")
    /\ UNCHANGED <<call, loaded, victim, late, rows, subs, users, log>>

\* Mutant: a status that is not success is only logged.
MutantRevokeUnchecked(q) ==
    /\ pc[q] = "revoking"
    /\ Faults \/ ~RevokeAuthorized
    /\ Goto(q, "publishing")
    /\ UNCHANGED <<call, loaded, victim, late, rows, subs, users, acl, log>>

RevokeFail(q) ==
    /\ pc[q] = "revoking"
    /\ Faults \/ ~RevokeAuthorized
    /\ Leave(q, "failed")
    /\ UNCHANGED <<call, loaded, victim, rows, subs, users, acl, log>>

\* The channels become a dictionary whose keys ignore case.
Serializable(channels) == \A c, d \in channels : Fold[c] = Fold[d] => c = d

\* Mutant: the event does not say whose channels it lists.
MutantNoTenantId(q) == [channels |-> loaded[q]]

Announcement(q) == [tenant |-> call[q].tenant, channels |-> loaded[q]]

Publish(q) ==
    /\ pc[q] = "publishing"
    /\ Serializable(loaded[q])
    /\ log' = Append(log, Announcement(q))
    /\ Leave(q, "ok")
    /\ UNCHANGED <<call, loaded, victim, rows, subs, users, acl>>

\* The event cannot be made, or the wait for Kafka's answer ends.
PublishFail(q) ==
    /\ pc[q] = "publishing"
    /\ Faults \/ ~Serializable(loaded[q])
    /\ Leave(q, "failed")
    /\ UNCHANGED <<call, loaded, victim, rows, subs, users, acl, log>>

--------------------------------------------------------------------------------
(* What outlives the wait of a request *)

\* ntfy carries out a call that its caller has given up.
Land(q) ==
    LET login == LoginOf[call[q].tenant] IN
    /\ \/ /\ late[q] = "registering"
          /\ users' = users \cup {login}
          /\ acl' = acl
       \/ /\ late[q] = "granting"
          /\ acl' = [acl EXCEPT ![login] = @ \cup {call[q].topic}]
          /\ users' = users
       \/ /\ late[q] = "revoking" /\ RevokeAuthorized
          /\ acl' = [acl EXCEPT ![login] = @ \ {call[q].topic}]
          /\ users' = users
    /\ late' = [late EXCEPT ![q] = "none"]
    /\ UNCHANGED <<call, pc, loaded, victim, rows, subs, log>>

\* The producer appends the event late, or again: it retries, is not idempotent, and keeps
\* what it was given when the wait is cancelled.
Resend(q) ==
    /\ Faults
    /\ "publishing" \in {pc[q], late[q]}
    /\ Serializable(loaded[q])
    /\ Len(log) < MaxLog
    /\ log' = Append(log, Announcement(q))
    /\ UNCHANGED <<call, pc, loaded, victim, late, rows, subs, users, acl>>

Next ==
    \/ \E q \in Requests, t \in Tenants : Create(q, t)
    \/ \E q \in Requests : Register(q)
    \/ \E q \in Requests : RegisterFail(q)
    \/ \E q \in Requests : InsertTenant(q)
    \/ \E q \in Requests : InsertTenantFail(q)
    \/ \E q \in Requests, t \in Tenants, k \in Topics : Add(q, t, k)
    \/ \E q \in Requests : Grant(q)
    \/ \E q \in Requests : GrantFail(q)
    \/ \E q \in Requests : InsertChannel(q)
    \/ \E q \in Requests : InsertChannelFail(q)
    \/ \E q \in Requests, t \in Tenants, k \in Topics : Remove(q, t, k)
    \/ \E q \in Requests : Delete(q)
    \/ \E q \in Requests : DeleteFail(q)
    \/ \E q \in Requests : Revoke(q)
    \/ \E q \in Requests : RevokeFail(q)
    \/ \E q \in Requests : Publish(q)
    \/ \E q \in Requests : PublishFail(q)
    \/ \E q \in Requests : Land(q)
    \/ \E q \in Requests : Resend(q)
    \/ \E q \in Requests : Abandon(q)

Spec == Init /\ [][Next]_vars

--------------------------------------------------------------------------------
(* Properties *)

\* Every variable stays in its type.
TypeOK ==
    /\ call \in [Requests -> Calls \cup {NoCall}]
    /\ pc \in [Requests -> Stages]
    /\ loaded \in [Requests -> SUBSET Topics]
    /\ victim \in [Requests -> Topics \cup {NoTopic}]
    /\ late \in [Requests -> Remote \cup {"none"}]
    /\ rows \subseteq Tenants
    /\ subs \in [Tenants -> SUBSET Topics]
    /\ users \subseteq Logins
    /\ acl \in [Logins -> SUBSET Topics]
    /\ log \in Seq(Announcements)

\* No two tenants share a login, although PostgreSQL does not enforce it and names that
\* differ by case or blanks give the same one: registering in ntfy first arbitrates.
OneTenantPerLogin ==
    \A t, u \in rows : LoginOf[t] = LoginOf[u] => t = u

\* A removal of topic k found a channel of t and is past its delete.
Removed(t, k) ==
    \E q \in Requests :
        call[q] = Call("remove", t, k) /\ victim[q] # NoTopic /\ pc[q] # "deleting"

\* A tenant may read every topic it has a channel for, unless a removal of that topic got
\* past its delete: the grant precedes the row, and nobody else's removal touches it.
AccessLostOnlyByRemoval ==
    \A t \in rows : \A k \in subs[t] :
        k \in acl[LoginOf[t]] \/ Removed(t, k)

\* A removal that answered 200 has taken the access away; only an add can have given it back.
AnsweredRemovalRevokes ==
    \A q \in Requests :
        /\ pc[q] = "ok"
        /\ call[q].kind = "remove"
        /\ call[q].topic \in acl[LoginOf[call[q].tenant]]
        => \E a \in Requests : call[a] = [call[q] EXCEPT !.kind = "add"]

\* Why t may read k without a channel: an add that failed half-way, or a removal of the
\* channel that failed half-way or was asked for by a name that differs in case.
Leftover(t, k) ==
    \/ \E q \in Requests : pc[q] = "failed" /\ call[q] = Call("add", t, k)
    \/ \E q \in Requests, c \in Topics :
           /\ call[q] = Call("remove", t, c) /\ victim[q] = k
           /\ pc[q] = "failed" \/ c # k

\* When no request runs, whoever may read a topic without a channel has such a request
\* behind it: neither interleaving requests nor answering them leave access otherwise.
StrayAccessIsExplained ==
    Quiet => \A t \in rows : \A k \in acl[LoginOf[t]] \ subs[t] : Leftover(t, k)

\* A removal took channel k from t; if it has answered, an event of t leaves k out.
TakenAway(t, k) ==
    \E r \in Requests, c \in Topics :
        /\ call[r] = Call("remove", t, c) /\ victim[r] = k /\ pc[r] # "deleting"
        /\ pc[r] = "ok" => \E j \in 1..Len(log) : log[j].tenant = t /\ k \notin log[j].channels

\* An event names a channel that its tenant no longer has only because another removal took
\* it, one that failed or has not answered yet, or whose own event leaves it out: however
\* requests interleave, an answered removal is never missing from the topic.
StaleEventIsExplained ==
    \A i \in 1..Len(log), t \in Tenants :
        log[i].tenant = t => \A k \in log[i].channels \ subs[t] : TakenAway(t, k)

\* When no request runs, nobody may read a topic it has no channel for.
NoAccessWithoutChannel ==
    Quiet => \A t \in rows : acl[LoginOf[t]] \subseteq subs[t]

\* When no request runs, the last event of a tenant names no channel that was removed.
LastEventIsCurrent ==
    Quiet => \A i \in 1..Len(log) :
        (\A j \in i + 1 .. Len(log) : log[j].tenant # log[i].tenant)
            => log[i].channels \subseteq subs[log[i].tenant]
================================================================================
