---------------------------- MODULE CodexAuthBroker ----------------------------
(***************************************************************************)
(* One Codex login shared by every process of a host                       *)
(* (providers/codex-auth-broker.ts).  A refresh token is good for one      *)
(* rotation, so a process that refreshes holds the host lock, notes the    *)
(* token it is about to present in an intent file, presents it, and writes *)
(* what it got back with write-then-rename.  Upstream may take the token   *)
(* and the answer never arrive; a process or the host may die between any  *)
(* two of these steps; `codex login' writes the same file without the lock.*)
(*                                                                         *)
(* Tokens are the numbers upstream issues them in.  A login is the pair of *)
(* an access and a refresh token and whether last_refresh is within        *)
(* minRotationIntervalMs.  Upstream and `codex login' are external, modelled*)
(* from the replies callUpstream tells apart.                              *)
(***************************************************************************)
EXTENDS Naturals, FiniteSets, Sequences

CONSTANTS
  Broker,          \* the processes of the host that run a broker
  Consumer,        \* Codex processes
  home,            \* the process that launched each of them
  NoBroker,
  MaxIssued,       \* bound: tokens upstream issues after the first login
  MaxLogins,       \* bound: times somebody runs `codex login'
  MaxCrashes       \* bound: process and host crashes together

ASSUME BrokerAssumption ==
  /\ IsFiniteSet(Broker) /\ NoBroker \notin Broker
  /\ home \in [Consumer -> Broker]
  /\ MaxIssued \in Nat /\ MaxLogins \in Nat /\ MaxCrashes \in Nat

Token   == 0 .. MaxIssued
NoToken == MaxIssued + 1
Login   == [access : Token, refresh : Token, recent : BOOLEAN]

VARIABLES
  canonical,   \* auth.json as a process reads it
  intent,      \* the token named by the intent file
  durable,     \* what a host crash may leave of the two
  lock,        \* who holds the write lock of the lock file
  phase,       \* how far the refresh of a process has come
  base,        \* the login it read under the lock
  granted,     \* the tokens upstream answered with
  chain,       \* consumers waiting in a process, in order
  lease,       \* consumers whose capability is in `leases'
  lastAccess,  \* the access token a consumer was last given
  deadRefresh, \* the token a process knows upstream refused
  valid,       \* upstream: refresh tokens it would still rotate
  late,        \* upstream: those of calls nobody waits for that it may still carry out
  issued, logins, crashes,
  presented,   \* history: tokens presented and neither refused nor confirmed since
  told,        \* history: the refusals a running process has been given
  warned       \* history: tokens a log says are spent, or may be

files   == <<canonical, intent, durable>>
refresh == <<lock, phase, base, granted>>
clients == <<chain, lease, lastAccess>>
server  == <<valid, late, issued>>
env     == <<logins, crashes>>
history == <<presented, told, warned>>
vars    == <<files, refresh, clients, deadRefresh, server, env, history>>

Phase == {"idle", "sent", "refused", "cleared", "granted", "renamed", "synced"}

(* The directory: the login and the intent. *)
Directory == [login : Login, intent : Token \cup {NoToken}]

TypeOK ==
  /\ canonical \in Login /\ intent \in Token \cup {NoToken} /\ durable \subseteq Directory
  /\ lock \in Broker \cup {NoBroker}
  /\ phase \in [Broker -> Phase]
  /\ base \in [Broker -> Login] /\ granted \in [Broker -> Login]
  /\ chain \in [Broker -> Seq(Consumer)]
  /\ lease \subseteq Consumer /\ lastAccess \in [Consumer -> Token]
  /\ deadRefresh \in [Broker -> Token \cup {NoToken}]
  /\ valid \subseteq Token /\ late \subseteq Token
  /\ issued \in Token /\ logins \in 0 .. MaxLogins /\ crashes \in 0 .. MaxCrashes
  /\ presented \subseteq Token /\ warned \subseteq Token
  /\ told \in [Broker -> SUBSET Token]

FirstLogin == [access |-> 0, refresh |-> 0, recent |-> FALSE]

Init ==
  /\ canonical = FirstLogin /\ intent = NoToken
  /\ durable = {[login |-> FirstLogin, intent |-> NoToken]}
  /\ lock = NoBroker
  /\ phase = [b \in Broker |-> "idle"]
  /\ base = [b \in Broker |-> FirstLogin] /\ granted = [b \in Broker |-> FirstLogin]
  /\ chain = [b \in Broker |-> <<>>]
  /\ lease = {} /\ lastAccess = [c \in Consumer |-> 0]
  /\ deadRefresh = [b \in Broker |-> NoToken]
  /\ valid = {0} /\ late = {} /\ issued = 0 /\ logins = 0 /\ crashes = 0
  /\ presented = {} /\ told = [b \in Broker |-> {}] /\ warned = {}

-----------------------------------------------------------------------------
(* The directory after a rename or a removal, which a host crash may undo,    *)
(* and after its fsync.  The file system keeps the order of changes, so a     *)
(* crash leaves the directory as it was after one of those since the fsync.   *)
Changed(login, mark) ==
  /\ canonical' = login /\ intent' = mark
  /\ durable' = durable \cup {[login |-> login, intent |-> mark]}

Synced(login, mark) ==
  /\ canonical' = login /\ intent' = mark
  /\ durable' = {[login |-> login, intent |-> mark]}

-----------------------------------------------------------------------------
(* Capabilities and requests *)

Queued(c) == \E i \in DOMAIN chain[home[c]] : chain[home[c]][i] = c

Lease(c) ==
  /\ c \notin lease /\ ~Queued(c)
  /\ lease' = lease \cup {c}
  /\ lastAccess' = [lastAccess EXCEPT ![c] = canonical.access]
  /\ UNCHANGED <<files, refresh, chain, deadRefresh, server, env, history>>

(* revoke(), close() and the end of the TTL.  A request already in the      *)
(* chain stays there.                                                       *)
Revoke(c) ==
  /\ c \in lease
  /\ lease' = lease \ {c} /\ lastAccess' = [lastAccess EXCEPT ![c] = 0]
  /\ UNCHANGED <<files, refresh, chain, deadRefresh, server, env, history>>

(* refreshFor: the request joins the chain of its process. *)
Request(c) ==
  /\ c \in lease /\ ~Queued(c)
  /\ chain' = [chain EXCEPT ![home[c]] = Append(@, c)]
  /\ UNCHANGED <<files, refresh, lease, lastAccess, deadRefresh, server, env, history>>

-----------------------------------------------------------------------------
(* refreshLocked, up to the upstream call: one synchronous stretch *)

Waiting(b)     == chain[b] # <<>> /\ phase[b] = "idle"
LockIgnored(b) == TRUE                          \* mutant
LockFree(b)    == lock = NoBroker
Answered(b)    == chain' = [chain EXCEPT ![b] = Tail(@)]
Known(b)       == deadRefresh[b] = canonical.refresh
Behind(c)      == canonical.access # lastAccess[c]

(* Served from the file, or refused, without a call. *)
AnswerWithoutCall(b) ==
  /\ Waiting(b) /\ LockFree(b)
  /\ LET c == Head(chain[b]) IN
       /\ c \notin lease \/ Behind(c) \/ canonical.recent \/ Known(b)
       /\ lastAccess' = IF c \in lease THEN [lastAccess EXCEPT ![c] = canonical.access]
                        ELSE lastAccess
  /\ Answered(b)
  /\ UNCHANGED <<files, refresh, lease, deadRefresh, server, env, history>>

MayCall(b) ==
  LET c == Head(chain[b]) IN c \in lease /\ ~Behind(c) /\ ~canonical.recent /\ ~Known(b)

(* noteInterruptedRefresh *)
Noted == IF intent = canonical.refresh THEN warned \cup {intent} ELSE warned

StartCall(b) ==
  /\ Waiting(b) /\ LockFree(b) /\ MayCall(b)
  /\ lock' = b /\ phase' = [phase EXCEPT ![b] = "sent"]
  /\ base' = [base EXCEPT ![b] = canonical]
  /\ warned' = Noted /\ Synced(canonical, canonical.refresh)
  /\ presented' = presented \cup {canonical.refresh}
  /\ UNCHANGED <<granted, clients, deadRefresh, server, env, told>>

(* auth.json cannot be read, or the intent not written.  (writeIntent may also *)
(* fail in its last fsync; the intent of no call that stays then is left out.) *)
FileFault(b) ==
  /\ Waiting(b) /\ LockFree(b)
  /\ warned' = warned \/ (MayCall(b) /\ warned' = Noted)
  /\ Answered(b)
  /\ UNCHANGED <<files, refresh, lease, lastAccess, deadRefresh, server, env, presented, told>>

WaitWithoutDeadline(b) == Waiting(b) /\ lock # NoBroker /\ UNCHANGED vars     \* mutant

(* The deadline of withHostLock passed while others held the lock. *)
LockTimeout(b) ==
  /\ Waiting(b) /\ lock # NoBroker
  /\ Answered(b)
  /\ UNCHANGED <<files, refresh, lease, lastAccess, deadRefresh, server, env, history>>

-----------------------------------------------------------------------------
(* Upstream *)

Rotates(t, n) == valid' = (valid \ {t}) \cup {n} /\ issued' = n

(* A reply may leave the refresh token as it was.  Either way earlier calls   *)
(* with it do not rotate it any more.                                         *)
UpstreamGrants(b) ==
  LET n == issued + 1
      t == base[b].refresh
  IN
  /\ phase[b] = "sent" /\ t \in valid /\ n \in Token
  /\ late' = late \ {t}
  /\ \/ /\ Rotates(t, n)
        /\ granted' = [granted EXCEPT ![b] = [access |-> n, refresh |-> n, recent |-> TRUE]]
     \/ /\ valid' = valid /\ issued' = n
        /\ granted' = [granted EXCEPT ![b] = [access |-> n, refresh |-> t, recent |-> TRUE]]
  /\ phase' = [phase EXCEPT ![b] = "granted"]
  /\ UNCHANGED <<files, lock, base, clients, deadRefresh, env, history>>

(* A call that timed out, or whose process died, is carried out after all. *)
LateCall(t) ==
  /\ t \in late /\ issued + 1 \in Token
  /\ late' = late \ {t} /\ Rotates(t, issued + 1)
  /\ UNCHANGED <<files, refresh, clients, deadRefresh, env, history>>

-----------------------------------------------------------------------------
(* refreshLocked, after the call *)

(* The lock is given up and the locals of refreshLocked are gone. *)
Release(b) ==
  /\ lock' = NoBroker
  /\ phase' = [phase EXCEPT ![b] = "idle"]
  /\ base' = [base EXCEPT ![b] = FirstLogin] /\ granted' = [granted EXCEPT ![b] = FirstLogin]

ClearedAfterFailure == NoToken                  \* mutant
IntentAfterFailure  == intent

(* Timeout, network error, 5xx, or a reply without an access token: upstream *)
(* may have rotated, so the intent stays.                                   *)
CallFails(b) ==
  /\ phase[b] \in {"sent", "granted"}
  /\ late' = IF phase[b] = "sent" THEN (late \cup {base[b].refresh}) \cap valid ELSE late
  /\ Changed(canonical, IntentAfterFailure)
  /\ Release(b) /\ Answered(b)
  /\ UNCHANGED <<lease, lastAccess, deadRefresh, valid, issued, env, history>>

Goes(b, to) == phase' = [phase EXCEPT ![b] = to] /\ UNCHANGED <<lock, base, granted>>

(* A 400, 401 or 403: the token is spent, or upstream says so. *)
Rejected(b) ==
  /\ phase[b] = "sent" /\ Goes(b, "refused")
  /\ deadRefresh' = [deadRefresh EXCEPT ![b] = base[b].refresh]
  /\ presented' = presented \ {base[b].refresh}
  /\ told' = [told EXCEPT ![b] = @ \cup {base[b].refresh}]
  /\ UNCHANGED <<files, clients, server, env, warned>>

(* clearIntent, which syncs nothing *)
ClearRefused(b) ==
  /\ phase[b] = "refused" /\ Goes(b, "cleared")
  /\ Changed(canonical, NoToken)
  /\ UNCHANGED <<clients, deadRefresh, server, env, history>>

(* codex_auth_login_rejected *)
LogRejection(b) ==
  /\ phase[b] = "cleared"
  /\ warned' = warned \cup {base[b].refresh}
  /\ Release(b) /\ Answered(b)
  /\ UNCHANGED <<files, lease, lastAccess, deadRefresh, server, env, presented, told>>

(* writeFileDurably: the rename. *)
Rename(b) ==
  /\ phase[b] = "granted" /\ Goes(b, "renamed")
  /\ Changed(granted[b], intent)
  /\ UNCHANGED <<clients, deadRefresh, server, env, history>>

(* writeFileDurably: the fsync of the directory. *)
SyncDirectory(b) ==
  /\ phase[b] = "renamed" /\ Goes(b, "synced")
  /\ Synced(canonical, intent)
  /\ UNCHANGED <<clients, deadRefresh, server, env, history>>

(* The temporary file cannot be written, the directory not synced, or the     *)
(* intent not removed.                                                        *)
WriteFails(b) ==
  /\ phase[b] \in {"granted", "renamed", "synced", "refused"}
  /\ Release(b) /\ Answered(b)
  /\ UNCHANGED <<files, lease, lastAccess, deadRefresh, server, env, history>>

(* clearIntent and the answer. *)
Finish(b) ==
  /\ phase[b] = "synced"
  /\ Changed(canonical, NoToken)
  /\ presented' = presented \ {granted[b].refresh}
  /\ LET c == Head(chain[b]) IN
       lastAccess' = IF c \in lease THEN [lastAccess EXCEPT ![c] = granted[b].access] ELSE lastAccess
  /\ Release(b) /\ Answered(b)
  /\ UNCHANGED <<lease, deadRefresh, server, env, told, warned>>

-----------------------------------------------------------------------------
(* The world *)

(* `codex login' on the host: a new grant, written without the lock. *)
CodexLogin ==
  LET n == issued + 1 IN
  /\ logins < MaxLogins /\ n \in Token
  /\ Changed([access |-> n, refresh |-> n, recent |-> TRUE], intent)
  /\ valid' = valid \cup {n} /\ issued' = n /\ logins' = logins + 1
  /\ UNCHANGED <<refresh, clients, deadRefresh, late, crashes, history>>

(* minRotationIntervalMs pass; what a crash may leave is no younger. *)
Old(login) == [login EXCEPT !.recent = FALSE]

Age ==
  /\ canonical.recent
  /\ canonical' = Old(canonical)
  /\ durable' = {[login |-> Old(d.login), intent |-> d.intent] : d \in durable}
  /\ UNCHANGED <<intent, refresh, clients, deadRefresh, server, env, history>>

LostCalls(Bs) == {base[b].refresh : b \in {b \in Bs : phase[b] = "sent"}}

(* What dies with the processes in Bs; the kernel drops their locks. *)
Die(Bs) ==
  /\ crashes < MaxCrashes /\ crashes' = crashes + 1
  /\ lock' = IF lock \in Bs THEN NoBroker ELSE lock
  /\ phase' = [b \in Broker |-> IF b \in Bs THEN "idle" ELSE phase[b]]
  /\ chain' = [b \in Broker |-> IF b \in Bs THEN <<>> ELSE chain[b]]
  /\ deadRefresh' = [b \in Broker |-> IF b \in Bs THEN NoToken ELSE deadRefresh[b]]
  /\ told' = [b \in Broker |-> IF b \in Bs THEN {} ELSE told[b]]
  /\ lease' = {c \in lease : home[c] \notin Bs}
  /\ lastAccess' = [c \in Consumer |-> IF home[c] \in Bs THEN 0 ELSE lastAccess[c]]
  /\ late' = (late \cup LostCalls(Bs)) \cap valid
  /\ base' = [b \in Broker |-> IF b \in Bs THEN FirstLogin ELSE base[b]]
  /\ granted' = [b \in Broker |-> IF b \in Bs THEN FirstLogin ELSE granted[b]]
  /\ UNCHANGED <<valid, issued, logins, presented, warned>>

ProcessCrash(b) == Die({b}) /\ UNCHANGED files

HostCrash ==
  /\ Die(Broker)
  /\ \E d \in durable : Synced(d.login, d.intent)

-----------------------------------------------------------------------------
BrokerStep(b) ==
  \/ AnswerWithoutCall(b) \/ StartCall(b) \/ FileFault(b) \/ LockTimeout(b)
  \/ CallFails(b) \/ Rejected(b) \/ ClearRefused(b) \/ LogRejection(b)
  \/ Rename(b) \/ SyncDirectory(b) \/ WriteFails(b) \/ Finish(b)

Next ==
  \/ \E c \in Consumer : Lease(c) \/ Revoke(c) \/ Request(c)
  \/ \E b \in Broker : BrokerStep(b) \/ UpstreamGrants(b) \/ ProcessCrash(b)
  \/ \E t \in Token : LateCall(t)
  \/ CodexLogin \/ Age \/ HostCrash

Spec == Init /\ [][Next]_vars

(* The event loop of a process runs on: the fetch ends by its own timeout,  *)
(* and a wait for the lock by its deadline.                                 *)
FairSpec == Spec /\ \A b \in Broker : WF_vars(BrokerStep(b))

-----------------------------------------------------------------------------
(* A login that upstream no longer honours is never a silent one: whatever   *)
(* failed, crashed or timed out, of the login in force and of any that a     *)
(* host crash may bring back, the intent file beside it names its refresh    *)
(* token, or a process logged that it may be spent                           *)
(* (codex_auth_previous_refresh_interrupted) or is                           *)
(* (codex_auth_login_rejected).                                              *)
SpentIsKnown ==
  \A d \in durable \cup {[login |-> canonical, intent |-> intent]} :
    d.login.refresh \in valid \/ d.intent = d.login.refresh \/ d.login.refresh \in warned

(* A refresh token is presented again only with an eye on the first time:    *)
(* no other process has a call with it outstanding, this process was never   *)
(* refused it, and if an earlier call with it ended unknown, the intent says *)
(* so (codex_auth_previous_refresh_interrupted).                             *)
NoBlindReplay ==
  [][\A b \in Broker : phase[b] = "idle" /\ phase'[b] = "sent" =>
       LET t == base'[b].refresh IN
         /\ \A o \in Broker \ {b} : phase[o] # "idle" => base[o].refresh # t
         /\ t \notin told[b]
         /\ t \in presented => intent = t]_vars

(* Every refresh request is answered, or the process that took it is gone:   *)
(* neither a lost reply, nor a lock held by another process, nor a failed    *)
(* write leaves the chain stuck.                                             *)
EveryRequestAnswered ==
  \A c \in Consumer : Queued(c) ~> ~Queued(c)

================================================================================
