------------------------- MODULE CodexAuthBrokerProofs -------------------------
(***************************************************************************)
(* Theorems about the shared login (CodexAuthBroker), for any processes,   *)
(* Codex processes and numbers of tokens, logins and crashes.              *)
(*                                                                         *)
(* SpentIsKnown is not inductive: a late call may still take a token from  *)
(* upstream, and what a process holds between the answer and the rename,   *)
(* or read before the call, is written or logged later.  The invariant     *)
(* says of every directory a host crash may leave that a token which is    *)
(* spent, may yet be, or was presented, is named by the intent beside it   *)
(* (or, if spent, warned of), and that all those directories name the      *)
(* token of a refresh under way.                                           *)
(***************************************************************************)
EXTENDS CodexAuthBroker, TLAPS

Typed ==
  /\ canonical \in Login /\ intent \in Token \cup {NoToken} /\ durable \subseteq Directory
  /\ phase \in [Broker -> Phase] /\ base \in [Broker -> Login] /\ granted \in [Broker -> Login]
  /\ deadRefresh \in [Broker -> Token \cup {NoToken}] /\ told \in [Broker -> SUBSET Token]
  /\ valid \subseteq Token /\ late \subseteq valid /\ presented \subseteq Token
  /\ issued \in Token

(* Nothing is numbered beyond what upstream issued. *)
Issued(t) == t <= issued

Numbered ==
  /\ \A t \in valid \cup presented : Issued(t)
  /\ \A b \in Broker : Issued(base[b].refresh) /\ Issued(granted[b].refresh)
  /\ \A b \in Broker : \A t \in told[b] : Issued(t)

(* What processes read is one of what a host crash may leave. *)
Here == [login |-> canonical, intent |-> intent]

(* Spent, or about to be by a call nobody waits for. *)
AtRisk(t) == t \notin valid \/ t \in late

(* A token at risk is named by the intent beside it or was warned of; a       *)
(* presented one is named.                                                    *)
Accounted(d) ==
  /\ AtRisk(d.login.refresh) => d.intent = d.login.refresh \/ d.login.refresh \in warned
  /\ d.login.refresh \in presented => d.intent = d.login.refresh

(* A process in the middle of a refresh holds the lock, and until it removes  *)
(* the intent every directory a crash may leave names its token.              *)
Holding(b) ==
  /\ phase[b] # "idle" => lock = b
  /\ phase[b] \in {"sent", "refused", "granted", "renamed", "synced"} =>
       \A d \in durable : d.intent = base[b].refresh
  /\ phase[b] \in {"sent", "granted", "renamed", "synced"} => base[b].refresh \in presented
  /\ phase[b] \in {"refused", "cleared"} => base[b].refresh \notin presented

(* Until it is known what became of the call, a token at risk was warned of. *)
WarnedBase(b) ==
  phase[b] \in {"sent", "refused", "cleared"} /\ AtRisk(base[b].refresh) =>
    base[b].refresh \in warned

(* What upstream granted is good and new, or the old token kept. *)
GrantedIsGood(b) ==
  phase[b] \in {"granted", "renamed", "synced"} =>
    /\ ~AtRisk(granted[b].refresh)
    /\ \/ granted[b].refresh \notin presented /\ \A x \in Broker : granted[b].refresh \notin told[x]
       \/ granted[b].refresh = base[b].refresh

(* The file a process has renamed holds the grant, or a newer login. *)
Written(b) ==
  phase[b] \in {"renamed", "synced"} =>
    canonical.refresh = granted[b].refresh \/ canonical.refresh \notin presented

(* A running process remembers the refusal that still matters. *)
Remembered(t) == \A b \in Broker : t \in told[b] => deadRefresh[b] = t

NotTold(b) ==
  /\ phase[b] = "sent" => canonical.refresh \notin told[b]
  /\ phase[b] \in {"sent", "granted"} =>
       base[b].refresh \notin told[b] /\ Remembered(base[b].refresh)

Process(b) == Holding(b) /\ WarnedBase(b) /\ GrantedIsGood(b) /\ Written(b) /\ NotTold(b)

Directories ==
  /\ Here \in durable
  /\ \A d \in durable : Accounted(d) /\ Issued(d.login.refresh)
  /\ Remembered(canonical.refresh)

IInv == Typed /\ Numbered /\ Directories /\ \A b \in Broker : Process(b)

core == <<files, lock, phase, base, granted, deadRefresh, server, presented, told>>

-----------------------------------------------------------------------------
LEMMA NumbersAreNaturals ==
  /\ Token \subseteq Nat /\ 0 \in Token /\ NoToken \notin Token
  /\ FirstLogin \in Login
  BY BrokerAssumption DEF Token, NoToken, Login, FirstLogin

LEMMA InitInv == Init => IInv
<1> SUFFICES ASSUME Init PROVE IInv
  OBVIOUS
<1>1. Typed
  BY NumbersAreNaturals DEF Init, Typed, Directory, Phase
<1>2. Numbered
  BY DEF Init, Numbered, Issued, FirstLogin
<1>3. Directories
  BY DEF Init, Directories, Here, Accounted, AtRisk, Issued, Remembered, FirstLogin
<1>4. \A b \in Broker : Process(b)
  BY DEF Init, Process, Holding, WarnedBase, GrantedIsGood, Written, NotTold
<1> QED BY <1>1, <1>2, <1>3, <1>4 DEF IInv

(* Nothing of this depends on what clients and counters do, nor on a warning  *)
(* more.                                                                      *)
LEMMA CoreUnchanged ==
  ASSUME IInv, UNCHANGED core, warned \subseteq warned'
  PROVE  IInv'
<1> USE DEF core, files, server
<1>1. Typed' /\ Numbered'
  BY DEF IInv, Typed, Numbered, Issued
<1>2. Directories'
  BY DEF IInv, Directories, Here, Accounted, AtRisk, Issued, Remembered
<1>3. ASSUME NEW b \in Broker PROVE Process(b)'
  BY DEF IInv, Process, Holding, WarnedBase, GrantedIsGood, Written, NotTold, AtRisk, Remembered
<1> QED BY <1>1, <1>2, <1>3 DEF IInv

(* One process at a time is past the lock. *)
LEMMA OnePastTheLock ==
  ASSUME IInv, NEW b \in Broker, phase[b] # "idle", NEW o \in Broker, o # b
  PROVE  phase[o] = "idle"
  BY DEF IInv, Process, Holding

(* The refresh of a process is over: nobody is past the lock. *)
LEMMA ReleaseFacts ==
  ASSUME IInv, NEW b \in Broker, phase[b] # "idle", Release(b)
  PROVE  /\ phase' \in [Broker -> Phase] /\ base' \in [Broker -> Login] /\ granted' \in [Broker -> Login]
         /\ \A o \in Broker : phase'[o] = "idle"
         /\ \A o \in Broker : base'[o] \in {base[o], FirstLogin} /\ granted'[o] \in {granted[o], FirstLogin}
<1> USE DEF Release, IInv, Typed
<1>1. \A o \in Broker \ {b} : phase[o] = "idle"
  BY OnePastTheLock
<1>2. phase' \in [Broker -> Phase] /\ \A o \in Broker : phase'[o] = "idle"
  BY <1>1 DEF Phase
<1> QED BY <1>2, NumbersAreNaturals

(* What is numbered stays so when processes only forget what they read. *)
LEMMA NumberedAfterRelease ==
  ASSUME IInv, UNCHANGED issued,
         \A o \in Broker : base'[o] \in {base[o], FirstLogin} /\ granted'[o] \in {granted[o], FirstLogin},
         valid' \subseteq valid, presented' \subseteq presented,
         \A o \in Broker : told'[o] \subseteq told[o]
  PROVE  Numbered'
<1>1. Issued(FirstLogin.refresh)
  BY NumbersAreNaturals DEF IInv, Typed, Issued, FirstLogin
<1> QED BY <1>1 DEF IInv, Numbered, Issued

-----------------------------------------------------------------------------
LEMMA StartCallInv ==
  ASSUME IInv, NEW b \in Broker, StartCall(b)
  PROVE  IInv'
<1> USE DEF IInv
<1> DEFINE t == canonical.refresh
<1>1. /\ lock = NoBroker /\ lock' = b /\ phase' = [phase EXCEPT ![b] = "sent"]
      /\ base' = [base EXCEPT ![b] = canonical] /\ granted' = granted
      /\ canonical' = canonical /\ intent' = t /\ durable' = {[login |-> canonical, intent |-> t]}
      /\ warned' = Noted /\ presented' = presented \cup {t}
      /\ UNCHANGED <<deadRefresh, valid, late, issued, told>>
  BY DEF StartCall, LockFree, Synced, clients, server, env
<1>2. t \in Token /\ canonical \in Login /\ Issued(t)
  BY DEF Typed, Login, Directories, Here
<1>3. \A o \in Broker : phase[o] = "idle"
  BY <1>1, BrokerAssumption DEF Process, Holding
<1>4. Accounted(Here) /\ Remembered(t)
  BY DEF Directories
<1>5. AtRisk(t) => t \in warned'
  BY <1>1, <1>4 DEF Accounted, Here, Noted
<1>6. t \notin told[b]
  BY <1>4 DEF StartCall, MayCall, Known, Remembered
<1>7. Typed'
  <2>1. durable' \subseteq Directory
    BY <1>1, <1>2 DEF Directory
  <2> QED BY <1>1, <1>2, <2>1 DEF Typed, Phase
<1>8. Numbered'
  BY <1>1, <1>2 DEF Numbered, Issued, Typed
<1>9. Directories'
  <2>1. Here' = [login |-> canonical, intent |-> t]
    BY <1>1 DEF Here
  <2>2. Accounted([login |-> canonical, intent |-> t])' /\ Issued(t)'
    BY <1>1, <1>2 DEF Accounted, Issued
  <2> QED BY <1>1, <1>4, <2>1, <2>2 DEF Directories, Remembered
<1>10. ASSUME NEW o \in Broker PROVE Process(o)'
  <2>1. CASE o # b
    <3>1. phase'[o] = "idle"
      BY <1>1, <1>3, <2>1 DEF Typed
    <3> QED BY <3>1 DEF Process, Holding, WarnedBase, GrantedIsGood, Written, NotTold
  <2>2. CASE o = b
    <3>1. phase'[b] = "sent" /\ base'[b] = canonical
      BY <1>1 DEF Typed
    <3>2. Holding(b)'
      BY <1>1, <3>1 DEF Holding
    <3>3. WarnedBase(b)'
      BY <1>1, <1>5, <3>1 DEF WarnedBase, AtRisk
    <3>4. GrantedIsGood(b)' /\ Written(b)'
      BY <3>1 DEF GrantedIsGood, Written
    <3>5. NotTold(b)'
      BY <1>1, <1>4, <1>6, <3>1 DEF NotTold, Remembered
    <3> QED BY <2>2, <3>2, <3>3, <3>4, <3>5 DEF Process
  <2> QED BY <2>1, <2>2
<1> QED BY <1>7, <1>8, <1>9, <1>10

LEMMA UpstreamGrantsInv ==
  ASSUME IInv, NEW b \in Broker, UpstreamGrants(b)
  PROVE  IInv'
<1> USE DEF IInv
<1> DEFINE n == issued + 1
           t == base[b].refresh
<1>1. /\ phase[b] = "sent" /\ phase' = [phase EXCEPT ![b] = "granted"]
      /\ n \in Token /\ issued' = n /\ t \in valid /\ late' = late \ {t}
      /\ UNCHANGED <<canonical, intent, durable, lock, base, deadRefresh, presented, told, warned>>
  BY DEF UpstreamGrants, Rotates, files, clients, env, history
<1>2. \A o \in Broker \ {b} : phase[o] = "idle"
  BY <1>1, OnePastTheLock
<1>3. /\ granted' \in [Broker -> Login] /\ valid' \subseteq Token /\ late' \subseteq valid'
      /\ \A o \in Broker \ {b} : granted'[o] = granted[o]
      /\ granted'[b].refresh \in {n, t} /\ granted'[b].refresh \in valid'
      /\ \A v \in valid' : v \in valid \/ v = n
      /\ \A v \in valid : v \in valid' \/ v = t
  <2>1. CASE /\ Rotates(t, n)
             /\ granted' = [granted EXCEPT ![b] = [access |-> n, refresh |-> n, recent |-> TRUE]]
    <3>1. [access |-> n, refresh |-> n, recent |-> TRUE] \in Login
      BY <1>1 DEF Login
    <3> QED BY <1>1, <2>1, <3>1 DEF Rotates, Typed
  <2>2. CASE /\ valid' = valid
             /\ granted' = [granted EXCEPT ![b] = [access |-> n, refresh |-> t, recent |-> TRUE]]
    <3>1. [access |-> n, refresh |-> t, recent |-> TRUE] \in Login
      BY <1>1 DEF Login, Typed
    <3> QED BY <1>1, <2>2, <3>1 DEF Typed
  <2> QED BY <2>1, <2>2 DEF UpstreamGrants
<1>4. issued \in Nat /\ \A k : Issued(k) => k # n
  BY NumbersAreNaturals DEF Issued, Typed
<1>5. n \notin valid /\ n \notin presented /\ \A x \in Broker : n \notin told[x]
  BY <1>4 DEF Numbered
<1>6. n <= issued' /\ \A k \in Token : Issued(k) => Issued(k)'
  BY <1>1, <1>4, NumbersAreNaturals DEF Issued
<1>7. \A k : AtRisk(k)' => AtRisk(k) \/ k = t
  BY <1>1, <1>3 DEF AtRisk
<1>8. Typed'
  BY <1>1, <1>3 DEF Typed, Phase
<1>9. Numbered'
  <2>1. \A o \in Broker : base[o].refresh \in Token /\ granted[o].refresh \in Token
    BY DEF Typed, Login
  <2>2. \A o \in Broker : Issued(granted[o].refresh)'
    BY <1>1, <1>3, <1>6, <2>1 DEF Numbered, Issued
  <2>3. (\A k \in valid \cup presented : Issued(k))'
    BY <1>1, <1>3, <1>6 DEF Numbered, Issued, Typed
  <2>4. \A o \in Broker : (Issued(base[o].refresh) /\ \A k \in told[o] : Issued(k))'
    BY <1>1, <1>6, <2>1 DEF Numbered, Typed
  <2> QED BY <2>2, <2>3, <2>4 DEF Numbered
<1>10. \A d \in durable : d.intent = t
  BY <1>1 DEF Process, Holding
<1>11. Directories'
  <2>1. ASSUME NEW d \in durable PROVE Accounted(d)' /\ Issued(d.login.refresh)'
    <3>1. Accounted(d) /\ Issued(d.login.refresh) /\ d.login.refresh \in Token
      BY <2>1 DEF Directories, Typed, Directory, Login
    <3> QED BY <1>1, <1>6, <1>7, <1>10, <2>1, <3>1 DEF Accounted
  <2> QED BY <1>1, <2>1 DEF Directories, Here, Remembered
<1>12. ASSUME NEW o \in Broker PROVE Process(o)'
  <2>1. CASE o # b
    <3>1. phase'[o] = "idle"
      BY <1>1, <1>2, <2>1 DEF Typed
    <3> QED BY <3>1 DEF Process, Holding, WarnedBase, GrantedIsGood, Written, NotTold
  <2>2. CASE o = b
    <3>1. phase'[b] = "granted"
      BY <1>1 DEF Typed
    <3>2. Holding(b)' /\ Written(b)' /\ NotTold(b)' /\ WarnedBase(b)'
      BY <1>1, <3>1 DEF Process, Holding, WarnedBase, Written, NotTold, Remembered
    <3>3. ~AtRisk(granted[b].refresh)'
      BY <1>1, <1>3, <1>5 DEF AtRisk, Typed
    <3>4. GrantedIsGood(b)'
      BY <1>1, <1>3, <1>5, <3>3 DEF GrantedIsGood
    <3> QED BY <2>2, <3>2, <3>4 DEF Process
  <2> QED BY <2>1, <2>2
<1> QED BY <1>8, <1>9, <1>11, <1>12

LEMMA LateCallInv ==
  ASSUME IInv, NEW t \in Token, LateCall(t)
  PROVE  IInv'
<1> USE DEF IInv
<1> DEFINE n == issued + 1
<1>1. /\ t \in late /\ n \in Token /\ issued' = n
      /\ late' = late \ {t} /\ valid' = (valid \ {t}) \cup {n}
      /\ UNCHANGED <<canonical, intent, durable, lock, phase, base, granted, deadRefresh, presented,
                     told, warned>>
  BY DEF LateCall, Rotates, files, refresh, clients, env, history
<1>2. issued \in Nat /\ \A k \in Token : Issued(k) => Issued(k)'
  BY <1>1, NumbersAreNaturals DEF Typed, Issued
<1>3. n \notin valid /\ n <= issued'
  BY <1>1, <1>2 DEF Numbered, Issued
<1>4. \A k : AtRisk(k)' => AtRisk(k)
  BY <1>1 DEF AtRisk
<1>5. Typed'
  BY <1>1 DEF Typed
<1>6. Numbered'
  <2>1. \A o \in Broker : base[o].refresh \in Token /\ granted[o].refresh \in Token
    BY DEF Typed, Login
  <2>2. (\A k \in valid \cup presented : Issued(k))'
    BY <1>1, <1>2, <1>3 DEF Numbered, Issued, Typed
  <2> QED BY <1>1, <1>2, <2>1, <2>2 DEF Numbered, Typed
<1>7. Directories'
  <2>1. ASSUME NEW d \in durable PROVE Accounted(d)' /\ Issued(d.login.refresh)'
    <3>1. Accounted(d) /\ Issued(d.login.refresh) /\ d.login.refresh \in Token
      BY <2>1 DEF Directories, Typed, Directory, Login
    <3> QED BY <1>1, <1>2, <1>4, <3>1 DEF Accounted
  <2> QED BY <1>1, <2>1 DEF Directories, Here, Remembered
<1>8. ASSUME NEW o \in Broker PROVE Process(o)'
  <2>1. Holding(o)' /\ Written(o)' /\ NotTold(o)'
    BY <1>1 DEF Process, Holding, Written, NotTold, Remembered
  <2>2. WarnedBase(o)'
    BY <1>1, <1>4 DEF Process, WarnedBase
  <2>3. GrantedIsGood(o)'
    BY <1>1, <1>4 DEF Process, GrantedIsGood
  <2> QED BY <2>1, <2>2, <2>3 DEF Process
<1> QED BY <1>5, <1>6, <1>7, <1>8

(* Timeout, network error, a failed write: the intent stays, and the call may *)
(* be carried out later.                                                      *)
LEMMA GivesUpInv ==
  ASSUME IInv, NEW b \in Broker, CallFails(b) \/ WriteFails(b)
  PROVE  IInv'
<1> USE DEF IInv
<1>1. /\ phase[b] # "idle" /\ Release(b)
      /\ late \subseteq late' /\ late' \subseteq valid
      /\ \/ late' = late
         \/ phase[b] = "sent" /\ late' \subseteq late \cup {base[b].refresh}
      /\ canonical' = canonical /\ intent' = intent /\ durable' = durable \cup {Here}
      /\ UNCHANGED <<deadRefresh, valid, issued, presented, told, warned>>
  <2>1. CASE CallFails(b)
    BY <2>1 DEF CallFails, Changed, Here, IntentAfterFailure, env, history, Typed
  <2>2. CASE WriteFails(b)
    BY <2>2 DEF WriteFails, Directories, files, server, env, history, Typed
  <2> QED BY <2>1, <2>2
<1>2. durable' = durable
  BY <1>1 DEF Directories
<1>3. /\ phase' \in [Broker -> Phase] /\ base' \in [Broker -> Login] /\ granted' \in [Broker -> Login]
      /\ \A o \in Broker : phase'[o] = "idle"
  BY <1>1, ReleaseFacts
<1>4. Typed'
  BY <1>1, <1>2, <1>3 DEF Typed
<1>5. Numbered'
  BY <1>1, ReleaseFacts, NumberedAfterRelease
<1>6. Directories'
  <2>1. ASSUME NEW d \in durable PROVE Accounted(d)' /\ Issued(d.login.refresh)'
    <3>1. Accounted(d) /\ Issued(d.login.refresh)
      BY <2>1 DEF Directories
    <3>2. CASE late' = late
      BY <1>1, <3>1, <3>2 DEF Accounted, AtRisk, Issued
    <3>3. CASE phase[b] = "sent" /\ late' \subseteq late \cup {base[b].refresh}
      <4>1. d.intent = base[b].refresh
        BY <3>3, <2>1 DEF Process, Holding
      <4> QED BY <1>1, <3>1, <3>3, <4>1 DEF Accounted, AtRisk, Issued
    <3> QED BY <1>1, <3>2, <3>3
  <2> QED BY <1>1, <1>2, <2>1 DEF Directories, Here, Remembered
<1>7. ASSUME NEW o \in Broker PROVE Process(o)'
  BY <1>3 DEF Process, Holding, WarnedBase, GrantedIsGood, Written, NotTold
<1> QED BY <1>4, <1>5, <1>6, <1>7

LEMMA RejectedInv ==
  ASSUME IInv, NEW b \in Broker, Rejected(b)
  PROVE  IInv'
<1> USE DEF IInv
<1> DEFINE t == base[b].refresh
<1>1. /\ phase[b] = "sent" /\ phase' = [phase EXCEPT ![b] = "refused"]
      /\ deadRefresh' = [deadRefresh EXCEPT ![b] = t]
      /\ told' = [told EXCEPT ![b] = @ \cup {t}] /\ presented' = presented \ {t}
      /\ UNCHANGED <<canonical, intent, durable, lock, base, granted, valid, late, issued, warned>>
  BY DEF Rejected, Goes, files, clients, server, env
<1>2. \A o \in Broker \ {b} : phase[o] = "idle"
  BY <1>1, OnePastTheLock
<1>3. /\ Holding(b) /\ WarnedBase(b) /\ NotTold(b) /\ t \in presented /\ t \in Token
  BY <1>1 DEF Process, Holding, Typed
<1>4. Typed'
  BY <1>1, <1>3 DEF Typed, Phase
<1>5. Numbered'
  BY <1>1, <1>3 DEF Numbered, Issued, Typed
<1>6. Directories'
  <2>1. Remembered(canonical.refresh)'
    BY <1>1, <1>3 DEF Directories, NotTold, Remembered, Typed
  <2>2. ASSUME NEW d \in durable PROVE Accounted(d)' /\ Issued(d.login.refresh)'
    BY <1>1, <2>2 DEF Directories, Accounted, AtRisk, Issued
  <2> QED BY <1>1, <2>1, <2>2 DEF Directories, Here
<1>7. ASSUME NEW o \in Broker PROVE Process(o)'
  <2>1. CASE o # b
    <3>1. phase'[o] = "idle"
      BY <1>1, <1>2, <2>1 DEF Typed
    <3> QED BY <3>1 DEF Process, Holding, WarnedBase, GrantedIsGood, Written, NotTold
  <2>2. CASE o = b
    <3>1. phase'[b] = "refused"
      BY <1>1 DEF Typed
    <3> QED
      BY <1>1, <1>3, <2>2, <3>1
      DEF Process, Holding, WarnedBase, GrantedIsGood, Written, NotTold, AtRisk
  <2> QED BY <2>1, <2>2
<1> QED BY <1>4, <1>5, <1>6, <1>7

LEMMA ClearRefusedInv ==
  ASSUME IInv, NEW b \in Broker, ClearRefused(b)
  PROVE  IInv'
<1> USE DEF IInv
<1> DEFINE t == base[b].refresh
           bare == [login |-> canonical, intent |-> NoToken]
<1>1. /\ phase[b] = "refused" /\ phase' = [phase EXCEPT ![b] = "cleared"]
      /\ canonical' = canonical /\ intent' = NoToken /\ durable' = durable \cup {bare}
      /\ UNCHANGED <<lock, base, granted, deadRefresh, valid, late, issued, presented, told, warned>>
  BY DEF ClearRefused, Changed, Goes, clients, server, env, history
<1>2. \A o \in Broker \ {b} : phase[o] = "idle"
  BY <1>1, OnePastTheLock
<1>3. /\ lock = b /\ WarnedBase(b) /\ t \notin presented /\ intent = t
  BY <1>1 DEF Process, Holding, Directories, Here
<1>4. bare \in Directory
  BY DEF Typed, Directory
<1>5. Typed'
  BY <1>1, <1>4 DEF Typed, Phase
<1>6. Numbered'
  BY <1>1 DEF Numbered, Issued
<1>7. Accounted(bare) /\ Issued(canonical.refresh)
  <2>1. Accounted(Here) /\ Issued(canonical.refresh)
    BY DEF Directories, Here
  <2> QED BY <1>1, <1>3, <2>1 DEF Accounted, Here, WarnedBase
<1>8. Directories'
  <2>1. ASSUME NEW d \in durable' PROVE Accounted(d)' /\ Issued(d.login.refresh)'
    BY <1>1, <1>7, <2>1 DEF Directories, Accounted, AtRisk, Issued
  <2> QED BY <1>1, <2>1 DEF Directories, Here, Remembered
<1>9. ASSUME NEW o \in Broker PROVE Process(o)'
  <2>1. CASE o # b
    <3>1. phase'[o] = "idle"
      BY <1>1, <1>2, <2>1 DEF Typed
    <3> QED BY <3>1 DEF Process, Holding, WarnedBase, GrantedIsGood, Written, NotTold
  <2>2. CASE o = b
    <3>1. phase'[b] = "cleared"
      BY <1>1 DEF Typed
    <3> QED
      BY <1>1, <1>3, <2>2, <3>1
      DEF Process, Holding, WarnedBase, GrantedIsGood, Written, NotTold, AtRisk
  <2> QED BY <2>1, <2>2
<1> QED BY <1>5, <1>6, <1>8, <1>9

LEMMA LogRejectionInv ==
  ASSUME IInv, NEW b \in Broker, LogRejection(b)
  PROVE  IInv'
<1> USE DEF IInv
<1>1. /\ phase[b] # "idle" /\ Release(b) /\ warned \subseteq warned'
      /\ UNCHANGED <<canonical, intent, durable, deadRefresh, valid, late, issued, presented, told>>
  BY DEF LogRejection, files, server, env
<1>2. /\ phase' \in [Broker -> Phase] /\ base' \in [Broker -> Login] /\ granted' \in [Broker -> Login]
      /\ \A o \in Broker : phase'[o] = "idle"
  BY <1>1, ReleaseFacts
<1>3. Typed'
  BY <1>1, <1>2 DEF Typed
<1>4. Numbered'
  BY <1>1, ReleaseFacts, NumberedAfterRelease
<1>5. Directories'
  BY <1>1 DEF Directories, Here, Accounted, AtRisk, Issued, Remembered
<1>6. ASSUME NEW o \in Broker PROVE Process(o)'
  BY <1>2 DEF Process, Holding, WarnedBase, GrantedIsGood, Written, NotTold
<1> QED BY <1>3, <1>4, <1>5, <1>6

LEMMA RenameInv ==
  ASSUME IInv, NEW b \in Broker, Rename(b)
  PROVE  IInv'
<1> USE DEF IInv
<1> DEFINE g == granted[b].refresh
           new == [login |-> granted[b], intent |-> intent]
<1>1. /\ phase[b] = "granted" /\ phase' = [phase EXCEPT ![b] = "renamed"]
      /\ canonical' = granted[b] /\ intent' = intent /\ durable' = durable \cup {new}
      /\ UNCHANGED <<lock, base, granted, deadRefresh, valid, late, issued, presented, told, warned>>
  BY DEF Rename, Changed, Goes, clients, server, env, history
<1>2. \A o \in Broker \ {b} : phase[o] = "idle"
  BY <1>1, OnePastTheLock
<1>3. Holding(b) /\ GrantedIsGood(b) /\ NotTold(b) /\ intent = base[b].refresh
  BY <1>1 DEF Process, Holding, Directories, Here
<1>4. granted[b] \in Login /\ new \in Directory
  BY DEF Typed, Directory
<1>5. Typed'
  BY <1>1, <1>4 DEF Typed, Phase
<1>6. Numbered'
  BY <1>1 DEF Numbered, Issued
<1>7. Accounted(new) /\ Issued(g)
  BY <1>1, <1>3 DEF Accounted, GrantedIsGood, Numbered
<1>8. Remembered(g)
  BY <1>1, <1>3 DEF GrantedIsGood, NotTold, Remembered
<1>9. Directories'
  <2>1. ASSUME NEW d \in durable' PROVE Accounted(d)' /\ Issued(d.login.refresh)'
    BY <1>1, <1>7, <2>1 DEF Directories, Accounted, AtRisk, Issued
  <2> QED BY <1>1, <1>8, <2>1 DEF Directories, Here, Remembered
<1>10. ASSUME NEW o \in Broker PROVE Process(o)'
  <2>1. CASE o # b
    <3>1. phase'[o] = "idle"
      BY <1>1, <1>2, <2>1 DEF Typed
    <3> QED BY <3>1 DEF Process, Holding, WarnedBase, GrantedIsGood, Written, NotTold
  <2>2. CASE o = b
    <3>1. phase'[b] = "renamed"
      BY <1>1 DEF Typed
    <3> QED
      BY <1>1, <1>3, <2>2, <3>1
      DEF Process, Holding, WarnedBase, GrantedIsGood, Written, NotTold, AtRisk
  <2> QED BY <2>1, <2>2
<1> QED BY <1>5, <1>6, <1>9, <1>10

LEMMA SyncDirectoryInv ==
  ASSUME IInv, NEW b \in Broker, SyncDirectory(b)
  PROVE  IInv'
<1> USE DEF IInv
<1>1. /\ phase[b] = "renamed" /\ phase' = [phase EXCEPT ![b] = "synced"]
      /\ canonical' = canonical /\ intent' = intent /\ durable' = {Here}
      /\ UNCHANGED <<lock, base, granted, deadRefresh, valid, late, issued, presented, told, warned>>
  BY DEF SyncDirectory, Synced, Here, Goes, clients, server, env, history
<1>2. \A o \in Broker \ {b} : phase[o] = "idle"
  BY <1>1, OnePastTheLock
<1>3. Process(b) /\ Here \in durable
  BY DEF Directories
<1>4. Typed' /\ Numbered'
  BY <1>1, <1>3 DEF Typed, Numbered, Issued, Phase
<1>5. Directories'
  BY <1>1, <1>3 DEF Directories, Here, Accounted, AtRisk, Issued, Remembered
<1>6. ASSUME NEW o \in Broker PROVE Process(o)'
  <2>1. CASE o # b
    <3>1. phase'[o] = "idle"
      BY <1>1, <1>2, <2>1 DEF Typed
    <3> QED BY <3>1 DEF Process, Holding, WarnedBase, GrantedIsGood, Written, NotTold
  <2>2. CASE o = b
    <3>1. phase'[b] = "synced"
      BY <1>1 DEF Typed
    <3> QED
      BY <1>1, <1>3, <2>2, <3>1
      DEF Process, Holding, WarnedBase, GrantedIsGood, Written, NotTold, AtRisk
  <2> QED BY <2>1, <2>2
<1> QED BY <1>4, <1>5, <1>6

LEMMA FinishInv ==
  ASSUME IInv, NEW b \in Broker, Finish(b)
  PROVE  IInv'
<1> USE DEF IInv
<1> DEFINE g == granted[b].refresh
           t == base[b].refresh
           bare == [login |-> canonical, intent |-> NoToken]
<1>1. /\ phase[b] = "synced" /\ Release(b) /\ presented' = presented \ {g}
      /\ canonical' = canonical /\ intent' = NoToken /\ durable' = durable \cup {bare}
      /\ UNCHANGED <<deadRefresh, valid, late, issued, told, warned>>
  BY DEF Finish, Changed, server, env
<1>2. /\ phase' \in [Broker -> Phase] /\ base' \in [Broker -> Login] /\ granted' \in [Broker -> Login]
      /\ \A o \in Broker : phase'[o] = "idle"
  BY <1>1, ReleaseFacts
<1>3. ~AtRisk(g) /\ t \in presented /\ intent = t
  BY <1>1 DEF Process, Holding, GrantedIsGood, Directories, Here
<1>4. canonical.refresh = g \/ canonical.refresh \notin presented
  BY <1>1 DEF Process, Written
<1>5. bare \in Directory
  BY DEF Typed, Directory
<1>6. Typed'
  BY <1>1, <1>2, <1>5 DEF Typed
<1>7. Numbered'
  BY <1>1, ReleaseFacts, NumberedAfterRelease
<1>8. Accounted(bare)' /\ Issued(canonical.refresh)
  <2>1. Accounted(Here) /\ Issued(canonical.refresh)
    BY DEF Directories, Here
  <2>2. AtRisk(canonical.refresh) => canonical.refresh \in warned
    BY <1>3, <1>4, <2>1 DEF Accounted, Here
  <2> QED BY <1>1, <1>4, <2>1, <2>2 DEF Accounted, AtRisk
<1>9. Directories'
  <2>1. ASSUME NEW d \in durable PROVE Accounted(d)' /\ Issued(d.login.refresh)'
    BY <1>1, <2>1 DEF Directories, Accounted, AtRisk, Issued
  <2>2. (\A d \in durable : Accounted(d) /\ Issued(d.login.refresh))'
    BY <1>1, <1>8, <2>1 DEF Issued
  <2> QED BY <1>1, <2>2 DEF Directories, Here, Remembered
<1>10. ASSUME NEW o \in Broker PROVE Process(o)'
  BY <1>2 DEF Process, Holding, WarnedBase, GrantedIsGood, Written, NotTold
<1> QED BY <1>6, <1>7, <1>9, <1>10

LEMMA CodexLoginInv ==
  ASSUME IInv, CodexLogin
  PROVE  IInv'
<1> USE DEF IInv
<1> DEFINE n == issued + 1
           login == [access |-> n, refresh |-> n, recent |-> TRUE]
           new == [login |-> login, intent |-> intent]
<1>1. /\ n \in Token /\ issued' = n /\ valid' = valid \cup {n}
      /\ canonical' = login /\ intent' = intent /\ durable' = durable \cup {new}
      /\ UNCHANGED <<lock, phase, base, granted, deadRefresh, late, presented, told, warned>>
  BY DEF CodexLogin, Changed, refresh, clients, history
<1>2. issued \in Nat /\ \A k \in Token : Issued(k) => Issued(k)'
  BY <1>1, NumbersAreNaturals DEF Typed, Issued
<1>3. n \notin valid /\ n \notin presented /\ (\A x \in Broker : n \notin told[x]) /\ n <= issued'
  BY <1>1, <1>2 DEF Numbered, Issued
<1>4. \A k : AtRisk(k)' => AtRisk(k)
  BY <1>1 DEF AtRisk
<1>5. login \in Login /\ new \in Directory
  BY <1>1 DEF Login, Typed, Directory
<1>6. Typed'
  BY <1>1, <1>5 DEF Typed
<1>7. Numbered'
  <2>1. \A o \in Broker : base[o].refresh \in Token /\ granted[o].refresh \in Token
    BY DEF Typed, Login
  <2>2. (\A k \in valid \cup presented : Issued(k))'
    BY <1>1, <1>2, <1>3 DEF Numbered, Issued, Typed
  <2> QED BY <1>1, <1>2, <2>1, <2>2 DEF Numbered, Typed
<1>8. Directories'
  <2>1. ASSUME NEW d \in durable PROVE Accounted(d)' /\ Issued(d.login.refresh)'
    <3>1. Accounted(d) /\ Issued(d.login.refresh) /\ d.login.refresh \in Token
      BY <2>1 DEF Directories, Typed, Directory, Login
    <3> QED BY <1>1, <1>2, <1>4, <3>1 DEF Accounted
  <2>2. ASSUME NEW d, d.login.refresh = n PROVE Accounted(d)' /\ Issued(d.login.refresh)'
    <3>1. n \in valid' /\ n \notin late'
      BY <1>1, <1>3 DEF Typed
    <3> QED BY <1>1, <1>3, <2>2, <3>1 DEF Accounted, AtRisk, Issued
  <2>3. Here' = new /\ new.login.refresh = n
    BY <1>1 DEF Here
  <2>4. Remembered(canonical.refresh)'
    BY <1>1, <1>3 DEF Remembered
  <2> QED BY <1>1, <2>1, <2>2, <2>3, <2>4 DEF Directories
<1>9. ASSUME NEW o \in Broker PROVE Process(o)'
  <2>1. Process(o) /\ intent \in {d.intent : d \in durable}
    BY DEF Directories, Here
  <2>2. Holding(o)'
    BY <1>1, <2>1 DEF Process, Holding
  <2>3. WarnedBase(o)' /\ GrantedIsGood(o)'
    BY <1>1, <1>4, <2>1 DEF Process, WarnedBase, GrantedIsGood
  <2>4. Written(o)' /\ NotTold(o)'
    BY <1>1, <1>3, <2>1 DEF Process, Written, NotTold, Remembered
  <2> QED BY <2>2, <2>3, <2>4 DEF Process
<1> QED BY <1>6, <1>7, <1>8, <1>9

LEMMA AgeInv ==
  ASSUME IInv, Age
  PROVE  IInv'
<1> USE DEF IInv
<1> DEFINE Older(d) == [login |-> Old(d.login), intent |-> d.intent]
<1>1. /\ canonical' = Old(canonical)
      /\ durable' = {Older(d) : d \in durable}
      /\ UNCHANGED <<intent, lock, phase, base, granted, deadRefresh, valid, late, issued, presented,
                     told, warned>>
  BY DEF Age, refresh, clients, server, env, history
<1>2. canonical' \in Login /\ canonical'.refresh = canonical.refresh
  BY <1>1 DEF Typed, Login, Old
<1>3. \A d \in durable : /\ Older(d) \in Directory /\ Older(d).intent = d.intent
                         /\ Older(d).login.refresh = d.login.refresh
  BY DEF Typed, Directory, Login, Old
<1>4. Typed' /\ Numbered'
  BY <1>1, <1>2, <1>3 DEF Typed, Numbered, Issued
<1>5. Directories'
  <2>1. Here' = Older(Here)
    BY <1>1 DEF Here
  <2>2. ASSUME NEW d \in durable PROVE Accounted(Older(d)) /\ Issued(Older(d).login.refresh)
    BY <1>3, <2>2 DEF Directories, Accounted
  <2>3. ASSUME NEW d \in durable' PROVE Accounted(d)' /\ Issued(d.login.refresh)'
    <3>1. Accounted(d) /\ Issued(d.login.refresh)
      BY <1>1, <2>2, <2>3
    <3> QED BY <1>1, <3>1 DEF Accounted, AtRisk, Issued
  <2>4. Remembered(canonical.refresh)'
    BY <1>1, <1>2 DEF Directories, Remembered
  <2> QED BY <1>1, <2>1, <2>3, <2>4 DEF Directories
<1>6. ASSUME NEW o \in Broker PROVE Process(o)'
  <2>1. Process(o)
    OBVIOUS
  <2>2. Holding(o)'
    BY <1>1, <1>3, <2>1 DEF Process, Holding
  <2>3. WarnedBase(o)' /\ GrantedIsGood(o)' /\ Written(o)' /\ NotTold(o)'
    BY <1>1, <1>2, <2>1 DEF Process, WarnedBase, GrantedIsGood, Written, NotTold, AtRisk, Remembered
  <2> QED BY <2>2, <2>3 DEF Process
<1> QED BY <1>4, <1>5, <1>6

(* A crash takes what its processes knew and leaves their calls to upstream; *)
(* the directory is as it was, or one of those the host may come up with.    *)
LEMMA CrashInv ==
  ASSUME IInv, NEW Bs \in SUBSET Broker, Die(Bs),
         \/ UNCHANGED files
         \/ Bs = Broker /\ \E d \in durable : Synced(d.login, d.intent)
  PROVE  IInv'
<1> USE DEF IInv
<1>1. /\ \A o \in Broker : IF o \in Bs
                           THEN phase'[o] = "idle" /\ base'[o] = FirstLogin /\ granted'[o] = FirstLogin
                                /\ told'[o] = {} /\ deadRefresh'[o] = NoToken
                           ELSE phase'[o] = phase[o] /\ base'[o] = base[o] /\ granted'[o] = granted[o]
                                /\ told'[o] = told[o] /\ deadRefresh'[o] = deadRefresh[o]
      /\ UNCHANGED <<valid, issued, presented, warned>>
      /\ late \subseteq late' /\ late' = (late \cup LostCalls(Bs)) \cap valid
  BY DEF Die, Typed
<1>2. Here' \in durable' /\ durable' \subseteq durable
  <2>1. CASE UNCHANGED files
    BY <2>1 DEF files, Here, Directories
  <2>2. CASE \E d \in durable : Synced(d.login, d.intent)
    <3>1. PICK d \in durable : Synced(d.login, d.intent)
      BY <2>2
    <3>2. d = [login |-> d.login, intent |-> d.intent]
      BY DEF Typed, Directory
    <3> QED BY <3>1, <3>2 DEF Synced, Here
  <2> QED BY <2>1, <2>2
<1>3. Typed'
  <2>1. /\ phase' \in [Broker -> Phase] /\ base' \in [Broker -> Login] /\ granted' \in [Broker -> Login]
        /\ deadRefresh' \in [Broker -> Token \cup {NoToken}] /\ told' \in [Broker -> SUBSET Token]
    BY NumbersAreNaturals DEF Die, Typed, Phase
  <2>2. canonical' \in Login /\ intent' \in Token \cup {NoToken} /\ durable' \subseteq Directory
    BY <1>2 DEF Typed, Directory, Here
  <2> QED BY <1>1, <2>1, <2>2 DEF Typed
<1>4. Numbered'
  BY <1>1, NumberedAfterRelease
<1>5. ASSUME NEW d \in durable PROVE Accounted(d)' /\ Issued(d.login.refresh)'
  <2>1. Accounted(d) /\ Issued(d.login.refresh)
    BY <1>5 DEF Directories
  <2>2. \A k \in LostCalls(Bs) : d.intent = k
    BY <1>5 DEF LostCalls, Process, Holding
  <2> QED BY <1>1, <2>1, <2>2 DEF Accounted, AtRisk, Issued
<1>6. Remembered(canonical.refresh)'
  <2>1. CASE UNCHANGED files
    BY <1>1, <2>1 DEF files, Directories, Remembered
  <2>2. CASE Bs = Broker
    BY <1>1, <2>2 DEF Remembered
  <2> QED BY <2>1, <2>2
<1>7. Directories'
  BY <1>2, <1>5, <1>6 DEF Directories
<1>8. ASSUME NEW o \in Broker PROVE Process(o)'
  <2>1. CASE phase'[o] = "idle"
    BY <2>1 DEF Process, Holding, WarnedBase, GrantedIsGood, Written, NotTold
  <2>2. CASE phase'[o] # "idle"
    <3>1. /\ o \notin Bs /\ phase[o] # "idle"
          /\ phase'[o] = phase[o] /\ base'[o] = base[o] /\ granted'[o] = granted[o]
          /\ told'[o] = told[o]
      BY <1>1, <2>2
    <3>2. UNCHANGED files /\ lock = o
      BY <3>1 DEF Process, Holding
    <3>3. LostCalls(Bs) = {}
      BY <3>1, OnePastTheLock DEF LostCalls
    <3>4. Process(o) /\ lock' = lock /\ UNCHANGED <<canonical, intent, durable, valid, late, presented, warned>>
      BY <1>1, <3>1, <3>2, <3>3 DEF files, Die, Typed
    <3>5. Holding(o)' /\ WarnedBase(o)' /\ Written(o)'
      BY <3>1, <3>4 DEF Process, Holding, WarnedBase, Written, AtRisk
    <3>6. GrantedIsGood(o)' /\ NotTold(o)'
      BY <1>1, <3>1, <3>4 DEF Process, GrantedIsGood, NotTold, Remembered, AtRisk
    <3> QED BY <3>5, <3>6 DEF Process
  <2> QED BY <2>1, <2>2
<1> QED BY <1>3, <1>4, <1>7, <1>8

-----------------------------------------------------------------------------
LEMMA NextInv == IInv /\ [Next]_vars => IInv'
<1> SUFFICES ASSUME IInv, [Next]_vars PROVE IInv'
  OBVIOUS
<1>1. CASE UNCHANGED vars
  <2>1. UNCHANGED core /\ warned \subseteq warned'
    BY <1>1 DEF vars, core, files, refresh, server, history
  <2> QED BY <2>1, CoreUnchanged
<1>2. CASE \E c \in Consumer : Lease(c) \/ Revoke(c) \/ Request(c)
  <2>1. UNCHANGED core /\ warned \subseteq warned'
    BY <1>2 DEF Lease, Revoke, Request, core, files, refresh, server, history
  <2> QED BY <2>1, CoreUnchanged
<1>3. ASSUME NEW b \in Broker, AnswerWithoutCall(b) \/ FileFault(b) \/ LockTimeout(b)
      PROVE  IInv'
  <2>1. UNCHANGED core /\ warned \subseteq warned'
    BY <1>3
    DEF AnswerWithoutCall, FileFault, LockTimeout, Noted, core, files, refresh, server, history
  <2> QED BY <2>1, CoreUnchanged
<1>4. ASSUME NEW b \in Broker, BrokerStep(b) PROVE IInv'
  BY <1>3, <1>4, StartCallInv, GivesUpInv, RejectedInv, ClearRefusedInv, LogRejectionInv,
     RenameInv, SyncDirectoryInv, FinishInv
  DEF BrokerStep
<1>5. ASSUME NEW b \in Broker, ProcessCrash(b) PROVE IInv'
  BY <1>5, CrashInv DEF ProcessCrash
<1>6. CASE HostCrash
  BY <1>6, CrashInv DEF HostCrash
<1> QED
  BY <1>1, <1>2, <1>4, <1>5, <1>6, UpstreamGrantsInv, LateCallInv, CodexLoginInv, AgeInv DEF Next

LEMMA AlwaysInv == Spec => []IInv
  BY InitInv, NextInv, PTL DEF Spec

(* Whatever crashed, timed out or was overwritten, a login upstream no longer *)
(* honours, in force or brought back by a host crash, is named by the intent  *)
(* beside it or a log warned of it (SpentIsKnown).                            *)
THEOREM LoginNeverSilentlySpent == Spec => []SpentIsKnown
<1>1. IInv => SpentIsKnown
  BY DEF IInv, Directories, Here, Accounted, AtRisk, SpentIsKnown
<1> QED BY <1>1, AlwaysInv, PTL

(* No token is presented a second time without an eye on the first            *)
(* (NoBlindReplay).                                                           *)
THEOREM ReplayIsNeverBlind == Spec => NoBlindReplay
<1> DEFINE A(b) == phase[b] = "idle" /\ phase'[b] = "sent" =>
                     LET t == base'[b].refresh IN
                       /\ \A o \in Broker \ {b} : phase[o] # "idle" => base[o].refresh # t
                       /\ t \notin told[b]
                       /\ t \in presented => intent = t
<1>1. ASSUME IInv, Next, NEW b \in Broker, phase[b] = "idle", phase'[b] = "sent"
      PROVE  StartCall(b)
  <2>1. phase' # phase
    BY <1>1
  <2>2. \A o \in Broker, p \in Phase \ {"sent"} :
          phase' = [phase EXCEPT ![o] = p] => phase'[b] # "sent"
    BY <1>1 DEF IInv, Typed
  <2>3. \A Bs : Die(Bs) => phase'[b] # "sent"
    BY <1>1 DEF Die
  <2>4. ASSUME NEW o \in Broker, BrokerStep(o) PROVE o = b /\ StartCall(b)
    <3>1. CASE AnswerWithoutCall(o) \/ FileFault(o) \/ LockTimeout(o)
      BY <2>1, <3>1 DEF AnswerWithoutCall, FileFault, LockTimeout, refresh
    <3>2. CASE CallFails(o) \/ LogRejection(o) \/ WriteFails(o) \/ Finish(o)
      BY <1>1, <2>2, <3>2 DEF CallFails, LogRejection, WriteFails, Finish, Release, Phase
    <3>3. CASE Rejected(o) \/ ClearRefused(o) \/ Rename(o) \/ SyncDirectory(o)
      BY <1>1, <2>2, <3>3 DEF Rejected, ClearRefused, Rename, SyncDirectory, Goes, Phase
    <3>4. CASE StartCall(o)
      BY <1>1, <3>4 DEF StartCall, IInv, Typed
    <3> QED BY <2>4, <3>1, <3>2, <3>3, <3>4 DEF BrokerStep
  <2>5. ~ \E c \in Consumer : Lease(c) \/ Revoke(c) \/ Request(c)
    BY <2>1 DEF Lease, Revoke, Request, refresh
  <2>6. \A o \in Broker : ~UpstreamGrants(o) /\ ~ProcessCrash(o)
    BY <1>1, <2>2, <2>3 DEF UpstreamGrants, ProcessCrash, Phase
  <2>7. (\A t \in Token : ~LateCall(t)) /\ ~CodexLogin /\ ~Age /\ ~HostCrash
    BY <1>1, <2>1, <2>3 DEF LateCall, CodexLogin, Age, HostCrash, refresh
  <2> QED BY <1>1, <2>4, <2>5, <2>6, <2>7 DEF Next
<1>2. ASSUME IInv, NEW b \in Broker, StartCall(b) PROVE A(b)
  <2>1. \A o \in Broker : phase[o] = "idle"
    BY <1>2, BrokerAssumption DEF IInv, StartCall, LockFree, Process, Holding
  <2>2. base'[b] = canonical
    BY <1>2 DEF StartCall, IInv, Typed
  <2>3. canonical.refresh \notin told[b]
    BY <1>2 DEF StartCall, MayCall, Known, IInv, Directories, Remembered
  <2>4. canonical.refresh \in presented => intent = canonical.refresh
    BY <1>2 DEF IInv, Directories, Here, Accounted
  <2> QED BY <2>1, <2>2, <2>3, <2>4
<1>3. IInv /\ [Next]_vars => [\A b \in Broker : A(b)]_vars
  <2> SUFFICES ASSUME IInv, Next, NEW b \in Broker PROVE A(b)
    OBVIOUS
  <2>1. CASE phase[b] = "idle" /\ phase'[b] = "sent"
    BY <1>1, <1>2, <2>1
  <2>2. CASE ~(phase[b] = "idle" /\ phase'[b] = "sent")
    BY <2>2
  <2> QED BY <2>1, <2>2
<1>4. [][Next]_vars /\ []IInv => NoBlindReplay
  BY <1>3, PTL DEF NoBlindReplay
<1> QED BY <1>4, AlwaysInv, PTL DEF Spec

================================================================================
