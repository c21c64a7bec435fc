------------------------------ MODULE Identity ------------------------------
(***************************************************************************)
(* Users, their verification, roles and provider applications:             *)
(* logic/identity/user.go with the tokens of middleware/jwt.go, the        *)
(* provider's share of logic/llm/key.go and the role check of the          *)
(* provider's API.  No operation here is a transaction: between any two of *)
(* its statements another handler may run, the next statement may fail or  *)
(* the process may stop.                                                   *)
(***************************************************************************)
EXTENDS FiniteSets

CONSTANTS
    Email,         \* addresses; each names the account registered under it
    Application,   \* rows of provider_applications
    Caller         \* handlers that run at the same time

ASSUME IdentityAssumption == Email \cap Application = {}

VARIABLES
    account,       \* users: "none", or status and role
    code,          \* email_verifications of an address
    application,   \* provider_applications: "none", or applicant and status
    share,         \* addresses with a row in provider_settings
    tokens,        \* valid JWTs: the address and the role they carry
    job,           \* what each handler does next, on what, to what end
    told,          \* history: operations answered with success
    proved,        \* history: addresses whose code has been entered, or which an
                   \* administrator activated
    granted,       \* history: addresses an administrator approved or made a provider
    acted,         \* history: addresses that used the provider's API
    was            \* history: what each address has ever been

database == <<account, code, application, share>>
history == <<told, proved, granted, acted>>
vars == <<database, tokens, job, history, was>>

NoAccount == [status |-> 0, role |-> "none"]
NoApplication == [of |-> "none", status |-> "none"]
Idle == [at |-> "idle", on |-> "none", how |-> "none"]
Role == {"user", "provider"}
Decision == {"approved", "approved with a share", "rejected"}

TypeOK ==
    /\ account \in [Email -> [status : {0, 1}, role : Role] \cup {NoAccount}]
    /\ code \in [Email -> {"none", "live", "expired", "used"}]
    /\ application \in [Application ->
            [of : Email, status : {"pending", "approved", "rejected"}] \cup {NoApplication}]
    /\ share \subseteq Email
    /\ tokens \subseteq Email \X Role
    /\ proved \subseteq Email /\ granted \subseteq Email /\ acted \subseteq Email
    /\ was \subseteq Email \X {"active", "provider"}

Init ==
    /\ account = [e \in Email |-> NoAccount]
    /\ code = [e \in Email |-> "none"]
    /\ application = [a \in Application |-> NoApplication]
    /\ share = {} /\ tokens = {}
    /\ job = [p \in Caller |-> Idle]
    /\ told = {} /\ proved = {} /\ granted = {} /\ acted = {} /\ was = {}

Begin(p, at, on, how) ==
    /\ job[p] = Idle
    /\ job' = [job EXCEPT ![p] = [at |-> at, on |-> on, how |-> how]]

At(p, place) == job[p].at = place
On(p) == job[p].on
GoTo(p, place) == job' = [job EXCEPT ![p].at = place]

(* The handler returns; it was told to do "what" on its subject. *)
Answer(p, what) ==
    /\ job' = [job EXCEPT ![p] = Idle]
    /\ told' = told \cup {<<what, On(p)>>}

(* Mutant: the error is logged and the handler answers with success. *)
FailSilently(p) ==
    /\ job[p] # Idle
    /\ job' = [job EXCEPT ![p] = Idle]
    /\ told' = told \cup {<<job[p].how, On(p)>>}
    /\ UNCHANGED <<database, tokens, proved, granted, acted>>

(* The next statement fails, or the process stops: what was done stays.    *)
Fail(p) ==
    /\ job[p] # Idle
    /\ job' = [job EXCEPT ![p] = Idle]
    /\ UNCHANGED <<database, tokens, history>>

-----------------------------------------------------------------------------
(* Register and CreateUser: the address is looked up before it is inserted *)

CheckEmail(p, e, how) ==
    /\ account[e] = NoAccount
    /\ Begin(p, "insert user", e, how)
    /\ UNCHANGED <<database, tokens, history>>

InsertUser(p) ==
    /\ At(p, "insert user") /\ job[p].how = "register"
    /\ account[On(p)] = NoAccount
    /\ account' = [account EXCEPT ![On(p)] = [status |-> 0, role |-> "user"]]
    /\ GoTo(p, "insert code")
    /\ UNCHANGED <<code, application, share, tokens, history>>

(* generateCode and its INSERT; the code is good for ten minutes, and      *)
(* there is no way to get another.                                         *)
InsertCode(p) ==
    /\ At(p, "insert code")
    /\ code' = [code EXCEPT ![On(p)] = "live"]
    /\ Answer(p, "register")
    /\ UNCHANGED <<account, application, share, tokens, proved, granted, acted>>

CreateUser(p, role) ==
    /\ At(p, "insert user") /\ job[p].how = "create"
    /\ account[On(p)] = NoAccount
    /\ account' = [account EXCEPT ![On(p)] = [status |-> 1, role |-> role]]
    /\ proved' = proved \cup {On(p)}
    /\ granted' = IF role = "provider" THEN granted \cup {On(p)} ELSE granted
    /\ Answer(p, "create")
    /\ UNCHANGED <<code, application, share, tokens, acted>>

CodeExpires(e) ==
    /\ code[e] = "live"
    /\ code' = [code EXCEPT ![e] = "expired"]
    /\ UNCHANGED <<account, application, share, tokens, job, history>>

-----------------------------------------------------------------------------
(* VerifyEmail *)

(* The newest unused code that has not expired equals the one entered.     *)
EnterCode(p, e) ==
    /\ code[e] = "live"
    /\ Begin(p, "mark used", e, "verify")
    /\ proved' = proved \cup {e}
    /\ UNCHANGED <<database, tokens, told, granted, acted>>

MarkUsed(p) ==
    /\ At(p, "mark used")
    /\ code' = [code EXCEPT ![On(p)] = "used"]
    /\ GoTo(p, "activate")
    /\ UNCHANGED <<account, application, share, tokens, history>>

Activate(p) ==
    /\ At(p, "activate")
    /\ account' = [account EXCEPT ![On(p)].status = 1]
    /\ Answer(p, "verify")
    /\ UNCHANGED <<code, application, share, tokens, proved, granted, acted>>

-----------------------------------------------------------------------------
(* Tokens carry the role of the moment of the login, for a day *)

Login(e) ==
    /\ account[e].status = 1
    /\ tokens' = tokens \cup {<<e, account[e].role>>}
    /\ UNCHANGED <<database, job, history>>

TokenExpires(t) ==
    /\ tokens' = tokens \ {t}
    /\ UNCHANGED <<database, job, history>>

RequireProvider(t) ==
    /\ t[2] = "provider"
    /\ acted' = acted \cup {t[1]}
    /\ UNCHANGED <<database, tokens, job, told, proved, granted>>

-----------------------------------------------------------------------------
(* Administration *)

UpdateUserStatus(e, status) ==
    /\ account[e] # NoAccount
    /\ account' = [account EXCEPT ![e].status = status]
    /\ proved' = IF status = 1 THEN proved \cup {e} ELSE proved
    /\ UNCHANGED <<code, application, share, tokens, job, told, granted, acted>>

UpdateUserRole(e, role) ==
    /\ account[e] # NoAccount
    /\ account' = [account EXCEPT ![e].role = role]
    /\ granted' = IF role = "provider" THEN granted \cup {e} ELSE granted
    /\ UNCHANGED <<code, application, share, tokens, job, told, proved, acted>>

ApplyProvider(t, a) ==
    /\ application[a] = NoApplication
    /\ application' = [application EXCEPT ![a] = [of |-> t[1], status |-> "pending"]]
    /\ UNCHANGED <<account, code, share, tokens, job, history>>

(* ReviewProviderApplication reads the application ...                     *)
ReadApplication(p, a, decision) ==
    /\ application[a].status = "pending"
    /\ Begin(p, "set status", a, decision)
    /\ UNCHANGED <<database, tokens, history>>

Applicant(p) == IF On(p) \in Application THEN application[On(p)].of ELSE On(p)
Approves(p) == job[p].how \in {"approved", "approved with a share"}

(* Mutant: the role follows a rejection, too. *)
SetStatusAndGoOn(p) ==
    /\ At(p, "set status")
    /\ application' = [application EXCEPT ![On(p)].status = IF Approves(p) THEN "approved" ELSE "rejected"]
    /\ granted' = IF Approves(p) THEN granted \cup {Applicant(p)} ELSE granted
    /\ GoTo(p, "set role")
    /\ UNCHANGED <<account, code, share, tokens, told, proved, acted>>

(* ... and updates its status without asking again whether it is pending,  *)
(* then, if it is approved, the role ...                                   *)
SetStatus(p) ==
    /\ At(p, "set status")
    /\ application' = [application EXCEPT ![On(p)].status = IF Approves(p) THEN "approved" ELSE "rejected"]
    /\ IF Approves(p)
       THEN /\ GoTo(p, "set role")
            /\ granted' = granted \cup {Applicant(p)}
            /\ UNCHANGED told
       ELSE Answer(p, "rejected") /\ UNCHANGED granted
    /\ UNCHANGED <<account, code, share, tokens, proved, acted>>

SetRole(p) ==
    /\ At(p, "set role")
    /\ account' = [account EXCEPT ![Applicant(p)].role = "provider"]
    /\ IF job[p].how = "approved with a share"
       THEN GoTo(p, "insert share") /\ UNCHANGED told
       ELSE Answer(p, job[p].how)
    /\ UNCHANGED <<code, application, share, tokens, proved, granted, acted>>

(* ... and the share.  SetProviderShareBps is also an operation of its own.*)
SetProviderSetting(p, e) ==
    /\ Begin(p, "insert share", e, "share")
    /\ UNCHANGED <<database, tokens, history>>

InsertShare(p) ==
    /\ At(p, "insert share") /\ Applicant(p) \notin share
    /\ share' = share \cup {Applicant(p)}
    /\ Answer(p, job[p].how)
    /\ UNCHANGED <<account, code, application, tokens, proved, granted, acted>>

(* Any error of the INSERT is taken for a row that is there already; the   *)
(* UPDATE that follows succeeds also when it finds none.                   *)
UpdateShare(p) ==
    /\ At(p, "insert share")
    /\ Answer(p, job[p].how)
    /\ UNCHANGED <<database, tokens, proved, granted, acted>>

-----------------------------------------------------------------------------
Step ==
    \/ \E p \in Caller :
          \/ \E e \in Email : \/ \E how \in {"register", "create"} : CheckEmail(p, e, how)
                              \/ EnterCode(p, e)
                              \/ SetProviderSetting(p, e)
          \/ InsertUser(p) \/ InsertCode(p) \/ \E role \in Role : CreateUser(p, role)
          \/ MarkUsed(p) \/ Activate(p)
          \/ \E a \in Application, decision \in Decision : ReadApplication(p, a, decision)
          \/ SetStatus(p) \/ SetRole(p) \/ InsertShare(p) \/ UpdateShare(p)
          \/ Fail(p)
    \/ \E e \in Email : \/ CodeExpires(e) \/ Login(e)
                        \/ \E status \in {0, 1} : UpdateUserStatus(e, status)
                        \/ \E role \in Role : UpdateUserRole(e, role)
    \/ \E t \in tokens : \/ TokenExpires(t) \/ RequireProvider(t)
                         \/ \E a \in Application : ApplyProvider(t, a)

Observe ==
    was' = was \cup {<<e, "active">> : e \in {x \in Email : account'[x].status = 1}}
               \cup {<<e, "provider">> : e \in {x \in Email : account'[x].role = "provider"}}

Next == Step /\ Observe

Spec == Init /\ [][Next]_vars

-----------------------------------------------------------------------------
(* Standing is earned, whatever handlers overlap or stop half-way: only an *)
(* address whose code was entered, or which an administrator activated,    *)
(* is active, and only an approved applicant, or whom an administrator     *)
(* made one, is a provider, holds a provider's token or has used the       *)
(* provider's API (user.go:105, user.go:395, provider.go:13).              *)
StandingIsEarned ==
    \A e \in Email :
        /\ account[e].status = 1 => e \in proved
        /\ (account[e].role = "provider" \/ <<e, "provider">> \in tokens \/ e \in acted)
              => e \in granted

(* Success is complete: a handler that has answered with success has done  *)
(* all of its statements, although they are in no transaction: who         *)
(* registered has a code, who verified has used it and has been active,    *)
(* and whose application was approved has been a provider (user.go:63,     *)
(* user.go:105, user.go:399).  The share is the exception, see UpdateShare. *)
SuccessIsComplete ==
    /\ \A e \in Email :
          /\ <<"register", e>> \in told => account[e] # NoAccount /\ code[e] # "none"
          /\ <<"verify", e>> \in told => code[e] = "used" /\ <<e, "active">> \in was
    /\ \A a \in Application, decision \in Decision : <<decision, a>> \in told =>
          /\ application[a].status \in {"approved", "rejected"}
          /\ decision # "rejected" => <<application[a].of, "provider">> \in was

-----------------------------------------------------------------------------
(* What a handler knows at each of its statements, whatever the others did *)
(* since its first one.                                                    *)
HasAccount(e) == e \in Email /\ account[e].role # "none"
WasReviewed(a) == a \in Application /\ application[a].status \in {"approved", "rejected"}

HandlerKnows(p) ==
    /\ At(p, "insert user") => On(p) \in Email
    /\ At(p, "insert code") =>
          HasAccount(On(p)) /\ code[On(p)] = "none" /\ job[p].how = "register"
    /\ At(p, "mark used") =>
          HasAccount(On(p)) /\ code[On(p)] # "none" /\ On(p) \in proved
    /\ At(p, "activate") =>
          HasAccount(On(p)) /\ code[On(p)] = "used" /\ On(p) \in proved
    /\ At(p, "set status") =>
          /\ On(p) \in Application /\ application[On(p)].status # "none"
          /\ job[p].how \in Decision
    /\ At(p, "set role") => WasReviewed(On(p)) /\ Approves(p) /\ Applicant(p) \in granted
    /\ At(p, "insert share") =>
          \/ On(p) \in Email /\ job[p].how = "share"
          \/ /\ WasReviewed(On(p)) /\ job[p].how = "approved with a share"
             /\ <<Applicant(p), "provider">> \in was

Place == {"idle", "insert user", "insert code", "mark used", "activate", "set status",
          "set role", "insert share"}
JobType == [at : Place, on : Email \cup Application \cup {"none"},
            how : Decision \cup {"none", "register", "create", "verify", "share"}]
JobOK ==
    /\ job \in [Caller -> JobType]
    /\ \A p \in Caller : HandlerKnows(p)

(* One registration of an address gets as far as its code, and only who    *)
(* has an account has a code, a token or an application.                   *)
OneRegistration ==
    \A p, q \in Caller :
        At(p, "insert code") /\ At(q, "insert code") /\ On(p) = On(q) => p = q
AccountsComeFirst ==
    /\ \A e \in Email : code[e] # "none" => HasAccount(e)
    /\ \A t \in tokens : HasAccount(t[1])
    /\ \A a \in Application : application[a].status # "none" => HasAccount(application[a].of)

(* The inductive invariant of identity. *)
IdentityInv ==
    /\ TypeOK /\ JobOK /\ OneRegistration /\ AccountsComeFirst
    /\ StandingIsEarned /\ SuccessIsComplete
=============================================================================
