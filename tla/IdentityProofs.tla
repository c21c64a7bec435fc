---------------------------- MODULE IdentityProofs ----------------------------
(***************************************************************************)
(* The safety of identity for any addresses, applications and handlers:    *)
(* IdentityInv is inductive, and both properties are parts of it.          *)
(***************************************************************************)
EXTENDS Identity, TLAPS

AccountType == [status : {0, 1}, role : Role \cup {"none"}]

(* What no step takes back: accounts, codes and their use, history, and    *)
(* the fact that an application was made and reviewed.                     *)
Grown ==
    /\ \A e \in Email :
          /\ account[e].role # "none" => account'[e].role # "none"
          /\ code[e] # "none" => code'[e] # "none"
          /\ code[e] = "used" => code'[e] = "used"
    /\ proved \subseteq proved' /\ granted \subseteq granted' /\ was \subseteq was'
    /\ \A a \in Application : application[a].status # "none" =>
          /\ application'[a].of = application[a].of
          /\ application'[a].status # "none"
          /\ application[a].status # "pending" => application'[a].status # "pending"

(* The handler p goes to a place, the others stay where they are. *)
Moves(p, place, on, how) ==
    /\ job' \in [Caller -> JobType]
    /\ job'[p].at = place /\ job'[p].on = on /\ job'[p].how = how
    /\ \A q \in Caller \ {p} : job'[q] = job[q]

(* Begin takes a free handler to its first place.                          *)
LEMMA BeginMoves ==
  ASSUME JobOK, NEW p \in Caller, NEW place \in Place, NEW on \in Email \cup Application,
         NEW how \in Decision \cup {"register", "create", "verify", "share"},
         Begin(p, place, on, how)
  PROVE  Moves(p, place, on, how)
<1>1. [at |-> place, on |-> on, how |-> how] \in JobType
  BY DEF JobType
<1> QED
  BY <1>1 DEF JobOK, Begin, Moves

(* GoTo keeps what the handler works on.                                   *)
LEMMA GoToMoves ==
  ASSUME JobOK, NEW p \in Caller, NEW place \in Place, GoTo(p, place)
  PROVE  Moves(p, place, On(p), job[p].how)
<1> DEFINE new == [at |-> place, on |-> On(p), how |-> job[p].how]
<1>1. job[p] \in JobType
  BY DEF JobOK
<1>2. [job[p] EXCEPT !.at = place] = new /\ new \in JobType
  BY <1>1 DEF JobType, On
<1>3. job' = [job EXCEPT ![p] = new]
  BY <1>2 DEF GoTo
<1> HIDE DEF new
<1>4. Moves(p, place, On(p), job[p].how) <=>
        job' \in [Caller -> JobType] /\ job'[p] = new /\ \A q \in Caller \ {p} : job'[q] = job[q]
  BY DEF Moves, new, JobType
<1> QED
  BY <1>2, <1>3, <1>4 DEF JobOK

(* A handler that is done is free again.                                   *)
LEMMA LeaveMoves ==
  ASSUME JobOK, NEW p \in Caller, job' = [job EXCEPT ![p] = Idle]
  PROVE  Moves(p, "idle", "none", "none")
<1>1. Idle \in JobType
  BY DEF JobType, Idle, Place
<1> QED
  BY <1>1 DEF JobOK, Moves, Idle

(* What Observe notes. *)
LEMMA ObserveNotes ==
  ASSUME TypeOK, Observe, account' \in [Email -> AccountType]
  PROVE  /\ was' \subseteq Email \X {"active", "provider"}
         /\ was \subseteq was'
         /\ \A e \in Email : /\ account'[e].status = 1 => <<e, "active">> \in was'
                             /\ account'[e].role = "provider" => <<e, "provider">> \in was'
  BY DEF TypeOK, Observe

(* A review is not undone.                                                 *)
LEMMA ReviewedStays ==
  ASSUME TypeOK', Grown, NEW a \in Application, WasReviewed(a)
  PROVE  WasReviewed(a)' /\ application'[a].of = application[a].of
<1>1. application[a].status \notin {"none", "pending"}
  BY DEF WasReviewed
<1>2. application'[a].status \notin {"none", "pending"} /\ application'[a].of = application[a].of
  BY <1>1 DEF Grown
<1>3. application'[a].status \in {"pending", "approved", "rejected", "none"}
  BY DEF TypeOK, NoApplication
<1> QED
  BY <1>2, <1>3 DEF WasReviewed

(* What a handler knows stays true while others move.                      *)
LEMMA OthersKnow ==
  ASSUME IdentityInv, TypeOK', Grown, NEW q \in Caller, job'[q] = job[q],
         At(q, "insert code") => code'[On(q)] = "none"
  PROVE  HandlerKnows(q)'
<1>1. HandlerKnows(q)
  BY DEF IdentityInv, JobOK
<1> DEFINE on == job[q].on
<1>2. At(q, "insert user")' => on \in Email
  BY <1>1 DEF HandlerKnows, At, On
<1>3. At(q, "insert code")' => HasAccount(on)' /\ code'[on] = "none" /\ job'[q].how = "register"
  BY <1>1 DEF HandlerKnows, At, On, HasAccount, Grown
<1>4. At(q, "mark used")' => HasAccount(on)' /\ code'[on] # "none" /\ on \in proved'
  BY <1>1 DEF HandlerKnows, At, On, HasAccount, Grown
<1>5. At(q, "activate")' => HasAccount(on)' /\ code'[on] = "used" /\ on \in proved'
  BY <1>1 DEF HandlerKnows, At, On, HasAccount, Grown
<1>6. At(q, "set status")' =>
        on \in Application /\ application'[on].status # "none" /\ job'[q].how \in Decision
  BY <1>1 DEF HandlerKnows, At, On, Grown
<1>7. ASSUME At(q, "set role")'
      PROVE  WasReviewed(on)' /\ Approves(q)' /\ Applicant(q)' \in granted'
  <2>1. WasReviewed(on) /\ Approves(q) /\ Applicant(q) \in granted
    BY <1>1, <1>7 DEF HandlerKnows, At, On
  <2>2. on \in Application
    BY <2>1 DEF WasReviewed
  <2>3. WasReviewed(on)' /\ application'[on].of = application[on].of
    BY <2>1, <2>2, ReviewedStays
  <2>4. Applicant(q)' = Applicant(q)
    BY <2>2, <2>3 DEF Applicant, On
  <2> QED
    BY <2>1, <2>3, <2>4 DEF Grown, Approves
<1>8. ASSUME At(q, "insert share")'
      PROVE  \/ on \in Email /\ job'[q].how = "share"
             \/ /\ WasReviewed(on)' /\ job'[q].how = "approved with a share"
                /\ <<Applicant(q)', "provider">> \in was'
  <2>1. \/ on \in Email /\ job[q].how = "share"
        \/ /\ WasReviewed(on) /\ job[q].how = "approved with a share"
           /\ <<Applicant(q), "provider">> \in was
    BY <1>1, <1>8 DEF HandlerKnows, At, On
  <2>2. ASSUME WasReviewed(on)
        PROVE  WasReviewed(on)' /\ Applicant(q)' = Applicant(q)
    <3>1. on \in Application
      BY <2>2 DEF WasReviewed
    <3>2. WasReviewed(on)' /\ application'[on].of = application[on].of
      BY <2>2, <3>1, ReviewedStays
    <3> QED
      BY <3>1, <3>2 DEF Applicant, On
  <2> QED
    BY <2>1, <2>2 DEF Grown
<1> QED
  BY <1>2, <1>3, <1>4, <1>5, <1>6, <1>7, <1>8 DEF HandlerKnows, On

(* So do all of them, if the one that moves knows where it is.             *)
LEMMA HandlersKnow ==
  ASSUME IdentityInv, TypeOK', Grown, NEW p \in Caller,
         NEW place, NEW on, NEW how, Moves(p, place, on, how), HandlerKnows(p)',
         \A q \in Caller \ {p} : At(q, "insert code") => code'[On(q)] = "none",
         place = "insert code" =>
             \A q \in Caller \ {p} : At(q, "insert code") => On(q) # on
  PROVE  JobOK' /\ OneRegistration'
<1>1. \A q \in Caller \ {p} : job'[q] = job[q] /\ HandlerKnows(q)'
  BY OthersKnow DEF Moves
<1>2. JobOK'
  BY <1>1 DEF JobOK, Moves
<1>3. job'[p].at = place /\ job'[p].on = on
  BY DEF Moves
<1>4. ASSUME NEW q \in Caller, NEW r \in Caller, q # r,
             job'[q].at = "insert code", job'[r].at = "insert code"
      PROVE  job'[q].on # job'[r].on
  <2>1. CASE q # p /\ r # p
    BY <1>1, <1>4, <2>1 DEF OneRegistration, IdentityInv, At, On
  <2>2. CASE q = p \/ r = p
    BY <1>1, <1>3, <1>4, <2>2 DEF At, On
  <2> QED
    BY <2>1, <2>2
<1>5. OneRegistration'
  BY <1>4 DEF OneRegistration, At, On
<1> QED
  BY <1>2, <1>5

(* What the handlers know stays true when none of them moves.              *)
LEMMA HandlersStay ==
  ASSUME IdentityInv, TypeOK', Grown, job' = job,
         \A e \in Email : code[e] = "none" => code'[e] = "none"
  PROVE  JobOK' /\ OneRegistration'
<1>1. \A q \in Caller : At(q, "insert code") => code'[On(q)] = "none"
  BY DEF IdentityInv, JobOK, HandlerKnows, HasAccount
<1>2. \A q \in Caller : HandlerKnows(q)'
  BY <1>1, OthersKnow
<1> QED
  BY <1>2 DEF IdentityInv, JobOK, OneRegistration, At, On

(* A step after which success may be told: what it takes is done. *)
Completes(what, x) ==
    /\ what = "register" /\ x \in Email => account'[x].role # "none" /\ code'[x] # "none"
    /\ what = "verify" /\ x \in Email => code'[x] = "used" /\ <<x, "active">> \in was'
    /\ what \in Decision /\ x \in Application =>
          /\ application'[x].status \in {"approved", "rejected"}
          /\ what # "rejected" => <<application'[x].of, "provider">> \in was'

(* Success told before stays complete, and what is told now must be. *)
LEMMA SuccessStays ==
  ASSUME IdentityInv, TypeOK', Grown, NEW what, NEW x, told' \subseteq told \cup {<<what, x>>},
         Completes(what, x)
  PROVE  SuccessIsComplete'
<1>1. ASSUME NEW e \in Email, <<"register", e>> \in told'
      PROVE  account'[e] # NoAccount /\ code'[e] # "none"
  <2>1. CASE <<"register", e>> \in told
    <3>1. account[e] # NoAccount /\ code[e] # "none"
      BY <2>1 DEF IdentityInv, SuccessIsComplete
    <3>2. HasAccount(e)
      BY <3>1 DEF IdentityInv, AccountsComeFirst
    <3> QED
      BY <3>1, <3>2 DEF Grown, HasAccount, NoAccount
  <2>2. CASE what = "register" /\ x = e
    BY <2>2 DEF Completes, NoAccount
  <2> QED
    BY <1>1, <2>1, <2>2
<1>2. ASSUME NEW e \in Email, <<"verify", e>> \in told'
      PROVE  code'[e] = "used" /\ <<e, "active">> \in was'
  <2>1. CASE <<"verify", e>> \in told
    BY <2>1 DEF IdentityInv, SuccessIsComplete, Grown
  <2>2. CASE what = "verify" /\ x = e
    BY <2>2 DEF Completes
  <2> QED
    BY <1>2, <2>1, <2>2
<1>3. ASSUME NEW a \in Application, NEW decision \in Decision, <<decision, a>> \in told'
      PROVE  /\ WasReviewed(a)'
             /\ decision # "rejected" => <<application'[a].of, "provider">> \in was'
  <2>1. CASE <<decision, a>> \in told
    <3>1. /\ WasReviewed(a)
          /\ decision # "rejected" => <<application[a].of, "provider">> \in was
      BY <2>1 DEF IdentityInv, SuccessIsComplete, WasReviewed
    <3>2. WasReviewed(a)' /\ application'[a].of = application[a].of
      BY <3>1, ReviewedStays
    <3> QED
      BY <3>1, <3>2 DEF Grown
  <2>2. CASE what = decision /\ x = a
    BY <2>2 DEF Completes, WasReviewed
  <2> QED
    BY <1>3, <2>1, <2>2
<1> QED
  BY <1>1, <1>2, <1>3 DEF SuccessIsComplete, WasReviewed

(* Nothing told, success stays complete. *)
LEMMA NothingIsTold ==
  ASSUME IdentityInv, TypeOK', Grown, told' = told
  PROVE  SuccessIsComplete'
<1>1. Completes("nothing", "none")
  BY DEF Completes, Decision
<1> QED
  BY <1>1, SuccessStays

(* The accounts, read as records. *)
LEMMA AccountsAreRecords ==
  ASSUME TypeOK
  PROVE  account \in [Email -> AccountType]
<1>1. NoAccount \in AccountType
  BY DEF NoAccount, AccountType
<1>2. [status : {0, 1}, role : Role] \subseteq AccountType
  BY DEF AccountType
<1> QED
  BY <1>1, <1>2 DEF TypeOK

(* A step on a handler's locals leaves the database as it is. *)
LEMMA DatabaseStays ==
  ASSUME IdentityInv, Observe, UNCHANGED <<account, code, application, share, tokens>>,
         proved \subseteq proved', proved' \subseteq Email,
         UNCHANGED granted, acted' \subseteq Email, acted' \subseteq granted'
  PROVE  TypeOK' /\ Grown /\ AccountsComeFirst' /\ StandingIsEarned'
<1>1. account' \in [Email -> AccountType]
  BY AccountsAreRecords DEF IdentityInv
<1>2. was' \subseteq Email \X {"active", "provider"} /\ was \subseteq was'
  BY <1>1, ObserveNotes DEF IdentityInv
<1>3. TypeOK'
  BY <1>2 DEF IdentityInv, TypeOK
<1>4. Grown
  BY <1>2 DEF Grown
<1>5. AccountsComeFirst'
  BY DEF IdentityInv, AccountsComeFirst, HasAccount
<1>6. StandingIsEarned'
  BY DEF IdentityInv, StandingIsEarned
<1> QED
  BY <1>3, <1>4, <1>5, <1>6

(* The steps, one by one: a handler begins or fails ... *)
LEMMA CheckEmailKeepsInv ==
  ASSUME IdentityInv, Observe, NEW p \in Caller, NEW e \in Email,
         NEW how \in {"register", "create"}, CheckEmail(p, e, how)
  PROVE  IdentityInv'
<1>1. TypeOK' /\ Grown /\ AccountsComeFirst' /\ StandingIsEarned'
  BY DatabaseStays DEF CheckEmail, database, history, IdentityInv, TypeOK, StandingIsEarned
<1>2. Moves(p, "insert user", e, how)
  BY BeginMoves DEF CheckEmail, IdentityInv, Place
<1>3. HandlerKnows(p)'
  BY <1>2 DEF HandlerKnows, Moves, At, On
<1>4. JobOK' /\ OneRegistration'
  <2>1. \A q \in Caller \ {p} : At(q, "insert code") => code'[On(q)] = "none"
    BY DEF CheckEmail, database, IdentityInv, JobOK, HandlerKnows
  <2> QED
    BY <1>1, <1>2, <1>3, <2>1, HandlersKnow
<1>5. SuccessIsComplete'
  BY <1>1, NothingIsTold DEF CheckEmail, history
<1> QED
  BY <1>1, <1>4, <1>5 DEF IdentityInv

(* An administrator opens an application.                                  *)
LEMMA ReadApplicationKeepsInv ==
  ASSUME IdentityInv, Observe, NEW p \in Caller, NEW a \in Application,
         NEW decision \in Decision, ReadApplication(p, a, decision)
  PROVE  IdentityInv'
<1>1. TypeOK' /\ Grown /\ AccountsComeFirst' /\ StandingIsEarned'
  BY DatabaseStays DEF ReadApplication, database, history, IdentityInv, TypeOK, StandingIsEarned
<1>2. Moves(p, "set status", a, decision)
  BY BeginMoves DEF ReadApplication, IdentityInv, Place
<1>3. HandlerKnows(p)'
  BY <1>2 DEF HandlerKnows, Moves, At, On, ReadApplication, database
<1>4. JobOK' /\ OneRegistration'
  <2>1. \A q \in Caller \ {p} : At(q, "insert code") => code'[On(q)] = "none"
    BY DEF ReadApplication, database, IdentityInv, JobOK, HandlerKnows
  <2> QED
    BY <1>1, <1>2, <1>3, <2>1, HandlersKnow
<1>5. SuccessIsComplete'
  BY <1>1, NothingIsTold DEF ReadApplication, history
<1> QED
  BY <1>1, <1>4, <1>5 DEF IdentityInv

(* The setting of a share that is set on its own.                          *)
LEMMA SetProviderSettingKeepsInv ==
  ASSUME IdentityInv, Observe, NEW p \in Caller, NEW e \in Email, SetProviderSetting(p, e)
  PROVE  IdentityInv'
<1>1. TypeOK' /\ Grown /\ AccountsComeFirst' /\ StandingIsEarned'
  BY DatabaseStays DEF SetProviderSetting, database, history, IdentityInv, TypeOK,
                       StandingIsEarned
<1>2. Moves(p, "insert share", e, "share")
  BY BeginMoves DEF SetProviderSetting, IdentityInv, Place
<1>3. HandlerKnows(p)'
  BY <1>2 DEF HandlerKnows, Moves, At, On
<1>4. JobOK' /\ OneRegistration'
  <2>1. \A q \in Caller \ {p} : At(q, "insert code") => code'[On(q)] = "none"
    BY DEF SetProviderSetting, database, IdentityInv, JobOK, HandlerKnows
  <2> QED
    BY <1>1, <1>2, <1>3, <2>1, HandlersKnow
<1>5. SuccessIsComplete'
  BY <1>1, NothingIsTold DEF SetProviderSetting, history
<1> QED
  BY <1>1, <1>4, <1>5 DEF IdentityInv

(* A code that was right leads to the statement that uses it up.           *)
LEMMA EnterCodeKeepsInv ==
  ASSUME IdentityInv, Observe, NEW p \in Caller, NEW e \in Email, EnterCode(p, e)
  PROVE  IdentityInv'
<1>1. TypeOK' /\ Grown /\ AccountsComeFirst' /\ StandingIsEarned'
  BY DatabaseStays DEF EnterCode, database, IdentityInv, TypeOK, StandingIsEarned
<1>2. Moves(p, "mark used", e, "verify")
  BY BeginMoves DEF EnterCode, IdentityInv, Place
<1>3. HandlerKnows(p)'
  <2>1. HasAccount(e) /\ code[e] # "none"
    BY DEF EnterCode, IdentityInv, AccountsComeFirst
  <2> QED
    BY <1>2, <2>1 DEF HandlerKnows, Moves, At, On, EnterCode, database, HasAccount
<1>4. JobOK' /\ OneRegistration'
  <2>1. \A q \in Caller \ {p} : At(q, "insert code") => code'[On(q)] = "none"
    BY DEF EnterCode, database, IdentityInv, JobOK, HandlerKnows
  <2> QED
    BY <1>1, <1>2, <1>3, <2>1, HandlersKnow
<1>5. SuccessIsComplete'
  BY <1>1, NothingIsTold DEF EnterCode
<1> QED
  BY <1>1, <1>4, <1>5 DEF IdentityInv

(* A handler that fails or stops leaves what it has done.                  *)
LEMMA FailKeepsInv ==
  ASSUME IdentityInv, Observe, NEW p \in Caller, Fail(p)
  PROVE  IdentityInv'
<1>1. TypeOK' /\ Grown /\ AccountsComeFirst' /\ StandingIsEarned'
  BY DatabaseStays DEF Fail, database, history, IdentityInv, TypeOK, StandingIsEarned
<1>2. Moves(p, "idle", "none", "none")
  BY LeaveMoves DEF Fail, IdentityInv
<1>3. HandlerKnows(p)'
  BY <1>2 DEF HandlerKnows, Moves, At
<1>4. JobOK' /\ OneRegistration'
  <2>1. \A q \in Caller \ {p} : At(q, "insert code") => code'[On(q)] = "none"
    BY DEF Fail, database, IdentityInv, JobOK, HandlerKnows
  <2> QED
    BY <1>1, <1>2, <1>3, <2>1, HandlersKnow
<1>5. SuccessIsComplete'
  BY <1>1, NothingIsTold DEF Fail, history
<1> QED
  BY <1>1, <1>4, <1>5 DEF IdentityInv

(* What a step does that writes one account ... *)
LEMMA AccountChanges ==
  ASSUME IdentityInv, Observe, NEW e \in Email, NEW new \in AccountType,
         account' = [account EXCEPT ![e] = new], new.role # "none",
         UNCHANGED <<code, application, share, tokens, acted>>,
         proved \subseteq proved', proved' \subseteq Email, new.status = 1 => e \in proved',
         granted \subseteq granted', granted' \subseteq Email,
         new.role = "provider" => e \in granted'
  PROVE  /\ TypeOK' /\ Grown /\ AccountsComeFirst' /\ StandingIsEarned'
         /\ \A x \in Email : account'[x] = IF x = e THEN new ELSE account[x]
<1>1. account \in [Email -> AccountType] /\ TypeOK
  BY AccountsAreRecords DEF IdentityInv
<1>2. /\ account' \in [Email -> AccountType]
      /\ \A x \in Email : account'[x] = IF x = e THEN new ELSE account[x]
  BY <1>1
<1>3. /\ was' \subseteq Email \X {"active", "provider"} /\ was \subseteq was'
  BY <1>1, <1>2, ObserveNotes
<1>4. TypeOK'
  <2>1. new \in [status : {0, 1}, role : Role]
    BY DEF AccountType
  <2>2. account' \in [Email -> [status : {0, 1}, role : Role] \cup {NoAccount}]
    BY <1>1, <2>1 DEF TypeOK
  <2> QED
    BY <1>1, <1>3, <2>2 DEF TypeOK
<1>5. Grown
  BY <1>2, <1>3 DEF Grown
<1>6. AccountsComeFirst'
  <2>1. \A x \in Email : HasAccount(x) => account'[x].role # "none"
    BY <1>2 DEF HasAccount
  <2>2. \A x : HasAccount(x) => x \in Email
    BY DEF HasAccount
  <2> QED
    BY <2>1, <2>2 DEF IdentityInv, AccountsComeFirst, HasAccount
<1>7. StandingIsEarned'
  BY <1>2 DEF IdentityInv, StandingIsEarned
<1> QED
  BY <1>2, <1>4, <1>5, <1>6, <1>7

(* ... one code ... *)
LEMMA CodeChanges ==
  ASSUME IdentityInv, Observe, NEW e \in Email, NEW new \in {"live", "expired", "used"},
         code' = [code EXCEPT ![e] = new], HasAccount(e), code[e] = "used" => new = "used",
         UNCHANGED <<account, application, share, tokens, proved, granted, acted>>
  PROVE  /\ TypeOK' /\ Grown /\ AccountsComeFirst' /\ StandingIsEarned'
         /\ \A x \in Email : code'[x] = IF x = e THEN new ELSE code[x]
<1>1. account' \in [Email -> AccountType] /\ TypeOK
  BY AccountsAreRecords DEF IdentityInv
<1>2. was' \subseteq Email \X {"active", "provider"} /\ was \subseteq was'
  BY <1>1, ObserveNotes
<1>3. \A x \in Email : code'[x] = IF x = e THEN new ELSE code[x]
  BY <1>1 DEF TypeOK
<1>4. TypeOK'
  BY <1>1, <1>2 DEF TypeOK
<1>5. Grown
  BY <1>2, <1>3 DEF Grown
<1>6. AccountsComeFirst'
  BY <1>3 DEF IdentityInv, AccountsComeFirst, HasAccount
<1>7. StandingIsEarned'
  BY DEF IdentityInv, StandingIsEarned
<1> QED
  BY <1>3, <1>4, <1>5, <1>6, <1>7

(* ... or one application. *)
LEMMA ApplicationChanges ==
  ASSUME IdentityInv, Observe, NEW a \in Application,
         NEW new \in [of : Email, status : {"pending", "approved", "rejected"}],
         application' = [application EXCEPT ![a] = new], HasAccount(new.of),
         application[a].status # "none" =>
             new.of = application[a].of /\ new.status # "pending",
         UNCHANGED <<account, code, share, tokens, proved, acted>>,
         granted \subseteq granted', granted' \subseteq Email
  PROVE  /\ TypeOK' /\ Grown /\ AccountsComeFirst' /\ StandingIsEarned'
         /\ \A x \in Application : application'[x] = IF x = a THEN new ELSE application[x]
<1>1. account' \in [Email -> AccountType] /\ TypeOK
  BY AccountsAreRecords DEF IdentityInv
<1>2. was' \subseteq Email \X {"active", "provider"} /\ was \subseteq was'
  BY <1>1, ObserveNotes
<1>3. \A x \in Application : application'[x] = IF x = a THEN new ELSE application[x]
  BY <1>1 DEF TypeOK
<1>4. TypeOK'
  BY <1>1, <1>2 DEF TypeOK
<1>5. Grown
  BY <1>2, <1>3 DEF Grown
<1>6. AccountsComeFirst'
  BY <1>3 DEF IdentityInv, AccountsComeFirst, HasAccount
<1>7. StandingIsEarned'
  BY DEF IdentityInv, StandingIsEarned
<1> QED
  BY <1>3, <1>4, <1>5, <1>6, <1>7

(* A handler that answers leaves with its success told. *)
LEMMA AnswerKeepsHandlers ==
  ASSUME IdentityInv, TypeOK', Grown, NEW p \in Caller, NEW what, Answer(p, what),
         \A q \in Caller \ {p} : At(q, "insert code") => code'[On(q)] = "none",
         Completes(what, On(p))
  PROVE  JobOK' /\ OneRegistration' /\ SuccessIsComplete'
<1>1. Moves(p, "idle", "none", "none")
  BY LeaveMoves DEF Answer, IdentityInv
<1>2. HandlerKnows(p)'
  BY <1>1 DEF HandlerKnows, Moves, At
<1>3. JobOK' /\ OneRegistration'
  BY <1>1, <1>2, HandlersKnow
<1>4. SuccessIsComplete'
  BY SuccessStays DEF Answer
<1> QED
  BY <1>3, <1>4

(* ... registers an address ... *)
LEMMA InsertUserKeepsInv ==
  ASSUME IdentityInv, Observe, NEW p \in Caller, InsertUser(p)
  PROVE  IdentityInv'
<1> DEFINE e == On(p)
           new == [status |-> 0, role |-> "user"]
<1>1. e \in Email /\ ~HasAccount(e)
  <2>1. e \in Email /\ account[e] = NoAccount
    BY DEF InsertUser, IdentityInv, JobOK, HandlerKnows
  <2> QED
    BY <2>1 DEF HasAccount, NoAccount
<1>2. new \in AccountType /\ new.role = "user" /\ new.status = 0
  BY DEF AccountType, Role
<1>3. account' = [account EXCEPT ![e] = new]
  BY DEF InsertUser
<1> HIDE DEF new
<1>4. /\ TypeOK' /\ Grown /\ AccountsComeFirst' /\ StandingIsEarned'
      /\ \A x \in Email : account'[x] = IF x = e THEN new ELSE account[x]
  <2>1. UNCHANGED <<code, application, share, tokens, proved, granted, acted>>
    BY DEF InsertUser, history
  <2>2. proved \subseteq Email /\ granted \subseteq Email
    BY DEF IdentityInv, TypeOK
  <2>3. new.role # "none" /\ new.role # "provider" /\ new.status # 1
    BY <1>2
  <2> QED
    BY <1>1, <1>2, <1>3, <2>1, <2>2, <2>3, AccountChanges
<1>5. Moves(p, "insert code", e, "register")
  BY GoToMoves DEF InsertUser, IdentityInv, Place
<1>6. code'[e] = "none"
  BY <1>1 DEF InsertUser, IdentityInv, AccountsComeFirst
<1>7. HandlerKnows(p)'
  BY <1>1, <1>2, <1>4, <1>5, <1>6 DEF HandlerKnows, Moves, At, On, HasAccount
<1>8. \A q \in Caller \ {p} : At(q, "insert code") => code'[On(q)] = "none" /\ On(q) # e
  BY <1>1 DEF InsertUser, IdentityInv, JobOK, HandlerKnows
<1>9. JobOK' /\ OneRegistration'
  BY <1>4, <1>5, <1>7, <1>8, HandlersKnow
<1>10. SuccessIsComplete'
  BY <1>4, NothingIsTold DEF InsertUser, history
<1> QED
  BY <1>4, <1>9, <1>10 DEF IdentityInv

(* The code of an account that has just been inserted.                     *)
LEMMA InsertCodeKeepsInv ==
  ASSUME IdentityInv, Observe, NEW p \in Caller, InsertCode(p)
  PROVE  IdentityInv'
<1> DEFINE e == On(p)
<1>1. e \in Email /\ HasAccount(e) /\ code[e] = "none" /\ At(p, "insert code")
  BY DEF InsertCode, IdentityInv, JobOK, HandlerKnows, HasAccount
<1>2. /\ TypeOK' /\ Grown /\ AccountsComeFirst' /\ StandingIsEarned'
      /\ \A x \in Email : code'[x] = IF x = e THEN "live" ELSE code[x]
  BY <1>1, CodeChanges DEF InsertCode
<1>3. \A q \in Caller \ {p} : At(q, "insert code") => code'[On(q)] = "none"
  <2>1. \A q \in Caller \ {p} : At(q, "insert code") => On(q) # e
    BY <1>1 DEF IdentityInv, OneRegistration
  <2>2. \A q \in Caller \ {p} : At(q, "insert code") => On(q) \in Email /\ code[On(q)] = "none"
    BY DEF IdentityInv, JobOK, HandlerKnows, HasAccount
  <2> QED
    BY <1>2, <2>1, <2>2
<1>4. Completes("register", e)
  <2>1. account'[e].role # "none"
    BY <1>1 DEF HasAccount, InsertCode
  <2>2. code'[e] = "live"
    BY <1>1, <1>2
  <2> QED
    BY <2>1, <2>2 DEF Completes, Decision
<1>5. JobOK' /\ OneRegistration' /\ SuccessIsComplete'
  BY <1>2, <1>3, <1>4, AnswerKeepsHandlers DEF InsertCode
<1> QED
  BY <1>2, <1>5 DEF IdentityInv

(* An administrator creates an account that is active.                     *)
LEMMA CreateUserKeepsInv ==
  ASSUME IdentityInv, Observe, NEW p \in Caller, NEW role \in Role, CreateUser(p, role)
  PROVE  IdentityInv'
<1> DEFINE e == On(p)
           new == [status |-> 1, role |-> role]
<1>1. e \in Email
  BY DEF CreateUser, IdentityInv, JobOK, HandlerKnows
<1>2. new \in AccountType /\ new.role = role /\ new.status = 1 /\ role # "none"
  BY DEF AccountType, Role
<1>3. account' = [account EXCEPT ![e] = new]
  BY DEF CreateUser
<1> HIDE DEF new
<1>4. TypeOK' /\ Grown /\ AccountsComeFirst' /\ StandingIsEarned'
  <2>1. UNCHANGED <<code, application, share, tokens, acted>> /\ proved' = proved \cup {e}
    BY DEF CreateUser
  <2>2. granted' = IF role = "provider" THEN granted \cup {e} ELSE granted
    BY DEF CreateUser
  <2>3. /\ proved \subseteq proved' /\ proved' \subseteq Email /\ e \in proved'
        /\ granted \subseteq granted' /\ granted' \subseteq Email
        /\ (role = "provider" => e \in granted')
    BY <1>1, <2>1, <2>2 DEF IdentityInv, TypeOK
  <2> QED
    BY <1>1, <1>2, <1>3, <2>1, <2>3, AccountChanges
<1>5. \A q \in Caller \ {p} : At(q, "insert code") => code'[On(q)] = "none"
  BY DEF CreateUser, IdentityInv, JobOK, HandlerKnows
<1>6. Completes("create", e)
  BY DEF Completes, Decision
<1>7. JobOK' /\ OneRegistration' /\ SuccessIsComplete'
  BY <1>4, <1>5, <1>6, AnswerKeepsHandlers DEF CreateUser
<1> QED
  BY <1>4, <1>7 DEF IdentityInv

(* ... verifies one ... *)
LEMMA MarkUsedKeepsInv ==
  ASSUME IdentityInv, Observe, NEW p \in Caller, MarkUsed(p)
  PROVE  IdentityInv'
<1> DEFINE e == On(p)
<1>1. /\ e \in Email /\ HasAccount(e) /\ code[e] # "none" /\ e \in proved
      /\ At(p, "mark used")
  BY DEF MarkUsed, IdentityInv, JobOK, HandlerKnows, HasAccount
<1>2. /\ TypeOK' /\ Grown /\ AccountsComeFirst' /\ StandingIsEarned'
      /\ \A x \in Email : code'[x] = IF x = e THEN "used" ELSE code[x]
  BY <1>1, CodeChanges DEF MarkUsed, history
<1>3. Moves(p, "activate", e, job[p].how)
  BY GoToMoves DEF MarkUsed, IdentityInv, Place
<1>4. HandlerKnows(p)'
  BY <1>1, <1>2, <1>3 DEF HandlerKnows, Moves, At, On, HasAccount, MarkUsed, history
<1>5. \A q \in Caller \ {p} : At(q, "insert code") => code'[On(q)] = "none"
  <2>1. \A q \in Caller : At(q, "insert code") => On(q) \in Email /\ code[On(q)] = "none"
    BY DEF IdentityInv, JobOK, HandlerKnows, HasAccount
  <2> QED
    BY <1>1, <1>2, <2>1
<1>6. JobOK' /\ OneRegistration'
  BY <1>2, <1>3, <1>4, <1>5, HandlersKnow
<1>7. SuccessIsComplete'
  BY <1>2, NothingIsTold DEF MarkUsed, history
<1> QED
  BY <1>2, <1>6, <1>7 DEF IdentityInv

(* Only a handler that has used up the code activates.                     *)
LEMMA ActivateKeepsInv ==
  ASSUME IdentityInv, Observe, NEW p \in Caller, Activate(p)
  PROVE  IdentityInv'
<1> DEFINE e == On(p)
           new == [account[e] EXCEPT !.status = 1]
<1>1. e \in Email /\ HasAccount(e) /\ code[e] = "used" /\ e \in proved
  BY DEF Activate, IdentityInv, JobOK, HandlerKnows, HasAccount
<1>2. account[e] \in AccountType
  BY <1>1, AccountsAreRecords DEF IdentityInv
<1>3. new \in AccountType /\ new.role = account[e].role /\ new.status = 1
  BY <1>2 DEF AccountType
<1>4. account' = [account EXCEPT ![e] = new]
  BY DEF Activate
<1>5. new.role = "provider" => e \in granted
  BY <1>1, <1>3 DEF IdentityInv, StandingIsEarned
<1> HIDE DEF new
<1>6. /\ TypeOK' /\ Grown /\ AccountsComeFirst' /\ StandingIsEarned'
      /\ \A x \in Email : account'[x] = IF x = e THEN new ELSE account[x]
  BY <1>1, <1>3, <1>4, <1>5, AccountChanges DEF Activate, IdentityInv, TypeOK, HasAccount
<1>7. \A q \in Caller \ {p} : At(q, "insert code") => code'[On(q)] = "none"
  BY DEF Activate, IdentityInv, JobOK, HandlerKnows
<1>8. Completes("verify", e)
  <2>1. <<e, "active">> \in was'
    BY <1>1, <1>3, <1>6 DEF Observe
  <2> QED
    BY <1>1, <2>1 DEF Completes, Decision, Activate
<1>9. JobOK' /\ OneRegistration' /\ SuccessIsComplete'
  BY <1>6, <1>7, <1>8, AnswerKeepsHandlers DEF Activate
<1> QED
  BY <1>6, <1>9 DEF IdentityInv

(* ... reviews an application ... *)
LEMMA SetStatusKeepsInv ==
  ASSUME IdentityInv, Observe, NEW p \in Caller, SetStatus(p)
  PROVE  IdentityInv'
<1> DEFINE a == On(p)
           status == IF Approves(p) THEN "approved" ELSE "rejected"
           new == [application[a] EXCEPT !.status = status]
<1>1. /\ a \in Application /\ application[a].status # "none"
      /\ job[p].how \in Decision
  BY DEF SetStatus, IdentityInv, JobOK, HandlerKnows
<1>2. application[a] \in [of : Email, status : {"pending", "approved", "rejected"}]
  BY <1>1 DEF IdentityInv, TypeOK, NoApplication
<1>3. /\ new \in [of : Email, status : {"pending", "approved", "rejected"}]
      /\ new.of = application[a].of /\ new.status = status
      /\ status \in {"approved", "rejected"}
  BY <1>2
<1>4. application' = [application EXCEPT ![a] = new]
  BY DEF SetStatus
<1>5. HasAccount(new.of)
  BY <1>1, <1>3 DEF IdentityInv, AccountsComeFirst
<1>6. Applicant(p) = application[a].of
  BY <1>1 DEF Applicant
<1>7. granted \subseteq granted' /\ granted' \subseteq Email
  <2>1. granted \subseteq Email /\ Applicant(p) \in Email
    BY <1>3, <1>5, <1>6 DEF IdentityInv, TypeOK, HasAccount
  <2>2. granted' = granted \/ granted' = granted \cup {Applicant(p)}
    BY DEF SetStatus
  <2> QED
    BY <2>1, <2>2
<1> HIDE DEF new, status
<1>8. /\ TypeOK' /\ Grown /\ AccountsComeFirst' /\ StandingIsEarned'
      /\ \A x \in Application : application'[x] = IF x = a THEN new ELSE application[x]
  BY <1>1, <1>3, <1>4, <1>5, <1>7, ApplicationChanges DEF SetStatus
<1>9. application'[a].of = application[a].of /\ application'[a].status \in {"approved", "rejected"}
  BY <1>1, <1>3, <1>8
<1>10. \A q \in Caller \ {p} : At(q, "insert code") => code'[On(q)] = "none"
  BY DEF SetStatus, IdentityInv, JobOK, HandlerKnows
<1>11. CASE Approves(p)
  <2>1. Moves(p, "set role", a, job[p].how)
    BY <1>11, GoToMoves DEF SetStatus, IdentityInv, Place
  <2>2. Applicant(p)' = Applicant(p) /\ Approves(p)'
    BY <1>1, <1>6, <1>9, <1>11, <2>1 DEF Applicant, Approves, Moves, On
  <2>3. Applicant(p) \in granted'
    BY <1>11 DEF SetStatus
  <2>4. HandlerKnows(p)'
    BY <1>1, <1>9, <2>1, <2>2, <2>3 DEF HandlerKnows, Moves, At, On, WasReviewed
  <2>5. JobOK' /\ OneRegistration'
    BY <1>8, <1>10, <2>1, <2>4, HandlersKnow
  <2>6. SuccessIsComplete'
    BY <1>8, <1>11, NothingIsTold DEF SetStatus
  <2> QED
    BY <1>8, <2>5, <2>6 DEF IdentityInv
<1>12. CASE ~Approves(p)
  <2>1. Completes("rejected", a)
    BY <1>9 DEF Completes
  <2>2. JobOK' /\ OneRegistration' /\ SuccessIsComplete'
    BY <1>8, <1>10, <1>12, <2>1, AnswerKeepsHandlers DEF SetStatus
  <2> QED
    BY <1>8, <2>2 DEF IdentityInv
<1> QED
  BY <1>11, <1>12

(* Only a handler that has approved sets the role.                         *)
LEMMA SetRoleKeepsInv ==
  ASSUME IdentityInv, Observe, NEW p \in Caller, SetRole(p)
  PROVE  IdentityInv'
<1> DEFINE a == On(p)
           e == Applicant(p)
           new == [account[e] EXCEPT !.role = "provider"]
<1>1. WasReviewed(a) /\ Approves(p) /\ e \in granted
  BY DEF SetRole, IdentityInv, JobOK, HandlerKnows
<1>2. a \in Application /\ application[a].status \in {"approved", "rejected"}
  BY <1>1 DEF WasReviewed
<1>3. e = application[a].of
  BY <1>2 DEF Applicant
<1>4. e \in Email /\ account[e].role # "none"
  BY <1>2, <1>3 DEF IdentityInv, AccountsComeFirst, HasAccount
<1>5. account[e] \in AccountType
  BY <1>4, AccountsAreRecords DEF IdentityInv
<1>6. new \in AccountType /\ new.role = "provider" /\ new.status = account[e].status
  BY <1>5 DEF AccountType, Role
<1>7. account' = [account EXCEPT ![e] = new]
  BY DEF SetRole
<1>8. new.status = 1 => e \in proved
  BY <1>4, <1>6 DEF IdentityInv, StandingIsEarned
<1> HIDE DEF new
<1>9. UNCHANGED <<code, application, share, tokens, proved, granted, acted>>
  BY DEF SetRole
<1>10. proved \subseteq Email /\ granted \subseteq Email
  BY DEF IdentityInv, TypeOK
<1>11. /\ TypeOK' /\ Grown /\ AccountsComeFirst' /\ StandingIsEarned'
       /\ \A x \in Email : account'[x] = IF x = e THEN new ELSE account[x]
  BY <1>1, <1>4, <1>6, <1>7, <1>8, <1>9, <1>10, AccountChanges
<1>12. <<e, "provider">> \in was'
  BY <1>4, <1>6, <1>11 DEF Observe
<1>13. \A q \in Caller \ {p} : At(q, "insert code") => code'[On(q)] = "none"
  BY DEF SetRole, IdentityInv, JobOK, HandlerKnows
<1>14. CASE job[p].how = "approved with a share"
  <2>1. Moves(p, "insert share", a, "approved with a share")
    BY <1>14, GoToMoves DEF SetRole, IdentityInv, Place
  <2>2. On(p)' = a /\ application' = application
    BY <1>9, <2>1 DEF Moves, On
  <2>3. Applicant(p)' = e /\ WasReviewed(a)'
    BY <1>2, <1>3, <2>2 DEF Applicant, WasReviewed
  <2>4. HandlerKnows(p)'
    BY <1>12, <2>1, <2>2, <2>3 DEF HandlerKnows, Moves, At, On
  <2>5. JobOK' /\ OneRegistration'
    BY <1>11, <1>13, <2>1, <2>4, HandlersKnow
  <2>6. SuccessIsComplete'
    BY <1>11, <1>14, NothingIsTold DEF SetRole
  <2> QED
    BY <1>11, <2>5, <2>6 DEF IdentityInv
<1>15. CASE job[p].how # "approved with a share"
  <2>1. Completes(job[p].how, a)
    BY <1>1, <1>2, <1>3, <1>9, <1>12 DEF Completes, Approves
  <2>2. JobOK' /\ OneRegistration' /\ SuccessIsComplete'
    BY <1>11, <1>13, <1>15, <2>1, AnswerKeepsHandlers DEF SetRole
  <2> QED
    BY <1>11, <2>2 DEF IdentityInv
<1> QED
  BY <1>14, <1>15

(* What a step does that leaves accounts, codes and applications alone. *)
LEMMA SharesAndTokensChange ==
  ASSUME IdentityInv, Observe, UNCHANGED <<account, code, application, proved, granted>>,
         share' \subseteq Email, tokens' \subseteq Email \X Role, acted' \subseteq Email,
         \A t \in tokens' : HasAccount(t[1]),
         \A e \in Email : <<e, "provider">> \in tokens' \/ e \in acted' => e \in granted
  PROVE  TypeOK' /\ Grown /\ AccountsComeFirst' /\ StandingIsEarned'
<1>1. account' \in [Email -> AccountType]
  BY AccountsAreRecords DEF IdentityInv
<1>2. was' \subseteq Email \X {"active", "provider"} /\ was \subseteq was'
  BY <1>1, ObserveNotes DEF IdentityInv
<1>3. TypeOK'
  BY <1>2 DEF IdentityInv, TypeOK
<1>4. Grown
  BY <1>2 DEF Grown
<1>5. AccountsComeFirst'
  BY DEF IdentityInv, AccountsComeFirst, HasAccount
<1>6. StandingIsEarned'
  BY DEF IdentityInv, StandingIsEarned
<1> QED
  BY <1>3, <1>4, <1>5, <1>6

(* A handler that sets a share leaves with what it came for. *)
LEMMA ShareIsAnswered ==
  ASSUME IdentityInv, Observe, NEW p \in Caller, At(p, "insert share"),
         Answer(p, job[p].how), share' \subseteq share \cup {Applicant(p)},
         UNCHANGED <<account, code, application, tokens, proved, granted, acted>>
  PROVE  IdentityInv'
<1>1. \/ On(p) \in Email /\ job[p].how = "share"
      \/ /\ WasReviewed(On(p)) /\ job[p].how = "approved with a share"
         /\ <<Applicant(p), "provider">> \in was
  BY DEF IdentityInv, JobOK, HandlerKnows
<1>2. Applicant(p) \in Email
  BY <1>1, IdentityAssumption DEF Applicant, WasReviewed, IdentityInv, TypeOK
<1>3. TypeOK' /\ Grown /\ AccountsComeFirst' /\ StandingIsEarned'
  <2>1. share' \subseteq Email /\ tokens' \subseteq Email \X Role /\ acted' \subseteq Email
    BY <1>2 DEF IdentityInv, TypeOK
  <2>2. \A t \in tokens' : HasAccount(t[1])
    BY DEF IdentityInv, AccountsComeFirst
  <2>3. \A e \in Email : <<e, "provider">> \in tokens' \/ e \in acted' => e \in granted
    BY DEF IdentityInv, StandingIsEarned
  <2> QED
    BY <2>1, <2>2, <2>3, SharesAndTokensChange
<1>4. \A q \in Caller \ {p} : At(q, "insert code") => code'[On(q)] = "none"
  BY DEF IdentityInv, JobOK, HandlerKnows
<1>5. Completes(job[p].how, On(p))
  <2>1. CASE job[p].how = "share"
    BY <2>1 DEF Completes, Decision
  <2>2. CASE job[p].how # "share"
    <3>1. WasReviewed(On(p)) /\ job[p].how = "approved with a share"
          /\ <<Applicant(p), "provider">> \in was'
      BY <1>1, <1>3, <2>2 DEF Grown
    <3> QED
      BY <3>1 DEF Completes, WasReviewed, Applicant
  <2> QED
    BY <2>1, <2>2
<1>6. JobOK' /\ OneRegistration' /\ SuccessIsComplete'
  BY <1>3, <1>4, <1>5, AnswerKeepsHandlers
<1> QED
  BY <1>3, <1>6 DEF IdentityInv

(* The share of a provider that had none.                                  *)
LEMMA InsertShareKeepsInv ==
  ASSUME IdentityInv, Observe, NEW p \in Caller, InsertShare(p)
  PROVE  IdentityInv'
BY ShareIsAnswered DEF InsertShare

(* A share that is updated is there, or is still missing afterwards.       *)
LEMMA UpdateShareKeepsInv ==
  ASSUME IdentityInv, Observe, NEW p \in Caller, UpdateShare(p)
  PROVE  IdentityInv'
BY ShareIsAnswered DEF UpdateShare, database

(* ... and what happens beside the handlers. *)
LEMMA CodeExpiresKeepsInv ==
  ASSUME IdentityInv, Observe, NEW e \in Email, CodeExpires(e)
  PROVE  IdentityInv'
<1>1. HasAccount(e)
  BY DEF CodeExpires, IdentityInv, AccountsComeFirst
<1>2. /\ TypeOK' /\ Grown /\ AccountsComeFirst' /\ StandingIsEarned'
      /\ \A x \in Email : code'[x] = IF x = e THEN "expired" ELSE code[x]
  BY <1>1, CodeChanges DEF CodeExpires, history
<1>3. \A x \in Email : code[x] = "none" => code'[x] = "none"
  BY <1>2 DEF CodeExpires
<1>4. JobOK' /\ OneRegistration'
  BY <1>2, <1>3, HandlersStay DEF CodeExpires
<1>5. SuccessIsComplete'
  BY <1>2, NothingIsTold DEF CodeExpires, history
<1> QED
  BY <1>2, <1>4, <1>5 DEF IdentityInv

(* A token says what the account was when it logged in.                    *)
LEMMA LoginKeepsInv ==
  ASSUME IdentityInv, Observe, NEW e \in Email, Login(e)
  PROVE  IdentityInv'
<1>1. UNCHANGED <<account, code, application, share, proved, granted, acted, told, job>>
  BY DEF Login, database, history
<1>2. account[e].role \in Role
  <2>1. account[e] # NoAccount
    BY DEF Login, NoAccount
  <2> QED
    BY <2>1 DEF IdentityInv, TypeOK
<1>3. tokens' = tokens \cup {<<e, account[e].role>>}
  BY DEF Login
<1>4. share' \subseteq Email /\ tokens' \subseteq Email \X Role /\ acted' \subseteq Email
  BY <1>1, <1>2, <1>3 DEF IdentityInv, TypeOK
<1>5. \A t \in tokens' : HasAccount(t[1])
  BY <1>2, <1>3 DEF IdentityInv, AccountsComeFirst, HasAccount, Role
<1>6. \A x \in Email : <<x, "provider">> \in tokens' \/ x \in acted' => x \in granted
  BY <1>1, <1>3 DEF IdentityInv, StandingIsEarned
<1>7. TypeOK' /\ Grown /\ AccountsComeFirst' /\ StandingIsEarned'
  BY <1>1, <1>4, <1>5, <1>6, SharesAndTokensChange
<1>8. JobOK' /\ OneRegistration'
  BY <1>1, <1>7, HandlersStay
<1>9. SuccessIsComplete'
  BY <1>1, <1>7, NothingIsTold
<1> QED
  BY <1>7, <1>8, <1>9 DEF IdentityInv

(* A token that expires is no standing any more.                           *)
LEMMA TokenExpiresKeepsInv ==
  ASSUME IdentityInv, Observe, NEW t, TokenExpires(t)
  PROVE  IdentityInv'
<1>1. UNCHANGED <<account, code, application, share, proved, granted, acted, told, job>>
  BY DEF TokenExpires, database, history
<1>2. tokens' \subseteq tokens
  BY DEF TokenExpires
<1>3. share' \subseteq Email /\ tokens' \subseteq Email \X Role /\ acted' \subseteq Email
  BY <1>1, <1>2 DEF IdentityInv, TypeOK
<1>4. \A x \in tokens' : HasAccount(x[1])
  BY <1>2 DEF IdentityInv, AccountsComeFirst
<1>5. \A x \in Email : <<x, "provider">> \in tokens' \/ x \in acted' => x \in granted
  BY <1>1, <1>2 DEF IdentityInv, StandingIsEarned
<1>6. TypeOK' /\ Grown /\ AccountsComeFirst' /\ StandingIsEarned'
  BY <1>1, <1>3, <1>4, <1>5, SharesAndTokensChange
<1>7. JobOK' /\ OneRegistration'
  BY <1>1, <1>6, HandlersStay
<1>8. SuccessIsComplete'
  BY <1>1, <1>6, NothingIsTold
<1> QED
  BY <1>6, <1>7, <1>8 DEF IdentityInv

(* Whoever the provider's API lets in has held a provider's token.         *)
LEMMA RequireProviderKeepsInv ==
  ASSUME IdentityInv, Observe, NEW t \in tokens, RequireProvider(t)
  PROVE  IdentityInv'
<1>1. UNCHANGED <<account, code, application, share, tokens, proved, granted, told, job>>
  BY DEF RequireProvider, database
<1>2. t \in Email \X Role /\ t[2] = "provider" /\ acted' = acted \cup {t[1]}
  BY DEF RequireProvider, IdentityInv, TypeOK
<1>3. t[1] \in Email /\ <<t[1], "provider">> \in tokens
  BY <1>2
<1>4. t[1] \in granted
  BY <1>3 DEF IdentityInv, StandingIsEarned
<1>5. share' \subseteq Email /\ tokens' \subseteq Email \X Role /\ acted' \subseteq Email
  BY <1>1, <1>2, <1>3 DEF IdentityInv, TypeOK
<1>6. \A x \in tokens' : HasAccount(x[1])
  BY <1>1 DEF IdentityInv, AccountsComeFirst
<1>7. \A x \in Email : <<x, "provider">> \in tokens' \/ x \in acted' => x \in granted
  BY <1>1, <1>2, <1>4 DEF IdentityInv, StandingIsEarned
<1>8. TypeOK' /\ Grown /\ AccountsComeFirst' /\ StandingIsEarned'
  BY <1>1, <1>5, <1>6, <1>7, SharesAndTokensChange
<1>9. JobOK' /\ OneRegistration'
  BY <1>1, <1>8, HandlersStay
<1>10. SuccessIsComplete'
  BY <1>1, <1>8, NothingIsTold
<1> QED
  BY <1>8, <1>9, <1>10 DEF IdentityInv

(* An administrator decides on a status.                                   *)
LEMMA UpdateUserStatusKeepsInv ==
  ASSUME IdentityInv, Observe, NEW e \in Email, NEW status \in {0, 1},
         UpdateUserStatus(e, status)
  PROVE  IdentityInv'
<1> DEFINE new == [account[e] EXCEPT !.status = status]
<1>1. UNCHANGED <<code, application, share, tokens, granted, acted, told, job>>
  BY DEF UpdateUserStatus
<1>2. account[e] \in [status : {0, 1}, role : Role]
  BY DEF UpdateUserStatus, IdentityInv, TypeOK
<1>3. new \in AccountType /\ new.role = account[e].role /\ new.role # "none" /\ new.status = status
  BY <1>2 DEF AccountType, Role
<1>4. account' = [account EXCEPT ![e] = new]
  BY DEF UpdateUserStatus
<1>5. proved' = IF status = 1 THEN proved \cup {e} ELSE proved
  BY DEF UpdateUserStatus
<1>6. proved \subseteq Email /\ granted \subseteq Email
  BY DEF IdentityInv, TypeOK
<1>7. new.role = "provider" => e \in granted
  BY <1>3 DEF IdentityInv, StandingIsEarned
<1>8. proved \subseteq proved' /\ proved' \subseteq Email /\ (new.status = 1 => e \in proved')
  BY <1>3, <1>5, <1>6
<1> HIDE DEF new
<1>9. TypeOK' /\ Grown /\ AccountsComeFirst' /\ StandingIsEarned'
  BY <1>1, <1>3, <1>4, <1>6, <1>7, <1>8, AccountChanges
<1>10. JobOK' /\ OneRegistration'
  BY <1>1, <1>9, HandlersStay
<1>11. SuccessIsComplete'
  BY <1>1, <1>9, NothingIsTold
<1> QED
  BY <1>9, <1>10, <1>11 DEF IdentityInv

(* An administrator decides on a role.                                     *)
LEMMA UpdateUserRoleKeepsInv ==
  ASSUME IdentityInv, Observe, NEW e \in Email, NEW role \in Role, UpdateUserRole(e, role)
  PROVE  IdentityInv'
<1> DEFINE new == [account[e] EXCEPT !.role = role]
<1>1. UNCHANGED <<code, application, share, tokens, proved, acted, told, job>>
  BY DEF UpdateUserRole
<1>2. account[e] \in [status : {0, 1}, role : Role]
  BY DEF UpdateUserRole, IdentityInv, TypeOK
<1>3. /\ new \in AccountType /\ new.role = role /\ new.role # "none"
      /\ new.status = account[e].status
  BY <1>2 DEF AccountType, Role
<1>4. account' = [account EXCEPT ![e] = new]
  BY DEF UpdateUserRole
<1>5. granted' = IF role = "provider" THEN granted \cup {e} ELSE granted
  BY DEF UpdateUserRole
<1>6. proved \subseteq Email /\ granted \subseteq Email
  BY DEF IdentityInv, TypeOK
<1>7. new.status = 1 => e \in proved
  BY <1>3 DEF IdentityInv, StandingIsEarned
<1>8. /\ granted \subseteq granted' /\ granted' \subseteq Email
      /\ new.role = "provider" => e \in granted'
  BY <1>3, <1>5, <1>6
<1> HIDE DEF new
<1>9. TypeOK' /\ Grown /\ AccountsComeFirst' /\ StandingIsEarned'
  BY <1>1, <1>3, <1>4, <1>6, <1>7, <1>8, AccountChanges
<1>10. JobOK' /\ OneRegistration'
  BY <1>1, <1>9, HandlersStay
<1>11. SuccessIsComplete'
  BY <1>1, <1>9, NothingIsTold
<1> QED
  BY <1>9, <1>10, <1>11 DEF IdentityInv

(* An application is pending until it is reviewed.                         *)
LEMMA ApplyProviderKeepsInv ==
  ASSUME IdentityInv, Observe, NEW t \in tokens, NEW a \in Application, ApplyProvider(t, a)
  PROVE  IdentityInv'
<1> DEFINE new == [of |-> t[1], status |-> "pending"]
<1>1. UNCHANGED <<account, code, share, tokens, proved, granted, acted, told, job>>
  BY DEF ApplyProvider, history
<1>2. application[a].status = "none"
  BY DEF ApplyProvider, NoApplication
<1>3. t[1] \in Email /\ HasAccount(t[1])
  BY DEF IdentityInv, TypeOK, AccountsComeFirst
<1>4. new \in [of : Email, status : {"pending", "approved", "rejected"}] /\ new.of = t[1]
  BY <1>3
<1>5. application' = [application EXCEPT ![a] = new]
  BY DEF ApplyProvider
<1>6. granted \subseteq Email
  BY DEF IdentityInv, TypeOK
<1> HIDE DEF new
<1>7. TypeOK' /\ Grown /\ AccountsComeFirst' /\ StandingIsEarned'
  BY <1>1, <1>2, <1>3, <1>4, <1>5, <1>6, ApplicationChanges
<1>8. JobOK' /\ OneRegistration'
  BY <1>1, <1>7, HandlersStay
<1>9. SuccessIsComplete'
  BY <1>1, <1>7, NothingIsTold
<1> QED
  BY <1>7, <1>8, <1>9 DEF IdentityInv

(* Nobody has an account at the start, and every handler is idle. *)
LEMMA InitEstablishesInv == Init => IdentityInv
<1> SUFFICES ASSUME Init PROVE IdentityInv
  OBVIOUS
<1>1. \A p \in Caller : job[p] = Idle /\ job[p].at = "idle"
  BY DEF Init, Idle
<1>2. /\ \A e \in Email : account[e] = NoAccount /\ code[e] = "none"
      /\ \A a \in Application : application[a] = NoApplication
  BY DEF Init
<1>3. TypeOK
  BY DEF Init, TypeOK
<1>4. JobOK
  <2>1. Idle \in JobType
    BY DEF JobType, Idle, Place
  <2>2. job \in [Caller -> JobType]
    BY <2>1 DEF Init
  <2>3. \A p \in Caller : HandlerKnows(p)
    BY <1>1 DEF HandlerKnows, At
  <2> QED
    BY <2>2, <2>3 DEF JobOK
<1>5. OneRegistration
  BY <1>1 DEF OneRegistration, At
<1>6. AccountsComeFirst
  BY <1>2 DEF AccountsComeFirst, Init, NoApplication
<1>7. StandingIsEarned
  BY <1>2 DEF StandingIsEarned, Init, NoAccount
<1>8. SuccessIsComplete
  BY DEF SuccessIsComplete, Init
<1> QED
  BY <1>3, <1>4, <1>5, <1>6, <1>7, <1>8 DEF IdentityInv

(* Nothing happens.                                                        *)
LEMMA StutteringKeepsInv == IdentityInv /\ UNCHANGED vars => IdentityInv'
<1> SUFFICES ASSUME IdentityInv, UNCHANGED vars PROVE IdentityInv'
  OBVIOUS
<1>1. UNCHANGED <<account, code, application, share, tokens, job, told, proved, granted,
                  acted, was>>
  BY DEF vars, database, history
<1>2. TypeOK' /\ AccountsComeFirst' /\ StandingIsEarned' /\ SuccessIsComplete'
  BY <1>1 DEF IdentityInv, TypeOK, AccountsComeFirst, HasAccount, StandingIsEarned,
              SuccessIsComplete
<1>3. JobOK' /\ OneRegistration'
  BY <1>1, ZenonT(40) DEF IdentityInv, JobOK, HandlerKnows, OneRegistration, At, On, HasAccount,
              WasReviewed, Approves, Applicant
<1> QED
  BY <1>2, <1>3 DEF IdentityInv

(* Every step of identity keeps its inductive invariant. *)
LEMMA StepKeepsInv == IdentityInv /\ Next => IdentityInv'
<1> SUFFICES ASSUME IdentityInv, Step, Observe PROVE IdentityInv'
  BY DEF Next
<1>1. CASE \E p \in Caller, e \in Email :
             \/ \E how \in {"register", "create"} : CheckEmail(p, e, how)
             \/ EnterCode(p, e) \/ SetProviderSetting(p, e)
  BY <1>1, CheckEmailKeepsInv, EnterCodeKeepsInv, SetProviderSettingKeepsInv
<1>2. CASE \E p \in Caller :
             \/ InsertUser(p) \/ InsertCode(p) \/ \E role \in Role : CreateUser(p, role)
             \/ MarkUsed(p) \/ Activate(p) \/ Fail(p)
  BY <1>2, InsertUserKeepsInv, InsertCodeKeepsInv, CreateUserKeepsInv, MarkUsedKeepsInv,
     ActivateKeepsInv, FailKeepsInv
<1>3. CASE \E p \in Caller :
             \/ \E a \in Application, decision \in Decision : ReadApplication(p, a, decision)
             \/ SetStatus(p) \/ SetRole(p) \/ InsertShare(p) \/ UpdateShare(p)
  BY <1>3, ReadApplicationKeepsInv, SetStatusKeepsInv, SetRoleKeepsInv,
     InsertShareKeepsInv, UpdateShareKeepsInv
<1>4. CASE \E e \in Email :
             \/ CodeExpires(e) \/ Login(e)
             \/ \E status \in {0, 1} : UpdateUserStatus(e, status)
             \/ \E role \in Role : UpdateUserRole(e, role)
  BY <1>4, CodeExpiresKeepsInv, LoginKeepsInv, UpdateUserStatusKeepsInv,
     UpdateUserRoleKeepsInv
<1>5. CASE \E t \in tokens : \/ TokenExpires(t) \/ RequireProvider(t)
                             \/ \E a \in Application : ApplyProvider(t, a)
  BY <1>5, TokenExpiresKeepsInv, RequireProviderKeepsInv, ApplyProviderKeepsInv
<1> QED
  BY <1>1, <1>2, <1>3, <1>4, <1>5 DEF Step

(* The inductive invariant of users, codes, roles and applications holds in *)
(* every reachable state (user.go, key.go:97, provider.go:13).              *)
THEOREM IdentityInvariant == Spec => []IdentityInv
<1>1. IdentityInv /\ [Next]_vars => IdentityInv'
  BY StepKeepsInv, StutteringKeepsInv
<1> QED
  BY <1>1, InitEstablishesInv, PTL DEF Spec

(* However handlers overlap and wherever they stop, only an address whose  *)
(* code was entered or which an administrator activated is active, and     *)
(* only who was approved or made one is a provider, holds a provider's     *)
(* token or has used the provider's API (user.go:105, user.go:395).        *)
THEOREM StandingNeedsAReason == Spec => []StandingIsEarned
<1>1. IdentityInv => StandingIsEarned
  BY DEF IdentityInv
<1> QED
  BY <1>1, IdentityInvariant, PTL

(* A handler that has answered with success has done all its statements,   *)
(* and no other handler has undone them (user.go:63, user.go:105,          *)
(* user.go:399).                                                           *)
THEOREM SuccessMeansComplete == Spec => []SuccessIsComplete
<1>1. IdentityInv => SuccessIsComplete
  BY DEF IdentityInv
<1> QED
  BY <1>1, IdentityInvariant, PTL
=============================================================================
