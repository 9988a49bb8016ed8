------------------------- MODULE AuthManagerProofs --------------------------
(***************************************************************************)
(* The safety properties of AuthManager, for any number of connections,    *)
(* endpoints and keys and any limits.                                      *)
(***************************************************************************)
EXTENDS AuthManager, TLAPS

\* The rate limit entry of an endpoint never understates its failures: ranks
\* beyond the counter are old, and none is younger than the last attempt.
Remembers(e) == \A i \in Ranks :
    /\ i > limits[e].failed => recent[e][i] = Lockout
    /\ recent[e][i] >= limits[e].age \/ recent[e][i] = Lockout

LimitsRemember == \A e \in Endpoints : Remembers(e)

IInv == TypeOK /\ LimitsRemember /\ SetterKeepsAccess

\* Ranks and ages are natural numbers.
LEMMA RankAges == Ranks \subseteq Nat /\ Ages \subseteq Nat /\ Lockout \in Ages /\ 0 \in Ages
  BY AuthAssumption DEF Ranks, Ages

\* Ageing stays within its bound and moves by at most a second.
LEMMA OlderType ==
  ASSUME NEW last \in Nat, NEW age \in 0..last
  PROVE  /\ Older(age, last) \in 0..last
         /\ Older(age, last) >= age
         /\ Older(age, last) <= age + 1
         /\ age = last => Older(age, last) = last
         /\ Older(age, last) = last \/ Older(age, last) = age + 1
  BY DEF Older

\* isRateLimited's clean-up leaves a well-formed entry.
LEMMA EntryType ==
  ASSUME TypeOK, NEW e \in Endpoints
  PROVE  /\ Entry(e) \in [failed : 0..MaxFailed, age : Ages]
         /\ Entry(e) = NoLimit \/ Entry(e) = limits[e]
  BY AuthAssumption DEF TypeOK, Entry, NoLimit, Ages
\* The histories' building blocks are well-formed.
LEMMA HistoryType ==
  /\ NoFailures \in [Ranks -> 0..Lockout]
  /\ \A ages \in [Ranks -> 0..Lockout] : Struck(ages) \in [Ranks -> 0..Lockout]
  BY AuthAssumption DEF NoFailures, Struck, Ranks
-----------------------------------------------------------------------------
\* Every action keeps the variables in their types.
LEMMA TypeStep == TypeOK /\ [Next]_vars => TypeOK'
<1> SUFFICES ASSUME TypeOK, [Next]_vars PROVE TypeOK'
  OBVIOUS
<1> USE AuthAssumption
<1>1. ASSUME NEW c \in Conns, NEW e \in Endpoints, OnOpen(c, e) PROVE TypeOK'
  BY <1>1 DEF OnOpen, TypeOK
<1>2. ASSUME NEW c \in Conns, OnClose(c) PROVE TypeOK'
  BY <1>2 DEF OnClose, Closed, TypeOK
<1>3. ASSUME NEW c \in Conns, NEW k \in Keys, Authenticate(c, k) PROVE TypeOK'
  <2>1. CASE Limited(conns[c].at)
    BY <1>3, <2>1 DEF Authenticate, TypeOK
  <2>2. CASE ~Limited(conns[c].at) /\ k = keyHash
    <3>1. conns[c].at \in Endpoints /\ Accept(c) /\ UNCHANGED <<keyHash, setter>>
      BY <1>3, <2>2 DEF Authenticate, TypeOK
    <3>2. conns' \in [Conns -> [open : BOOLEAN, at : Endpoints, authenticated : BOOLEAN]]
      BY <3>1 DEF Accept, TypeOK
    <3>3. limits' \in [Endpoints -> [failed : 0..MaxFailed, age : Ages]]
      BY <3>1 DEF Accept, TypeOK, NoLimit, Ages
    <3>4. recent' \in [Endpoints -> [Ranks -> 0..Lockout]]
      BY <3>1, HistoryType DEF Accept, TypeOK
    <3> QED
      BY <3>1, <3>2, <3>3, <3>4 DEF TypeOK
  <2>3. CASE ~Limited(conns[c].at) /\ k # keyHash
    <3> DEFINE e == conns[c].at
    <3>1. e \in Endpoints /\ Reject(c) /\ UNCHANGED <<keyHash, setter>>
      BY <1>3, <2>3 DEF Authenticate, TypeOK
    <3>2. limits' \in [Endpoints -> [failed : 0..MaxFailed, age : Ages]]
      BY <3>1, EntryType DEF Reject, TypeOK, Ages
    <3>3. recent' \in [Endpoints -> [Ranks -> 0..Lockout]]
      BY <3>1, HistoryType DEF Reject, TypeOK
    <3> QED
      BY <3>1, <3>2, <3>3 DEF Reject, TypeOK
  <2> QED
    BY <2>1, <2>2, <2>3
<1>4. ASSUME NEW c \in Conns, NEW k \in Keys, SetAuthKey(c, k) PROVE TypeOK'
  BY <1>4 DEF SetAuthKey, TypeOK
<1>5. ASSUME NEW c \in Conns, ClearAuthKey(c) PROVE TypeOK'
  BY <1>5 DEF ClearAuthKey, TypeOK
<1>6. CASE Tick
  <2>1. limits' \in [Endpoints -> [failed : 0..MaxFailed, age : Ages]]
    <3>1. \A age \in Ages : Older(age, Cleanup + 1) \in Ages
      BY OlderType DEF Ages
    <3>2. NoLimit \in [failed : 0..MaxFailed, age : Ages]
      BY DEF NoLimit, Ages
    <3>3. \A e \in Endpoints : [limits[e] EXCEPT !.age = Older(@, Cleanup + 1)]
                                  \in [failed : 0..MaxFailed, age : Ages]
      BY <3>1 DEF TypeOK
    <3> QED
      BY <1>6, <3>2, <3>3 DEF Tick
  <2>2. recent' \in [Endpoints -> [Ranks -> 0..Lockout]]
    BY <1>6, OlderType DEF Tick, TypeOK
  <2> QED
    BY <1>6, <2>1, <2>2 DEF Tick, TypeOK
<1>7. CASE UNCHANGED vars
  BY <1>7 DEF vars, TypeOK
<1> QED
  BY <1>1, <1>2, <1>3, <1>4, <1>5, <1>6, <1>7 DEF Next

\* Rejections and the passing of time keep the entries honest.
LEMMA RememberStep == TypeOK /\ LimitsRemember /\ [Next]_vars => LimitsRemember'
<1> SUFFICES ASSUME TypeOK, LimitsRemember, [Next]_vars, NEW e \in Endpoints, NEW i \in Ranks
             PROVE  /\ i > limits'[e].failed => recent'[e][i] = Lockout
                    /\ recent'[e][i] >= limits'[e].age \/ recent'[e][i] = Lockout
  BY DEF LimitsRemember, Remembers
<1> DEFINE Goal == /\ i > limits'[e].failed => recent'[e][i] = Lockout
                   /\ recent'[e][i] >= limits'[e].age \/ recent'[e][i] = Lockout
<1>0. /\ i > limits[e].failed => recent[e][i] = Lockout
      /\ recent[e][i] >= limits[e].age \/ recent[e][i] = Lockout
      /\ recent[e][i] \in 0..Lockout
      /\ limits[e].failed \in 0..MaxFailed /\ limits[e].age \in Ages
  BY DEF LimitsRemember, Remembers, TypeOK
<1>1. CASE UNCHANGED <<limits, recent>>
  BY <1>0, <1>1
<1>2. ASSUME NEW c \in Conns, Accept(c) PROVE Goal
  <2>1. CASE e = conns[c].at
    BY <1>2, <2>1, AuthAssumption DEF Accept, NoLimit, NoFailures, TypeOK, Ranks
  <2>2. CASE e # conns[c].at
    BY <1>0, <1>2, <2>2 DEF Accept, TypeOK
  <2> QED
    BY <2>1, <2>2
<1>3. ASSUME NEW c \in Conns, Reject(c) PROVE Goal
  <2>1. CASE e # conns[c].at
    BY <1>0, <1>3, <2>1 DEF Reject, TypeOK
  <2>2. CASE e = conns[c].at
    <3>1. /\ limits'[e].age = 0
          /\ limits'[e].failed = IF Entry(e).failed < MaxFailed THEN Entry(e).failed + 1
                                 ELSE MaxFailed
          /\ recent'[e][i] = IF i = 1 THEN 0 ELSE recent[e][i - 1]
      BY <1>3, <2>2 DEF Reject, Struck, TypeOK
    <3>2. CASE i = 1
      BY <3>1, <3>2, EntryType, AuthAssumption
    <3>3. CASE i # 1
      <4>1. i - 1 \in Ranks /\ i \in Nat /\ i <= MaxFailed
        BY <3>3, AuthAssumption DEF Ranks
      <4>2. /\ i - 1 > limits[e].failed => recent[e][i - 1] = Lockout
            /\ recent[e][i - 1] >= limits[e].age \/ recent[e][i - 1] = Lockout
            /\ recent[e][i - 1] \in 0..Lockout
        BY <4>1 DEF LimitsRemember, Remembers, TypeOK
      <4>3. i > limits'[e].failed => recent[e][i - 1] = Lockout
        <5>1. CASE limits[e].age > Cleanup
          BY <1>0, <4>2, <5>1, AuthAssumption DEF Ages
        <5>2. CASE ~(limits[e].age > Cleanup)
          BY <1>0, <3>1, <4>1, <4>2, <5>2, AuthAssumption DEF Entry
        <5> QED
          BY <5>1, <5>2
      <4> QED
        BY <3>1, <3>3, <4>2, <4>3, AuthAssumption
    <3> QED
      BY <3>2, <3>3
  <2> QED
    BY <2>1, <2>2
<1>4. CASE Tick
  <2>1. recent'[e][i] = Older(recent[e][i], Lockout)
    BY <1>4 DEF Tick, TypeOK
  <2>2. /\ limits'[e].failed = limits[e].failed
        /\ limits'[e].age = 0 \/ limits'[e].age = Older(limits[e].age, Cleanup + 1)
    BY <1>0, <1>4 DEF Tick, NoLimit
  <2>3. /\ Older(recent[e][i], Lockout) \in 0..Lockout
        /\ recent[e][i] = Lockout => Older(recent[e][i], Lockout) = Lockout
        /\ \/ Older(recent[e][i], Lockout) = Lockout
           \/ Older(recent[e][i], Lockout) = recent[e][i] + 1
    BY <1>0, OlderType, AuthAssumption
  <2>4. /\ Older(limits[e].age, Cleanup + 1) \in Nat
        /\ Older(limits[e].age, Cleanup + 1) <= limits[e].age + 1
    <3>1. Cleanup + 1 \in Nat /\ limits[e].age \in 0..(Cleanup + 1)
      BY <1>0, AuthAssumption DEF Ages
    <3>2. limits[e].age \in Nat
      BY <3>1
    <3> QED
      BY <3>1, <3>2 DEF Older
  <2> QED
    BY <1>0, <2>1, <2>2, <2>3, <2>4, AuthAssumption DEF Ages
<1> QED
  BY <1>1, <1>2, <1>3, <1>4
  DEF Next, OnOpen, OnClose, Authenticate, SetAuthKey, ClearAuthKey, vars

\* Only the setter's own close takes its authentication away.
LEMMA SetterStep == TypeOK /\ SetterKeepsAccess /\ [Next]_vars => SetterKeepsAccess'
<1> SUFFICES ASSUME TypeOK, SetterKeepsAccess, [Next]_vars PROVE SetterKeepsAccess'
  OBVIOUS
<1> USE DEF SetterKeepsAccess, Authenticated, TypeOK
<1>1. ASSUME NEW c \in Conns, NEW e \in Endpoints, OnOpen(c, e) PROVE SetterKeepsAccess'
  BY <1>1 DEF OnOpen
<1>2. ASSUME NEW c \in Conns, OnClose(c) PROVE SetterKeepsAccess'
  BY <1>2 DEF OnClose, Closed
<1>3. ASSUME NEW c \in Conns, NEW k \in Keys, Authenticate(c, k) PROVE SetterKeepsAccess'
  <2>1. CASE conns' = conns
    BY <1>3, <2>1 DEF Authenticate
  <2>2. CASE Accept(c)
    <3>1. setter' = setter
      BY <1>3 DEF Authenticate
    <3>2. \A d \in Conns : Authenticated(d) => Authenticated(d)'
      BY <2>2 DEF Accept
    <3> QED
      BY <3>1, <3>2
  <2> QED
    BY <1>3, <2>1, <2>2 DEF Authenticate, Reject
<1>4. ASSUME NEW c \in Conns, NEW k \in Keys, SetAuthKey(c, k) PROVE SetterKeepsAccess'
  BY <1>4 DEF SetAuthKey, Admitted
<1>5. ASSUME NEW c \in Conns, ClearAuthKey(c) PROVE SetterKeepsAccess'
  BY <1>5 DEF ClearAuthKey
<1>6. CASE Tick
  BY <1>6 DEF Tick
<1>7. CASE UNCHANGED vars
  BY <1>7 DEF vars
<1> QED
  BY <1>1, <1>2, <1>3, <1>4, <1>5, <1>6, <1>7 DEF Next

\* The program starts in IInv.
LEMMA InitIInv == Init => IInv
<1> SUFFICES ASSUME Init PROVE IInv
  OBVIOUS
<1>1. TypeOK
  <2>1. limits \in [Endpoints -> [failed : 0..MaxFailed, age : Ages]]
    BY AuthAssumption DEF Init, NoLimit, Ages
  <2>2. recent \in [Endpoints -> [Ranks -> 0..Lockout]]
    BY HistoryType DEF Init
  <2> QED
    BY <2>1, <2>2 DEF Init, TypeOK
<1>2. LimitsRemember
  BY AuthAssumption DEF Init, LimitsRemember, Remembers, NoLimit, NoFailures, Ranks
<1> QED
  BY <1>1, <1>2 DEF IInv, Init, SetterKeepsAccess

\* IInv is inductive.
THEOREM AlwaysIInv == Spec => []IInv
<1>1. IInv /\ [Next]_vars => IInv'
  BY TypeStep, RememberStep, SetterStep DEF IInv
<1> QED
  BY InitIInv, <1>1, PTL DEF Spec
-----------------------------------------------------------------------------
\* AuthManager's maps, counters and keys stay within their types.
THEOREM TypeCorrect == Spec => []TypeOK
  BY AlwaysIInv, PTL DEF IInv

\* An attempt is examined only when fewer than MaxFailed attempts from its
\* endpoint failed during the last Lockout seconds since its last success.
THEOREM LimitHolds == Spec => []FailuresPerLockout
<1>1. IInv => FailuresPerLockout
  <2> SUFFICES ASSUME IInv, NEW e \in Endpoints, ~Limited(e)
               PROVE  recent[e][MaxFailed] = Lockout
    BY DEF FailuresPerLockout
  <2>1. MaxFailed \in Ranks
    BY AuthAssumption DEF Ranks
  <2>2. /\ MaxFailed > limits[e].failed => recent[e][MaxFailed] = Lockout
        /\ recent[e][MaxFailed] >= limits[e].age \/ recent[e][MaxFailed] = Lockout
        /\ recent[e][MaxFailed] \in 0..Lockout
        /\ limits[e].failed \in 0..MaxFailed /\ limits[e].age \in Ages
    BY <2>1 DEF IInv, LimitsRemember, Remembers, TypeOK
  <2>3. CASE limits[e].age > Cleanup
    BY <2>2, <2>3, AuthAssumption DEF Ages
  <2>4. CASE ~(limits[e].age > Cleanup)
    BY <2>2, <2>4, AuthAssumption DEF Limited, Entry, Ages
  <2> QED
    BY <2>3, <2>4
<1> QED
  BY <1>1, AlwaysIInv, PTL

\* The connection that set the key in force is authenticated as long as it is
\* open, even when it set the first key on a device in open mode.
THEOREM SetterIsIn == Spec => []SetterKeepsAccess
  BY AlwaysIInv, PTL DEF IInv

\* No step of any connection ends the authentication of an open connection.
THEOREM AuthenticationIsForLife == Spec => AuthenticationLasts
<1>1. TypeOK /\ [Next]_vars =>
        [\A c \in Conns : Authenticated(c) /\ conns'[c].open => conns'[c].authenticated]_conns
  <2> SUFFICES ASSUME TypeOK, Next, NEW c \in Conns, Authenticated(c), conns'[c].open
               PROVE  conns'[c].authenticated
    BY DEF vars
  <2> USE DEF Authenticated, TypeOK
  <2>1. ASSUME NEW d \in Conns, NEW e \in Endpoints, OnOpen(d, e) PROVE conns'[c].authenticated
    BY <2>1 DEF OnOpen
  <2>2. ASSUME NEW d \in Conns, OnClose(d) PROVE conns'[c].authenticated
    BY <2>2 DEF OnClose, Closed
  <2>3. ASSUME NEW d \in Conns, NEW k \in Keys, Authenticate(d, k) PROVE conns'[c].authenticated
    <3>1. CASE Accept(d)
      BY <3>1 DEF Accept
    <3>2. CASE ~Accept(d)
      BY <2>3, <3>2 DEF Authenticate, Reject
    <3> QED
      BY <3>1, <3>2
  <2>4. ASSUME NEW d \in Conns, NEW k \in Keys, SetAuthKey(d, k) PROVE conns'[c].authenticated
    BY <2>4 DEF SetAuthKey
  <2>5. CASE Tick \/ \E d \in Conns : ClearAuthKey(d)
    BY <2>5 DEF Tick, ClearAuthKey
  <2> QED
    BY <2>1, <2>2, <2>3, <2>4, <2>5 DEF Next
<1> QED
  BY <1>1, TypeCorrect, PTL DEF Spec, AuthenticationLasts
-----------------------------------------------------------------------------
\* What takes LockoutEnds from one second to the next: during a lockout nothing
\* that any client does touches its entry, whose age grows with every second
\* and, below Lockout, never meets its bound.
LockoutCounts ==
    [][\A e \in Endpoints : Limited(e) =>
         limits'[e] = IF Tick THEN [limits[e] EXCEPT !.age = @ + 1] ELSE limits[e]]_vars

\* No attempt, by whichever connection and with whichever key, prolongs a
\* lockout or ends it: only its seconds do.
THEOREM LockoutCountsDown == Spec => LockoutCounts
<1>1. ASSUME TypeOK, [Next]_vars, NEW e \in Endpoints, Limited(e)
      PROVE  limits'[e] = IF Tick THEN [limits[e] EXCEPT !.age = @ + 1] ELSE limits[e]
  <2>1. /\ limits[e].failed \in Nat /\ limits[e].failed # 0
        /\ limits[e].age \in Nat /\ limits[e].age < Lockout
    BY <1>1, EntryType, AuthAssumption DEF Limited, NoLimit, TypeOK, Ages
  <2>2. CASE Tick
    <3>1. Older(limits[e].age, Cleanup + 1) = limits[e].age + 1
      BY <2>1, AuthAssumption DEF Older
    <3> QED
      BY <1>1, <2>1, <2>2, <3>1 DEF Tick, TypeOK
  <2>3. ASSUME NEW c \in Conns, NEW k \in Keys, Authenticate(c, k) PROVE limits'[e] = limits[e]
    BY <1>1, <2>3 DEF Authenticate, Accept, Reject, TypeOK
  <2>4. CASE ~Tick
    BY <1>1, <2>3, <2>4 DEF Next, OnOpen, OnClose, SetAuthKey, ClearAuthKey, vars
  <2> QED
    BY <2>2, <2>4
<1>2. TypeOK /\ [Next]_vars =>
        [\A e \in Endpoints : Limited(e) =>
           limits'[e] = IF Tick THEN [limits[e] EXCEPT !.age = @ + 1] ELSE limits[e]]_vars
  BY <1>1
<1> QED
  BY <1>2, TypeCorrect, PTL DEF Spec, LockoutCounts
=============================================================================
