--------------------------- MODULE AccountsProofs ---------------------------
(***************************************************************************)
(* What TLAPS proves of Accounts, for every set of users, sessions, tokens *)
(* and browsers and every life of a session: types, that the console keeps *)
(* an administrator, that a reset token sets one password, and that a      *)
(* session outlives the rights of its user only where it escaped.          *)
(***************************************************************************)
EXTENDS Accounts, TLAPS

Points == {"idle", "checked"} \cup LoginPoints \cup EvictPoints \cup ResetPoints
Call == [at : Points, user : Users \cup {None}, role : Roles, sid : Sids \cup {None},
         raced : BOOLEAN, change : Changes, members : SUBSET Sids, token : Tokens \cup {None}]

\* TypeOK alone is not inductive: a handler acts for the user, with the token
\* and on the session that its request carries, and they must be there.
Named(c, known, handed) ==
  /\ c.at # "idle" /\ c.at \notin ResetPoints => c.user \in known
  /\ c.at \in {"stored", "indexed", "checked"} => c.sid \in Sids
  /\ IF c.at \in ResetPoints THEN c.token \in Tokens /\ handed[c.token] # "none"
                             ELSE c.token = None

CallsNamed == \A t \in Tabs : Named(call[t], registered, token)

\* A session belongs to a registered user from its creation on, and a token
\* that was handed out to its user.
Owned ==
  /\ \A s \in Sids : owner[s] \in registered \cup {None}
  /\ \A s \in Sids : ttl[s] > 0 => owner[s] # None
  /\ \A k \in Tokens : token[k] # "none" => tokenOwner[k] \in Users

TypeInv == TypeOK /\ CallsNamed /\ Owned

\* An idle tab is well formed.
LEMMA IdleTyped == Idle \in Call /\ Idle.at = "idle" /\ Idle.token = None
BY AccountsAssumption DEF Idle, Call, Points, Roles, Changes

\* Renewing a session keeps the store well typed.
LEMMA DeriveTyped ==
  ASSUME TypeInv, NEW t \in Tabs, Derive(t)
  PROVE  /\ ttl' \in [Sids -> 0..SessionTTL]
         /\ renewed' \subseteq Sids
         /\ \A s \in Sids : ttl'[s] > 0 <=> ttl[s] > 0
<1>1. cookie[BrowserOf[t]] \in Sids \cup {None} /\ SessionTTL \in 0..SessionTTL /\ SessionTTL > 0
  BY AccountsAssumption DEF TypeInv, TypeOK
<1>2. CASE RenewalDue(t)
  <2>1. Current(t) \in Sids /\ ttl[Current(t)] > 0
    BY <1>1, <1>2 DEF RenewalDue, SignedIn, Current
  <2>2. QED
    BY <1>1, <1>2, <2>1 DEF Derive, TypeInv, TypeOK
<1>3. CASE ~RenewalDue(t)
  BY <1>3 DEF Derive, TypeInv, TypeOK
<1>4. QED
  BY <1>2, <1>3

\* Ending a session, or emptying an index, keeps the store well typed.
LEMMA RemoveTyped ==
  ASSUME TypeOK, NEW u, NEW S, RemoveFromIndex(u, S)
  PROVE  /\ index' \in [Users -> SUBSET Sids]
         /\ indexTtl' \in [Users -> 0..Persistent]
<1>1. 0 \in 0..Persistent
  BY AccountsAssumption DEF Persistent
<1>2. QED
  BY <1>1 DEF RemoveFromIndex, TypeOK

LEMMA DestroyTyped ==
  ASSUME TypeOK, NEW s, Destroy(s)
  PROVE  /\ ttl' \in [Sids -> 0..SessionTTL]
         /\ index' \in [Users -> SUBSET Sids]
         /\ indexTtl' \in [Users -> 0..Persistent]
         /\ \A r \in Sids : ttl'[r] > 0 => ttl[r] > 0
<1>1. CASE s # None /\ ttl[s] > 0
  BY <1>1, RemoveTyped, AccountsAssumption DEF Destroy, TypeOK
<1>2. CASE ~(s # None /\ ttl[s] > 0)
  BY <1>2 DEF Destroy, TypeOK
<1>3. QED
  BY <1>1, <1>2

\* The inductive step of type correctness.
LEMMA TypeInvStep == TypeInv /\ [Next]_vars => TypeInv'
<1> SUFFICES ASSUME TypeInv, [Next]_vars PROVE TypeInv'
  OBVIOUS
<1> TypeOK /\ CallsNamed /\ Owned
  BY DEF TypeInv
<1> /\ call \in [Tabs -> Call] /\ None \notin Users \cup Sids \cup Tokens
    /\ BrowserOf \in [Tabs -> Browsers] /\ registered \subseteq Users
    /\ SessionTTL \in Nat \ {0}
  BY AccountsAssumption DEF TypeOK, Call, Points
<1> DEFINE CallsGoal == call' \in [Tabs -> Call] /\ CallsNamed'
           Data == /\ registered' \subseteq Users
                   /\ role' \in [Users -> Roles] /\ active' \in [Users -> BOOLEAN]
                   /\ ttl' \in [Sids -> 0..SessionTTL]
                   /\ owner' \in [Sids -> Users \cup {None}] /\ granted' \in [Sids -> Roles]
                   /\ index' \in [Users -> SUBSET Sids] /\ indexTtl' \in [Users -> 0..Persistent]
                   /\ token' \in [Tokens -> {"none", "valid", "expired", "used"}]
                   /\ tokenOwner' \in [Tokens -> Users \cup {None}]
                   /\ setBy' \in [Users -> Tokens \cup {None}]
                   /\ cookie' \in [Browsers -> Sids \cup {None}]
                   /\ renewed' \subseteq Sids /\ escaped' \subseteq Sids
                   /\ staleActed' \in BOOLEAN
                   /\ spent' \subseteq Tokens /\ respent' \subseteq Tokens
                   /\ racedTokens' \subseteq Tokens
           Grows == /\ registered \subseteq registered'
                    /\ \A k \in Tokens : token[k] # "none" => token'[k] # "none"
<1>a. ASSUME Grows, NEW t \in Tabs, NEW c \in Call, call' = [call EXCEPT ![t] = c],
             Named(c, registered', token')
      PROVE  CallsGoal
  BY <1>a DEF CallsNamed, Named
<1>b. ASSUME Grows, UNCHANGED call PROVE CallsGoal
  BY <1>b DEF CallsNamed, Named
<1>c. ASSUME Grows, NEW t \in Tabs, Return(t) PROVE CallsGoal
  <2>1. Named(Idle, registered', token')
    BY IdleTyped DEF Named, ResetPoints
  <2>2. QED
    BY <1>c, <2>1, IdleTyped, <1>a DEF Return
<1>d. CallsGoal /\ Data /\ Owned' => TypeInv'
  BY DEF TypeInv, TypeOK, Call, Points
<1>e. UNCHANGED <<registered, token>> => Grows
  OBVIOUS
<1>f. /\ registered \subseteq Users
      /\ role \in [Users -> Roles] /\ active \in [Users -> BOOLEAN]
      /\ ttl \in [Sids -> 0..SessionTTL]
      /\ owner \in [Sids -> Users \cup {None}] /\ granted \in [Sids -> Roles]
      /\ index \in [Users -> SUBSET Sids] /\ indexTtl \in [Users -> 0..Persistent]
      /\ token \in [Tokens -> {"none", "valid", "expired", "used"}]
      /\ tokenOwner \in [Tokens -> Users \cup {None}]
      /\ setBy \in [Users -> Tokens \cup {None}]
      /\ cookie \in [Browsers -> Sids \cup {None}]
      /\ renewed \subseteq Sids /\ escaped \subseteq Sids
      /\ staleActed \in BOOLEAN
      /\ spent \subseteq Tokens /\ respent \subseteq Tokens
      /\ racedTokens \subseteq Tokens
  BY DEF TypeOK
<1> HIDE DEF CallsGoal
<1> USE DEF users, store, tokens
<1>1. ASSUME NEW t \in Tabs, Browse(t) \/ Logout(t) \/ Die(t) PROVE TypeInv'
  <2>1. CASE Browse(t)
    BY <2>1, <1>b, <1>d, <1>e, <1>f, DeriveTyped DEF Browse, Owned
  <2>2. CASE Logout(t)
    <3>1. /\ ttl' \in [Sids -> 0..SessionTTL] /\ index' \in [Users -> SUBSET Sids]
          /\ indexTtl' \in [Users -> 0..Persistent] /\ \A r \in Sids : ttl'[r] > 0 => ttl[r] > 0
      BY <2>2, <1>f, DestroyTyped DEF Logout
    <3>2. cookie' \in [Browsers -> Sids \cup {None}]
      BY <2>2, <1>f DEF Logout
    <3>3. QED
      BY <2>2, <3>1, <3>2, <1>b, <1>d, <1>e, <1>f DEF Logout, Owned
  <2>3. CASE Die(t)
    <3>1. escaped' \subseteq Sids /\ racedTokens' \subseteq Tokens
      BY <2>3, <1>f DEF Die, At, CallsNamed, Named, ResetPoints
    <3>2. QED
      BY <2>3, <3>1, <1>c, <1>d, <1>e, <1>f DEF Die, Owned
  <2>4. QED
    BY <1>1, <2>1, <2>2, <2>3
<1>2. ASSUME NEW t \in Tabs, DestroyOld(t) PROVE TypeInv'
  <2>1. [call[t] EXCEPT !.at = "fresh", !.sid = None] \in Call
    BY DEF Call, Points, LoginPoints
  <2>2. Named([call[t] EXCEPT !.at = "fresh", !.sid = None], registered', token')
    BY <1>2 DEF DestroyOld, At, CallsNamed, Named, Call, Points, LoginPoints, ResetPoints
  <2>3. call' = [call EXCEPT ![t] = [call[t] EXCEPT !.at = "fresh", !.sid = None]]
    BY <1>2 DEF DestroyOld
  <2>4. CallsGoal
    BY <1>2, <2>1, <2>2, <2>3, <1>a, <1>e DEF DestroyOld
  <2>5. QED
    BY <1>2, <2>4, <1>d, <1>f, DestroyTyped DEF DestroyOld, Owned
<1>3. ASSUME NEW t \in Tabs, NEW s \in Sids, CreateSession(t, s) PROVE TypeInv'
  <2>0. call[t].user \in registered
    BY <1>3 DEF CreateSession, At, CallsNamed, Named, ResetPoints
  <2>1. [call[t] EXCEPT !.at = "stored", !.sid = s] \in Call
    BY DEF Call, Points, LoginPoints
  <2>2. Named([call[t] EXCEPT !.at = "stored", !.sid = s], registered', token')
    BY <1>3 DEF CreateSession, At, CallsNamed, Named, Call, Points, LoginPoints, ResetPoints
  <2>3. call' = [call EXCEPT ![t] = [call[t] EXCEPT !.at = "stored", !.sid = s]]
    BY <1>3 DEF CreateSession
  <2>4. CallsGoal
    BY <1>3, <2>1, <2>2, <2>3, <1>a, <1>e DEF CreateSession
  <2>5. call[t].role \in Roles /\ SessionTTL \in 0..SessionTTL
    BY DEF Call
  <2>6. Owned' /\ Data
    BY <1>3, <2>0, <2>5, <1>f DEF CreateSession, Owned
  <2>7. QED
    BY <2>4, <2>6, <1>d
<1>4. ASSUME NEW t \in Tabs, IndexSession(t) PROVE TypeInv'
  <2>0. call[t].user \in Users /\ call[t].sid \in Sids /\ Persistent \in 0..Persistent
    BY <1>4 DEF IndexSession, At, CallsNamed, Named, ResetPoints, Persistent
  <2>1. [call[t] EXCEPT !.at = "indexed"] \in Call
    BY DEF Call, Points, LoginPoints
  <2>2. Named([call[t] EXCEPT !.at = "indexed"], registered', token')
    BY <1>4 DEF IndexSession, At, CallsNamed, Named, Call, Points, LoginPoints, ResetPoints
  <2>3. call' = [call EXCEPT ![t] = [call[t] EXCEPT !.at = "indexed"]]
    BY <1>4 DEF IndexSession
  <2>4. CallsGoal
    BY <1>4, <2>1, <2>2, <2>3, <1>a, <1>e DEF IndexSession
  <2>5. index' \in [Users -> SUBSET Sids] /\ indexTtl' \in [Users -> 0..Persistent]
    BY <1>4, <2>0, <1>f DEF IndexSession
  <2>6. QED
    BY <1>4, <2>4, <2>5, <1>d, <1>f DEF IndexSession, Owned
<1>5. ASSUME NEW t \in Tabs, AnswerLogin(t) PROVE TypeInv'
  <2>0. call[t].sid \in Sids /\ SessionTTL \in 0..Persistent
    BY <1>5 DEF AnswerLogin, At, CallsNamed, Named, Persistent
  <2>1. CallsGoal
    BY <1>5, <1>c, <1>e DEF AnswerLogin
  <2>2. /\ indexTtl' \in [Users -> 0..Persistent] /\ cookie' \in [Browsers -> Sids \cup {None}]
        /\ escaped' \subseteq Sids
    BY <1>5, <2>0, <1>f DEF AnswerLogin
  <2>3. QED
    BY <1>5, <2>1, <2>2, <1>d, <1>f DEF AnswerLogin, Owned
<1>6. ASSUME NEW t \in Tabs, UpdateUser(t) PROVE TypeInv'
  <2> DEFINE u == call[t].user  change == call[t].change
             own == [call[t] EXCEPT !.at = "updated", !.sid = None]
  <2>1. u \in registered /\ u \in Users /\ change \in Changes /\ UNCHANGED <<registered, token>>
    BY <1>6 DEF UpdateUser, At, CallsNamed, Named, ResetPoints, Call
  <2>2. /\ own \in Call /\ own.at = "updated" /\ own.user = u /\ own.token = call[t].token
        /\ call[t].token = None
    BY <1>6 DEF Call, Points, EvictPoints, UpdateUser, At, CallsNamed, Named, ResetPoints
  <2>3. Named(own, registered', token')
    BY <2>1, <2>2 DEF Named, ResetPoints
  <2>4. \A x \in Tabs : /\ [call[x] EXCEPT !.raced = TRUE] \in Call
                        /\ Named([call[x] EXCEPT !.raced = TRUE], registered', token')
                        /\ Named(call[x], registered', token')
    <3> SUFFICES ASSUME NEW x \in Tabs
                 PROVE  /\ [call[x] EXCEPT !.raced = TRUE] \in Call
                        /\ Named([call[x] EXCEPT !.raced = TRUE], registered', token')
                        /\ Named(call[x], registered', token')
      OBVIOUS
    <3> DEFINE r == [call[x] EXCEPT !.raced = TRUE]
    <3>1. /\ r \in Call /\ r.at = call[x].at /\ r.user = call[x].user
          /\ r.sid = call[x].sid /\ r.token = call[x].token
      BY DEF Call
    <3>2. Named(call[x], registered', token')
      BY <2>1 DEF CallsNamed
    <3> HIDE DEF r
    <3>3. Named(r, registered', token')
      BY <3>1, <3>2 DEF Named
    <3>4. QED
      BY <3>1, <3>2, <3>3 DEF r
  <2>5. CallsGoal
    <3>1. CASE Evicts(change)
      <4> HIDE DEF own
      <4>1. call' = [x \in Tabs |->
                       IF x = t THEN own
                       ELSE IF call[x].at \in LoginPoints /\ call[x].user = u
                       THEN [call[x] EXCEPT !.raced = TRUE] ELSE call[x]]
        BY <1>6, <3>1 DEF UpdateUser, own
      <4>2. \A x \in Tabs : call'[x] \in Call /\ Named(call'[x], registered', token')
        BY <2>2, <2>3, <2>4, <4>1
      <4>3. QED
        BY <4>1, <4>2 DEF CallsGoal, CallsNamed, Named
    <3>2. CASE ~Evicts(change)
      BY <1>6, <3>2, <2>1, <1>c DEF UpdateUser, Return
    <3>3. QED
      BY <3>1, <3>2
  <2>6. role' \in [Users -> Roles]
    BY <1>6, <2>1, <1>f DEF UpdateUser, UpdateUserById
  <2>7. active' \in [Users -> BOOLEAN]
    <3>1. (change = "enable") \in BOOLEAN
      OBVIOUS
    <3>2. active' = active \/ active' = [active EXCEPT ![u] = change = "enable"]
      BY <1>6 DEF UpdateUser, UpdateUserById
    <3>3. QED
      BY <3>1, <3>2, <1>f, Zenon
  <2>8. staleActed' \in BOOLEAN
    BY <1>6 DEF UpdateUser
  <2>9. QED
    BY <1>6, <2>5, <2>6, <2>7, <2>8, <1>d, <1>f DEF UpdateUser, Owned
<1>7. ASSUME NEW t \in Tabs, ListSessions(t) \/ DeleteSessions(t) PROVE TypeInv'
  <2>1. PICK point \in EvictPoints, S \in SUBSET Sids :
          call' = [call EXCEPT ![t].at = point, ![t].members = S]
    <3>1. CASE ListSessions(t)
      <4>1. call[t].user \in Users
        BY <3>1 DEF ListSessions, At, CallsNamed, Named, ResetPoints
      <4>2. QED
        BY <3>1, <4>1, <1>f DEF ListSessions, EvictPoints
    <3>2. CASE DeleteSessions(t)
      BY <3>2 DEF DeleteSessions, EvictPoints
    <3>3. QED
      BY <1>7, <3>1, <3>2
  <2> DEFINE c == [call[t] EXCEPT !.at = point, !.members = S]
  <2>2. c \in Call /\ c.at = point /\ c.user = call[t].user /\ c.token = call[t].token
    BY DEF Call, Points
  <2>3. call[t].user \in registered /\ call[t].token = None /\ UNCHANGED <<registered, token>>
    BY <1>7 DEF ListSessions, DeleteSessions, At, CallsNamed, Named, ResetPoints
  <2>4. Named(c, registered', token')
    BY <2>2, <2>3 DEF Named, EvictPoints, ResetPoints
  <2>5. call' = [call EXCEPT ![t] = c]
    BY <2>1
  <2> HIDE DEF c
  <2>6. CallsGoal
    BY <2>2, <2>3, <2>4, <2>5, <1>a
  <2>7. ttl' \in [Sids -> 0..SessionTTL] /\ \A s \in Sids : ttl'[s] > 0 => ttl[s] > 0
    BY <1>7, <1>f DEF ListSessions, DeleteSessions
  <2>8. QED
    BY <1>7, <2>6, <2>7, <1>d, <1>f DEF ListSessions, DeleteSessions, Owned
<1>8. ASSUME NEW t \in Tabs, DeleteIndex(t) PROVE TypeInv'
  BY <1>8, <1>c, <1>d, <1>e, <1>f, RemoveTyped DEF DeleteIndex, Owned
<1>9. ASSUME NEW t \in Tabs, SetPassword(t) PROVE TypeInv'
  <2> DEFINE k == call[t].token  c == [call[t] EXCEPT !.at = "marking"]
  <2>1. k \in Tokens /\ token[k] # "none" /\ tokenOwner[k] \in Users
        /\ UNCHANGED <<registered, token>>
    BY <1>9 DEF SetPassword, At, CallsNamed, Named, ResetPoints, Owned
  <2>2. c \in Call /\ c.at = "marking" /\ c.token = k
    BY DEF Call, Points, ResetPoints
  <2>3. Named(c, registered', token')
    BY <2>1, <2>2 DEF Named, ResetPoints
  <2>4. call' = [call EXCEPT ![t] = c]
    BY <1>9 DEF SetPassword
  <2> HIDE DEF c
  <2>5. CallsGoal
    BY <2>1, <2>2, <2>3, <2>4, <1>a
  <2>6. /\ setBy' \in [Users -> Tokens \cup {None}]
        /\ spent' \subseteq Tokens /\ respent' \subseteq Tokens
    BY <1>9, <2>1, <1>f DEF SetPassword
  <2>7. QED
    BY <1>9, <2>5, <2>6, <1>d, <1>f DEF SetPassword, Owned
<1>10. ASSUME NEW t \in Tabs, MarkUsed(t) PROVE TypeInv'
  <2>1. call[t].token \in Tokens /\ token[call[t].token] # "none"
    BY <1>10 DEF MarkUsed, At, CallsNamed, Named, ResetPoints
  <2>2. /\ token' \in [Tokens -> {"none", "valid", "expired", "used"}]
        /\ \A k \in Tokens : token[k] # "none" <=> token'[k] # "none"
    BY <1>10, <2>1, <1>f DEF MarkUsed
  <2>3. QED
    BY <1>10, <2>2, <1>c, <1>d, <1>f DEF MarkUsed, Owned
<1>11. ASSUME NEW t \in Tabs, NEW u \in Users, Register(t, u) PROVE TypeInv'
  BY <1>11, <1>b, <1>d, <1>f, DeriveTyped DEF Register, InsertUser, Owned
<1>12. ASSUME NEW t \in Tabs, NEW u \in Users, LoginUser(t, u) PROVE TypeInv'
  <2> DEFINE c == [Idle EXCEPT !.at = "verified", !.user = u, !.role = role[u],
                               !.sid = Current(t), !.raced = Evicting(u)]
  <2>1. Current(t) \in Sids \cup {None} /\ role[u] \in Roles
    BY <1>f DEF Current
  <2>2. Evicting(u) \in BOOLEAN
    BY DEF Evicting
  <2>3. c \in Call
    BY <2>1, <2>2, IdleTyped DEF Call, Points, LoginPoints
  <2>4. c.at = "verified" /\ c.user = u /\ c.token = None
    BY IdleTyped DEF Idle
  <2>5. Named(c, registered', token')
    BY <1>12, <2>4 DEF LoginUser, Named, ResetPoints
  <2>6. call' = [call EXCEPT ![t] = c]
    BY <1>12 DEF LoginUser
  <2> HIDE DEF c
  <2>7. CallsGoal
    BY <1>12, <2>3, <2>5, <2>6, <1>a, <1>e DEF LoginUser
  <2>8. QED
    BY <1>12, <2>7, <1>d, <1>f, DeriveTyped DEF LoginUser, Owned
<1>13. ASSUME NEW t \in Tabs, NEW u \in Users, NEW change \in Changes, PatchUser(t, u, change)
       PROVE  TypeInv'
  <2> DEFINE c == [Idle EXCEPT !.at = "checked", !.user = u, !.change = change,
                               !.sid = Current(t)]
  <2>1. Current(t) \in Sids
    BY <1>13, <1>f DEF Current, PatchUser, IsAdmin, SignedIn
  <2>2. c \in Call
    BY <2>1, IdleTyped DEF Call, Points
  <2>3. c.at = "checked" /\ c.user = u /\ c.token = None /\ c.sid = Current(t)
    BY IdleTyped DEF Idle
  <2>4. Named(c, registered', token')
    BY <1>13, <2>1, <2>3 DEF PatchUser, Named, ResetPoints
  <2>5. call' = [call EXCEPT ![t] = c]
    BY <1>13 DEF PatchUser
  <2> HIDE DEF c
  <2>6. CallsGoal
    BY <1>13, <2>2, <2>4, <2>5, <1>a, <1>e DEF PatchUser
  <2>7. QED
    BY <1>13, <2>6, <1>d, <1>f, DeriveTyped DEF PatchUser, Owned
<1>14. ASSUME NEW t \in Tabs, NEW u \in Users, NEW k \in Tokens, ForgotPassword(t, u, k)
       PROVE  TypeInv'
  <2>1. /\ token' \in [Tokens -> {"none", "valid", "expired", "used"}]
        /\ tokenOwner' \in [Tokens -> Users \cup {None}] /\ Grows
    BY <1>14, <1>f DEF ForgotPassword, InsertToken
  <2>2. Owned'
    BY <1>14, <1>f, DeriveTyped DEF ForgotPassword, InsertToken, Owned
  <2>3. QED
    BY <1>14, <2>1, <2>2, <1>b, <1>d, <1>f, DeriveTyped DEF ForgotPassword
<1>15. ASSUME NEW t \in Tabs, NEW k \in Tokens, ResetPassword(t, k) PROVE TypeInv'
  <2> DEFINE c == [Idle EXCEPT !.at = "hashing", !.token = k]
  <2>1. c \in Call /\ c.at = "hashing" /\ c.token = k
    BY IdleTyped DEF Call, Points, ResetPoints
  <2>2. Named(c, registered', token')
    BY <1>15, <2>1 DEF ResetPassword, Usable, Named, ResetPoints
  <2>3. call' = [call EXCEPT ![t] = c]
    BY <1>15 DEF ResetPassword
  <2> HIDE DEF c
  <2>4. CallsGoal
    BY <1>15, <2>1, <2>2, <2>3, <1>a, <1>e DEF ResetPassword
  <2>5. QED
    BY <1>15, <2>4, <1>d, <1>f, DeriveTyped DEF ResetPassword, Owned
<1>16. CASE Tick
  <2>1. /\ ttl' \in [Sids -> 0..SessionTTL] /\ \A s \in Sids : ttl'[s] > 0 => ttl[s] > 0
    BY <1>16, <1>f DEF Tick, Live
  <2>2. index' \in [Users -> SUBSET Sids] /\ indexTtl' \in [Users -> 0..Persistent]
    BY <1>16, <1>f DEF Tick, Persistent
  <2>3. escaped' \subseteq Sids
    BY <1>16, <1>f DEF Tick
  <2>4. QED
    BY <1>16, <2>1, <2>2, <2>3, <1>b, <1>d, <1>e, <1>f DEF Tick, Owned
<1>17. ASSUME NEW k \in Tokens, ExpireToken(k) PROVE TypeInv'
  <2>1. /\ token' \in [Tokens -> {"none", "valid", "expired", "used"}]
        /\ \A j \in Tokens : token[j] # "none" <=> token'[j] # "none"
    BY <1>17, <1>f DEF ExpireToken
  <2>2. QED
    BY <1>17, <2>1, <1>b, <1>d, <1>f DEF ExpireToken, Owned
<1>18. CASE UNCHANGED vars
  BY <1>18, <1>b, <1>d, <1>e, <1>f DEF vars, Owned
<1>19. QED
  BY <1>1, <1>2, <1>3, <1>4, <1>5, <1>6, <1>7, <1>8, <1>9, <1>10, <1>11, <1>12, <1>13,
     <1>14, <1>15, <1>16, <1>17, <1>18 DEF Next, StorefrontLogin, ConsoleLogin

\* Nobody is signed in at first.
LEMMA TypeInvInit == Init => TypeInv
<1> SUFFICES ASSUME Init PROVE TypeInv
  OBVIOUS
<1>1. call \in [Tabs -> Call] /\ CallsNamed
  BY IdleTyped DEF Init, CallsNamed, Named, ResetPoints
<1>2. /\ registered \subseteq Users /\ role \in [Users -> Roles] /\ active \in [Users -> BOOLEAN]
      /\ ttl \in [Sids -> 0..SessionTTL] /\ indexTtl \in [Users -> 0..Persistent]
      /\ granted \in [Sids -> Roles]
  BY AccountsAssumption DEF Init, Roles, Persistent
<1>3. TypeOK
  BY <1>1, <1>2 DEF Init, TypeOK, Call, Points
<1>4. QED
  BY <1>1, <1>3 DEF TypeInv, Owned, Init

\* Users, sessions, tokens and requests stay well formed.
THEOREM AccountsTyped == Spec => []TypeOK
<1>1. TypeInv => TypeOK
  BY DEF TypeInv
<1>2. QED
  BY <1>1, TypeInvInit, TypeInvStep, PTL DEF Spec

-----------------------------------------------------------------------------
(* The console keeps an administrator *)

\* SomeAdminRemains alone is not inductive: an administrator who is about to
\* change another account must himself remain one.
ActorsKnown ==
  \A t \in Tabs : call[t].at = "checked" =>
    /\ owner[call[t].sid] \in registered
    /\ owner[call[t].sid] # call[t].user

ManningInv == SomeAdminRemains /\ ActorsKnown

\* Who a session belongs to is settled when it is created.
LEMMA OwnersStay ==
  ASSUME TypeInv, [Next]_vars
  PROVE  /\ registered \subseteq registered'
         /\ \A s \in Sids : owner[s] # None => owner'[s] = owner[s]
<1>1. CASE UNCHANGED <<registered, owner>>
  BY <1>1
<1>2. ASSUME NEW t \in Tabs, NEW u \in Users, Register(t, u)
      PROVE  UNCHANGED owner /\ registered \subseteq registered'
  BY <1>2 DEF Register, InsertUser
<1>3. ASSUME NEW t \in Tabs, NEW s \in Sids, CreateSession(t, s)
      PROVE  /\ UNCHANGED registered
             /\ \A r \in Sids : owner[r] # None => owner'[r] = owner[r]
  BY <1>3 DEF CreateSession, users, TypeInv, TypeOK
<1>4. QED
  BY <1>1, <1>2, <1>3 DEF Next, vars, users, store, tokens, Browse, Logout, Die, DestroyOld,
     IndexSession, AnswerLogin, UpdateUser, ListSessions, DeleteSessions, DeleteIndex,
     SetPassword, MarkUsed, StorefrontLogin, ConsoleLogin, LoginUser, PatchUser,
     ForgotPassword, ResetPassword, Tick, ExpireToken

\* A request reaches "checked" only through the check.
LEMMA CheckedBy ==
  ASSUME TypeInv, [Next]_vars, NEW x \in Tabs, call'[x].at = "checked"
  PROVE  \/ call'[x] = call[x]
         \/ \E u \in Users : /\ IsAdmin(x) /\ u # Actor(x)
                             /\ call'[x].user = u /\ call'[x].sid = Current(x)
<1> call \in [Tabs -> Call] /\ TypeOK
  BY DEF TypeInv, TypeOK, Call, Points
<1> DEFINE Goal == \/ call'[x] = call[x]
                   \/ \E u \in Users : /\ IsAdmin(x) /\ u # Actor(x)
                                       /\ call'[x].user = u /\ call'[x].sid = Current(x)
<1>a. ASSUME NEW t \in Tabs, NEW c, call' = [call EXCEPT ![t] = c], c.at # "checked"
      PROVE  Goal
  BY <1>a
<1>b. ASSUME NEW t \in Tabs, NEW point, point # "checked", call' = [call EXCEPT ![t].at = point]
      PROVE  Goal
  BY <1>b DEF Call
<1>c. ASSUME NEW t \in Tabs, Return(t) PROVE Goal
  BY <1>c, <1>a, IdleTyped DEF Return
<1>1. ASSUME NEW t \in Tabs,
             \/ Browse(t) \/ Logout(t) \/ \E u \in Users : Register(t, u)
             \/ \E u \in Users, k \in Tokens : ForgotPassword(t, u, k)
      PROVE  Goal
  BY <1>1 DEF Browse, Logout, Register, ForgotPassword
<1>2. ASSUME NEW t \in Tabs, Die(t) \/ AnswerLogin(t) \/ DeleteIndex(t) \/ MarkUsed(t)
      PROVE  Goal
  BY <1>2, <1>c DEF Die, AnswerLogin, DeleteIndex, MarkUsed
<1>3. ASSUME NEW t \in Tabs, IndexSession(t) \/ SetPassword(t) PROVE Goal
  BY <1>3, <1>b DEF IndexSession, SetPassword
<1>4. ASSUME NEW t \in Tabs,
             \/ DestroyOld(t) \/ ListSessions(t) \/ DeleteSessions(t)
             \/ \E s \in Sids : CreateSession(t, s)
      PROVE  Goal
  BY <1>4 DEF DestroyOld, ListSessions, DeleteSessions, CreateSession, Call
<1>5. ASSUME NEW t \in Tabs, UpdateUser(t) PROVE Goal
  BY <1>5, IdleTyped DEF UpdateUser, Call, LoginPoints
<1>6. ASSUME NEW t \in Tabs, NEW u \in Users, LoginUser(t, u) PROVE Goal
  BY <1>6 DEF LoginUser, Idle
<1>7. ASSUME NEW t \in Tabs, NEW u \in Users, NEW change, PatchUser(t, u, change) PROVE Goal
  BY <1>7 DEF PatchUser, Idle
<1>8. ASSUME NEW t \in Tabs, NEW k \in Tokens, ResetPassword(t, k) PROVE Goal
  BY <1>8 DEF ResetPassword, Idle
<1>9. CASE Tick \/ (\E k \in Tokens : ExpireToken(k)) \/ UNCHANGED vars
  BY <1>9 DEF Tick, ExpireToken, vars
<1>10. QED
  BY <1>1, <1>2, <1>3, <1>4, <1>5, <1>6, <1>7, <1>8, <1>9 DEF Next, StorefrontLogin,
     ConsoleLogin

\* Rights are changed in one handler only, and never one's own.
LEMMA ManningStep == TypeInv /\ ManningInv /\ [Next]_vars => ManningInv'
<1> SUFFICES ASSUME TypeInv, ManningInv, [Next]_vars PROVE ManningInv'
  OBVIOUS
<1> TypeOK /\ CallsNamed /\ Owned
  BY DEF TypeInv
<1> None \notin Users \cup Sids \cup Tokens /\ registered \subseteq Users
  BY AccountsAssumption DEF TypeOK
<1>1. ActorsKnown'
  <2> SUFFICES ASSUME NEW x \in Tabs, call'[x].at = "checked"
               PROVE  /\ owner'[call'[x].sid] \in registered'
                      /\ owner'[call'[x].sid] # call'[x].user
    BY DEF ActorsKnown
  <2>1. CASE call'[x] = call[x]
    <3>1. call[x].sid \in Sids /\ owner[call[x].sid] \in registered
          /\ owner[call[x].sid] # call[x].user
      BY <2>1 DEF CallsNamed, Named, ManningInv, ActorsKnown
    <3>2. QED
      BY <2>1, <3>1, OwnersStay
  <2>2. CASE call'[x] # call[x]
    <3>1. /\ IsAdmin(x) /\ call'[x].user # Actor(x) /\ call'[x].sid = Current(x)
      BY <2>2, CheckedBy
    <3>2. Current(x) \in Sids /\ owner[Current(x)] \in registered
      BY <3>1, AccountsAssumption DEF IsAdmin, SignedIn, Current, Owned, TypeOK
    <3>3. QED
      BY <3>1, <3>2, OwnersStay DEF Actor
  <2>3. QED
    BY <2>1, <2>2
<1>2. SomeAdminRemains'
  <2>1. ASSUME NEW t \in Tabs, UpdateUser(t), ~staleActed' PROVE SomeAdminRemains'
    <3> DEFINE me == owner[call[t].sid]
    <3>1. role[me] = "admin" /\ active[me] /\ UNCHANGED registered
      BY <2>1 DEF UpdateUser
    <3>2. me \in registered /\ me # call[t].user
      BY <2>1 DEF UpdateUser, At, ManningInv, ActorsKnown
    <3>3. role'[me] = "admin" /\ active'[me]
      BY <2>1, <3>1, <3>2 DEF UpdateUser, UpdateUserById, TypeOK
    <3>4. QED
      BY <3>1, <3>2, <3>3 DEF SomeAdminRemains
  <2>2. CASE staleActed'
    BY <2>2 DEF SomeAdminRemains
  <2>3. CASE UNCHANGED <<role, active, staleActed>>
    BY <2>3, OwnersStay DEF ManningInv, SomeAdminRemains
  <2>4. QED
    BY <2>1, <2>2, <2>3 DEF Next, vars, users, store, tokens, Browse, Logout, Die, DestroyOld,
       IndexSession, AnswerLogin, ListSessions, DeleteSessions, DeleteIndex, SetPassword,
       MarkUsed, Register, StorefrontLogin, ConsoleLogin, LoginUser, PatchUser,
       ForgotPassword, CreateSession, ResetPassword, Tick, ExpireToken
<1>3. QED
  BY <1>1, <1>2 DEF ManningInv

\* The console is never left without an active administrator, however changes
\* of accounts overlap, unless someone used rights already taken away.
THEOREM ConsoleKeepsAdmin == Spec => []SomeAdminRemains
<1>1. Init => ManningInv
  BY AccountsAssumption DEF Init, ManningInv, SomeAdminRemains, ActorsKnown, Idle
<1>2. ManningInv => SomeAdminRemains
  BY DEF ManningInv
<1>3. QED
  BY <1>1, <1>2, ManningStep, TypeInvInit, TypeInvStep, PTL DEF Spec

-----------------------------------------------------------------------------
(* A reset token sets one password *)

\* TokenSpentOnce alone is not inductive: a token that set a password is
\* marked, about to be marked, or lost its mark to a race, and no other
\* request can have judged it usable in between without racing.
TokenInv ==
  /\ \A k \in spent : \/ token[k] = "used" \/ k \in racedTokens
                      \/ \E x \in Tabs : call[x].at = "marking" /\ call[x].token = k
  /\ \A x, y \in Tabs :
       x # y /\ call[x].token = call[y].token => call[x].token \in racedTokens \cup {None}
  /\ \A x \in Tabs :
       call[x].at = "hashing" /\ call[x].token \in spent => call[x].token \in racedTokens
  /\ TokenSpentOnce

\* Tokens are judged, spent and marked by their three handlers alone.
LEMMA TokenStep == TypeInv /\ TokenInv /\ [Next]_vars => TokenInv'
<1> SUFFICES ASSUME TypeInv, TokenInv, [Next]_vars PROVE TokenInv'
  OBVIOUS
<1> /\ call \in [Tabs -> Call] /\ TypeOK /\ CallsNamed
    /\ None \notin Users \cup Sids \cup Tokens
  BY AccountsAssumption DEF TypeInv, TypeOK, Call, Points
<1>a. ASSUME UNCHANGED <<spent, respent>>, racedTokens \subseteq racedTokens',
             \A k \in Tokens : token[k] = "used" => token'[k] = "used",
             NEW t \in Tabs, \A x \in Tabs : x # t => call'[x] = call[x],
             call'[t].at \notin ResetPoints, call'[t].token = None,
             call[t].at = "marking" =>
               call[t].token \in racedTokens' \/ token'[call[t].token] = "used"
      PROVE  TokenInv'
  <2>1. spent \subseteq Tokens
    BY DEF TypeOK
  <2>2. ASSUME NEW k \in spent
        PROVE  \/ token'[k] = "used" \/ k \in racedTokens'
               \/ \E x \in Tabs : call'[x].at = "marking" /\ call'[x].token = k
    BY <1>a, <2>1 DEF TokenInv
  <2>3. \A x, y \in Tabs : x # y /\ call'[x].token = call'[y].token =>
          call'[x].token \in racedTokens' \cup {None}
    BY <1>a DEF TokenInv
  <2>4. \A x \in Tabs : call'[x].at = "hashing" /\ call'[x].token \in spent =>
          call'[x].token \in racedTokens'
    BY <1>a DEF TokenInv, ResetPoints
  <2>5. QED
    BY <1>a, <2>2, <2>3, <2>4 DEF TokenInv, TokenSpentOnce
<1>b. ASSUME UNCHANGED <<spent, respent, racedTokens>>,
             \A k \in Tokens : token[k] = "used" => token'[k] = "used",
             \A x \in Tabs : /\ call'[x].token = call[x].token
                             /\ call[x].at = "marking" => call'[x].at = "marking"
                             /\ call'[x].at = "hashing" => call[x].at = "hashing"
      PROVE  TokenInv'
  <2>1. spent \subseteq Tokens
    BY DEF TypeOK
  <2>2. QED
    BY <1>b, <2>1 DEF TokenInv, TokenSpentOnce
<1>c. ASSUME NEW t \in Tabs, call[t].at \notin ResetPoints, NEW c,
             UNCHANGED <<token, spent, respent, racedTokens>>,
             call' = [call EXCEPT ![t] = c], c.at \notin ResetPoints, c.token = call[t].token
      PROVE  TokenInv'
  BY <1>c, <1>b DEF ResetPoints
<1> USE DEF tokens
<1>1. ASSUME NEW t \in Tabs, Die(t) \/ AnswerLogin(t) \/ DeleteIndex(t) PROVE TokenInv'
  BY <1>1, <1>a, IdleTyped DEF Die, AnswerLogin, DeleteIndex, At, Return, ResetPoints
<1>2. ASSUME NEW t \in Tabs, MarkUsed(t) PROVE TokenInv'
  <2>1. call[t].token \in Tokens
    BY <1>2 DEF MarkUsed, At, CallsNamed, Named, ResetPoints
  <2>2. /\ \A k \in Tokens : token[k] = "used" => token'[k] = "used"
        /\ token'[call[t].token] = "used"
    BY <1>2, <2>1 DEF MarkUsed, TypeOK
  <2>3. QED
    BY <1>2, <2>2, <1>a, IdleTyped DEF MarkUsed, Return, ResetPoints
<1>3. ASSUME NEW t \in Tabs, SetPassword(t) PROVE TokenInv'
  <2> DEFINE k == call[t].token
  <2>1. k \in Tokens /\ call[t].at = "hashing"
    BY <1>3 DEF SetPassword, At, CallsNamed, Named, ResetPoints
  <2>2. /\ call'[t].at = "marking" /\ call'[t].token = k
        /\ \A x \in Tabs : x # t => call'[x] = call[x]
        /\ \A x \in Tabs : call'[x].token = call[x].token
        /\ UNCHANGED <<token, racedTokens>>
        /\ spent' = spent \cup {k} /\ respent' = respent \cup (spent \cap {k})
    BY <1>3 DEF SetPassword, Call
  <2>3. ASSUME NEW j \in spent'
        PROVE  \/ token'[j] = "used" \/ j \in racedTokens'
               \/ \E x \in Tabs : call'[x].at = "marking" /\ call'[x].token = j
    <3>1. CASE j = k
      BY <2>2, <3>1
    <3>2. CASE j # k
      <4>1. j \in spent
        BY <2>2, <3>2
      <4>2. \A x \in Tabs : call[x].at = "marking" => call'[x] = call[x]
        BY <2>1, <2>2
      <4>3. QED
        BY <2>2, <4>1, <4>2 DEF TokenInv
    <3>3. QED
      BY <3>1, <3>2
  <2>4. \A x, y \in Tabs : x # y /\ call'[x].token = call'[y].token =>
          call'[x].token \in racedTokens' \cup {None}
    BY <2>2 DEF TokenInv
  <2>5. ASSUME NEW x \in Tabs, call'[x].at = "hashing", call'[x].token \in spent'
        PROVE  call'[x].token \in racedTokens'
    <3>1. x # t /\ call[x].at = "hashing"
      BY <2>2, <2>5
    <3>2. CASE call[x].token = k
      BY <2>1, <2>2, <3>1, <3>2 DEF TokenInv
    <3>3. CASE call[x].token # k
      BY <2>2, <2>5, <3>1, <3>3 DEF TokenInv
    <3>4. QED
      BY <3>2, <3>3
  <2>6. TokenSpentOnce'
    BY <2>1, <2>2 DEF TokenInv, TokenSpentOnce
  <2>7. QED
    BY <2>3, <2>4, <2>5, <2>6 DEF TokenInv
<1>4. ASSUME NEW t \in Tabs, NEW k \in Tokens, ResetPassword(t, k) PROVE TokenInv'
  <2>1. /\ call'[t].at = "hashing" /\ call'[t].token = k
        /\ \A x \in Tabs : x # t => call'[x] = call[x]
        /\ UNCHANGED <<token, spent, respent>>
        /\ racedTokens \subseteq racedTokens'
        /\ (\E x \in Tabs : call[x].token = k) => k \in racedTokens'
    BY <1>4 DEF ResetPassword, Idle
  <2>2. token[k] = "valid" /\ call[t].at = "idle"
    BY <1>4 DEF ResetPassword, Usable, At
  <2>3. ASSUME NEW j \in spent
        PROVE  \/ token'[j] = "used" \/ j \in racedTokens'
               \/ \E x \in Tabs : call'[x].at = "marking" /\ call'[x].token = j
    <3>1. \A x \in Tabs : call[x].at = "marking" => call'[x] = call[x]
      BY <2>1, <2>2
    <3>2. QED
      BY <2>1, <3>1 DEF TokenInv
  <2>4. \A x, y \in Tabs : x # y /\ call'[x].token = call'[y].token =>
          call'[x].token \in racedTokens' \cup {None}
    BY <2>1 DEF TokenInv
  <2>5. ASSUME NEW x \in Tabs, call'[x].at = "hashing", call'[x].token \in spent'
        PROVE  call'[x].token \in racedTokens'
    BY <2>1, <2>2, <2>5 DEF TokenInv
  <2>6. TokenSpentOnce'
    BY <2>1 DEF TokenInv, TokenSpentOnce
  <2>7. QED
    BY <2>1, <2>3, <2>4, <2>5, <2>6 DEF TokenInv
<1>5. ASSUME NEW t \in Tabs,
             \/ Browse(t) \/ Logout(t) \/ \E u \in Users : Register(t, u)
      PROVE  TokenInv'
  BY <1>5, <1>b DEF Browse, Logout, Register
<1>6. ASSUME NEW t \in Tabs, NEW u \in Users, NEW k \in Tokens, ForgotPassword(t, u, k)
      PROVE  TokenInv'
  BY <1>6, <1>b DEF ForgotPassword, InsertToken, TypeOK
<1>7. ASSUME NEW t \in Tabs, IndexSession(t) PROVE TokenInv'
  <2> DEFINE c == [call[t] EXCEPT !.at = "indexed"]
  <2>1. c.at \notin ResetPoints /\ c.token = call[t].token /\ call' = [call EXCEPT ![t] = c]
    BY <1>7 DEF IndexSession, Call, ResetPoints
  <2> HIDE DEF c
  <2>2. QED
    BY <1>7, <2>1, <1>c DEF IndexSession, At, ResetPoints
<1>8. ASSUME NEW t \in Tabs,
             \/ DestroyOld(t) \/ ListSessions(t) \/ DeleteSessions(t)
             \/ \E s \in Sids : CreateSession(t, s)
      PROVE  TokenInv'
  <2>1. /\ call[t].at \notin ResetPoints /\ UNCHANGED <<token, spent, respent, racedTokens>>
        /\ \A x \in Tabs : /\ call'[x].token = call[x].token
                           /\ call[x].at = "marking" => call'[x].at = "marking"
                           /\ call'[x].at = "hashing" => call[x].at = "hashing"
    BY <1>8 DEF DestroyOld, ListSessions, DeleteSessions, CreateSession, Call, At, ResetPoints
  <2>2. QED
    BY <2>1, <1>b
<1>9. ASSUME NEW t \in Tabs, UpdateUser(t) PROVE TokenInv'
  <2>1. call[t].token = None
    BY <1>9 DEF UpdateUser, At, CallsNamed, Named, ResetPoints
  <2>2. \A x \in Tabs : /\ call'[x].token = call[x].token
                        /\ call[x].at = "marking" => call'[x].at = "marking"
                        /\ call'[x].at = "hashing" => call[x].at = "hashing"
    BY <1>9, <2>1, IdleTyped DEF UpdateUser, Call, LoginPoints, At
  <2>3. QED
    BY <1>9, <2>2, <1>b DEF UpdateUser
<1>10. ASSUME NEW t \in Tabs, NEW u \in Users, LoginUser(t, u) PROVE TokenInv'
  BY <1>10, <1>a DEF LoginUser, Idle, At, ResetPoints
<1>11. ASSUME NEW t \in Tabs, NEW u \in Users, NEW change, PatchUser(t, u, change)
       PROVE  TokenInv'
  BY <1>11, <1>a DEF PatchUser, Idle, At, ResetPoints
<1>12. ASSUME NEW k \in Tokens, ExpireToken(k) PROVE TokenInv'
  BY <1>12, <1>b DEF ExpireToken, TypeOK
<1>13. CASE Tick \/ UNCHANGED vars
  BY <1>13, <1>b DEF Tick, vars
<1>14. QED
  BY <1>1, <1>2, <1>3, <1>4, <1>5, <1>6, <1>7, <1>8, <1>9, <1>10, <1>11, <1>12, <1>13
     DEF Next, StorefrontLogin, ConsoleLogin

\* A reset token sets one password, unless two requests used it at a time or
\* the one that used it died before it could mark it.
THEOREM TokenSpent == Spec => []TokenSpentOnce
<1>1. Init => TokenInv
  BY DEF Init, TokenInv, TokenSpentOnce, Idle
<1>2. TokenInv => TokenSpentOnce
  BY DEF TokenInv
<1>3. QED
  BY <1>1, <1>2, TokenStep, TypeInvInit, TypeInvStep, PTL DEF Spec

-----------------------------------------------------------------------------
(* A session with rights that were taken away escaped its eviction *)

\* A login whose session is in the store, on its way to the cookie.
Bringing(t) == call[t].at \in {"stored", "indexed"}

\* A session somebody has or is about to be given, and no eviction has missed.
Given(s) ==
  \/ \E b \in Browsers : cookie[b] = s
  \/ \E t \in Tabs : Bringing(t) /\ call[t].sid = s /\ ~call[t].raced
Tracked(s) == ttl[s] > 0 /\ s \notin escaped /\ Given(s)

\* The index of a user has sessions of that user, a session in a cookie has an
\* owner, and a login brings the session it created.
Recorded ==
  /\ \A u \in Users : \A s \in index[u] : owner[s] = u
  /\ \A b \in Browsers : cookie[b] # None => owner[cookie[b]] # None
  /\ \A t \in Tabs : Bringing(t) =>
       owner[call[t].sid] = call[t].user /\ granted[call[t].sid] = call[t].role

\* A session that is brought is in no cookie, and no other login brings it.
BroughtOnce ==
  \A t \in Tabs : Bringing(t) =>
    /\ \A b \in Browsers : cookie[b] # call[t].sid
    /\ \A x \in Tabs : Bringing(x) /\ call[x].sid = call[t].sid => x = t

\* The row that a login read holds until its user is changed, which marks it.
LoginsCurrent ==
  \A t \in Tabs : call[t].at \in LoginPoints /\ ~call[t].raced =>
    /\ ~Evicting(call[t].user)
    /\ call[t].role = role[call[t].user] /\ active[call[t].user]

\* An eviction that has listed the sessions of a user has listed the tracked
\* ones, and one that has deleted them has left none.
AllListed ==
  \A t \in Tabs, s \in Sids : Tracked(s) /\ owner[s] = call[t].user =>
    /\ call[t].at = "listed" => s \in call[t].members
    /\ call[t].at # "emptied"

\* A tracked session is in the index of its owner, which outlives it, except
\* before the two commands that see to it and after a renewal; and it has the
\* rights of its owner, unless an eviction is after it.
Stored(s) == \E t \in Tabs : call[t].at = "stored" /\ call[t].sid = s
Brought(s) == \E t \in Tabs : Bringing(t) /\ call[t].sid = s
Filed(s) == Stored(s) \/ s \in index[owner[s]]
Lasting(s) == Brought(s) \/ s \in renewed \/ ttl[s] <= indexTtl[owner[s]]
Justified(s) == Evicting(owner[s]) \/ ~Stale(s)
TrackedInPlace == \A s \in Sids : Tracked(s) => Filed(s) /\ Lasting(s) /\ Justified(s)

\* StaleSessionEscaped alone is not inductive: an eviction ends what the index
\* lists, so a session somebody has must be listed, live no longer than the
\* list, and come of a login that no eviction overlapped.
SessionInv == Recorded /\ BroughtOnce /\ LoginsCurrent /\ AllListed /\ TrackedInPlace

\* A step that tracks no further session keeps the invariant when it keeps the
\* tracked ones in place, and does what logins and evictions rely on.
LEMMA SessionFrame ==
  ASSUME TypeInv, SessionInv, UNCHANGED <<owner, granted>>,
         \A u \in Users : \A s \in index'[u] : s \in index[u] \/ owner[s] = u,
         \A b \in Browsers : cookie'[b] # cookie[b] =>
           \/ cookie'[b] = None
           \/ \E x \in Tabs : Bringing(x) /\ ~Bringing(x)' /\ cookie'[b] = call[x].sid,
         \A x \in Tabs : Bringing(x)' =>
           /\ Bringing(x) /\ call'[x].sid = call[x].sid
           /\ call'[x].user = call[x].user /\ call'[x].role = call[x].role,
         \A s \in Sids : Tracked(s)' =>
           /\ Tracked(s)
           /\ Filed(s) => Filed(s)'
           /\ Lasting(s) => Lasting(s)'
           /\ Justified(s) => Justified(s)',
         LoginsCurrent', AllListed'
  PROVE  SessionInv'
<1> None \notin Users \cup Sids \cup Tokens /\ registered \subseteq Users
  BY AccountsAssumption DEF TypeInv, TypeOK
<1>1. \A x \in Tabs : Bringing(x) => call[x].sid \in Sids /\ call[x].user \in registered
  BY DEF TypeInv, CallsNamed, Named, Bringing, ResetPoints
<1>2. Recorded'
  <2>1. \A u \in Users : \A s \in index'[u] : owner'[s] = u
    BY DEF SessionInv, Recorded
  <2>2. \A b \in Browsers : cookie'[b] # None => owner'[cookie'[b]] # None
    <3> SUFFICES ASSUME NEW b \in Browsers, cookie'[b] # None PROVE owner[cookie'[b]] # None
      OBVIOUS
    <3>1. CASE cookie'[b] = cookie[b]
      BY <3>1 DEF SessionInv, Recorded
    <3>2. ASSUME NEW x \in Tabs, Bringing(x), cookie'[b] = call[x].sid
          PROVE  owner[cookie'[b]] # None
      BY <1>1, <3>2 DEF SessionInv, Recorded
    <3>3. QED
      BY <3>1, <3>2
  <2>3. \A t \in Tabs : Bringing(t)' =>
          owner'[call'[t].sid] = call'[t].user /\ granted'[call'[t].sid] = call'[t].role
    BY DEF SessionInv, Recorded
  <2>4. QED
    BY <2>1, <2>2, <2>3 DEF Recorded
<1>3. BroughtOnce'
  <2> SUFFICES ASSUME NEW t \in Tabs, Bringing(t)'
               PROVE  /\ \A b \in Browsers : cookie'[b] # call'[t].sid
                      /\ \A x \in Tabs : Bringing(x)' /\ call'[x].sid = call'[t].sid => x = t
    BY DEF BroughtOnce
  <2>1. Bringing(t) /\ call'[t].sid = call[t].sid /\ call[t].sid \in Sids
    BY <1>1
  <2>2. ASSUME NEW b \in Browsers PROVE cookie'[b] # call'[t].sid
    <3>1. ASSUME NEW x \in Tabs, Bringing(x), ~Bringing(x)', cookie'[b] = call[x].sid
          PROVE  cookie'[b] # call'[t].sid
      BY <2>1, <3>1 DEF SessionInv, BroughtOnce
    <3>2. QED
      BY <2>1, <3>1 DEF SessionInv, BroughtOnce
  <2>3. \A x \in Tabs : Bringing(x)' /\ call'[x].sid = call'[t].sid => x = t
    BY <2>1 DEF SessionInv, BroughtOnce
  <2>4. QED
    BY <2>2, <2>3
<1>4. TrackedInPlace'
  BY DEF SessionInv, TrackedInPlace
<1>5. QED
  BY <1>2, <1>3, <1>4 DEF SessionInv

\* Where a call is that brings a session or evicts.
Busy == {"stored", "indexed"} \cup EvictPoints

\* A step that leaves the store as it is, but for renewals, and no login or
\* eviction further than it was.
LEMMA SessionQuiet ==
  ASSUME TypeInv, TypeInv', SessionInv,
         UNCHANGED <<role, active, owner, granted, index, indexTtl, cookie, escaped>>,
         \A s \in Sids : (ttl'[s] > 0 <=> ttl[s] > 0) /\ (ttl'[s] <= ttl[s] \/ s \in renewed'),
         renewed \subseteq renewed',
         \A x \in Tabs :
           call[x].at \in Busy \/ call'[x].at \in Busy => call'[x] = call[x],
         \A x \in Tabs : call'[x] # call[x] /\ call'[x].at \in LoginPoints /\ ~call'[x].raced =>
           /\ ~Evicting(call'[x].user)
           /\ call'[x].role = role[call'[x].user] /\ active[call'[x].user]
  PROVE  SessionInv'
<1>1. \A x \in Tabs : Bringing(x)' <=> Bringing(x)
  BY DEF Bringing, Busy
<1>2. \A u : Evicting(u)' <=> Evicting(u)
  BY DEF Evicting, Busy
<1>3. \A s \in Sids : (Tracked(s)' <=> Tracked(s)) /\ (Stored(s)' <=> Stored(s))
                      /\ (Brought(s)' <=> Brought(s))
  <2>1. \A x \in Tabs : Bringing(x) => call'[x] = call[x]
    BY DEF Bringing, Busy
  <2>2. \A s \in Sids : Given(s)' <=> Given(s)
    BY <1>1, <2>1 DEF Given
  <2>3. \A s \in Sids : Tracked(s)' <=> Tracked(s)
    BY <2>2 DEF Tracked
  <2>4. \A s \in Sids : Brought(s)' <=> Brought(s)
    BY <1>1, <2>1 DEF Brought
  <2>5. \A x \in Tabs : call[x].at = "stored" \/ call'[x].at = "stored" => call'[x] = call[x]
    BY DEF Busy
  <2>6. \A s \in Sids : Stored(s)' <=> Stored(s)
    BY <2>5 DEF Stored
  <2>7. QED
    BY <2>3, <2>4, <2>6
<1>4. \A s \in Sids : Tracked(s) => owner[s] \in Users
  BY DEF Tracked, TypeInv, TypeOK, Owned
<1>5. \A s \in Sids : Tracked(s) /\ Lasting(s) => Lasting(s)'
  <2>1. \A s \in Sids : ttl'[s] \in Nat /\ ttl[s] \in Nat
    BY AccountsAssumption DEF TypeInv, TypeOK
  <2>2. \A u \in Users : indexTtl[u] \in Nat
    BY AccountsAssumption DEF TypeInv, TypeOK, Persistent
  <2>3. QED
    BY <1>3, <1>4, <2>1, <2>2 DEF Lasting
<1>6. \A s \in Sids : Filed(s) => Filed(s)'
  BY <1>3 DEF Filed
<1>7. \A s \in Sids : Justified(s) => Justified(s)'
  BY <1>2 DEF Justified, Stale
<1>8. LoginsCurrent'
  BY <1>2 DEF SessionInv, LoginsCurrent
<1>9. AllListed'
  <2>1. \A x \in Tabs : call'[x].at \in {"listed", "emptied"} => call'[x] = call[x]
    BY DEF Busy, EvictPoints
  <2>2. QED
    BY <1>3, <2>1 DEF SessionInv, AllListed
<1>10. \A x \in Tabs : Bringing(x)' =>
         /\ Bringing(x) /\ call'[x].sid = call[x].sid
         /\ call'[x].user = call[x].user /\ call'[x].role = call[x].role
  BY <1>1 DEF Bringing, Busy
<1>11. \A s \in Sids : Tracked(s)' =>
         /\ Tracked(s)
         /\ Filed(s) => Filed(s)'
         /\ Lasting(s) => Lasting(s)'
         /\ Justified(s) => Justified(s)'
  BY <1>3, <1>5, <1>6, <1>7
<1>12. QED
  BY <1>8, <1>9, <1>10, <1>11, SessionFrame

\* Steps that touch no session and no eviction.
LEMMA SessionElsewhere ==
  ASSUME TypeInv, TypeInv', SessionInv,
         \/ UNCHANGED vars
         \/ \E k \in Tokens : ExpireToken(k)
         \/ \E t \in Tabs :
              \/ Browse(t) \/ SetPassword(t) \/ MarkUsed(t)
              \/ \E u \in Users : Register(t, u) \/ LoginUser(t, u)
              \/ \E u \in Users, change \in Changes : PatchUser(t, u, change)
              \/ \E u \in Users, k \in Tokens : ForgotPassword(t, u, k)
              \/ \E k \in Tokens : ResetPassword(t, k)
  PROVE  SessionInv'
<1> USE DEF users, store, tokens
<1> /\ call \in [Tabs -> Call] /\ ttl \in [Sids -> 0..SessionTTL] /\ SessionTTL \in Nat \ {0}
    /\ cookie \in [Browsers -> Sids \cup {None}] /\ BrowserOf \in [Tabs -> Browsers]
    /\ ttl' \in [Sids -> 0..SessionTTL]
  BY AccountsAssumption DEF TypeInv, TypeOK, Call, Points
<1> DEFINE Out == {"idle", "checked", "verified", "fresh"} \cup ResetPoints
           Renews == /\ \A s \in Sids : /\ ttl'[s] > 0 <=> ttl[s] > 0
                                        /\ ttl'[s] <= ttl[s] \/ s \in renewed'
                     /\ renewed \subseteq renewed'
           Calls == /\ \A x \in Tabs :
                         call[x].at \in Busy \/ call'[x].at \in Busy => call'[x] = call[x]
                    /\ \A x \in Tabs :
                         call'[x] # call[x] /\ call'[x].at \in LoginPoints /\ ~call'[x].raced =>
                           /\ ~Evicting(call'[x].user)
                           /\ call'[x].role = role[call'[x].user] /\ active[call'[x].user]
<1>1. ASSUME NEW t \in Tabs, Derive(t) PROVE Renews
  <2>1. CASE RenewalDue(t)
    BY <1>1, <2>1 DEF RenewalDue, SignedIn, Current, Derive
  <2>2. CASE ~RenewalDue(t)
    BY <1>1, <2>2 DEF Derive
  <2>3. QED
    BY <2>1, <2>2
<1>2. ASSUME UNCHANGED <<ttl, renewed>> PROVE Renews
  BY <1>2
<1>3. ASSUME NEW t \in Tabs, NEW c, call' = [call EXCEPT ![t] = c],
             call[t].at \in Out, c.at \in Out \ LoginPoints
      PROVE  Calls
  BY <1>3 DEF Busy, EvictPoints, ResetPoints, LoginPoints
<1>4. ASSUME UNCHANGED call PROVE Calls
  BY <1>4
<1>5. ASSUME Renews, Calls,
             UNCHANGED <<role, active, owner, granted, index, indexTtl, cookie, escaped>>
      PROVE  SessionInv'
  BY <1>5, SessionQuiet
<1> HIDE DEF Renews, Calls
<1>6. CASE UNCHANGED vars
  BY <1>6, <1>2, <1>4, <1>5 DEF vars
<1>7. ASSUME NEW k \in Tokens, ExpireToken(k) PROVE SessionInv'
  BY <1>7, <1>2, <1>4, <1>5 DEF ExpireToken
<1>8. ASSUME NEW t \in Tabs,
             \/ Browse(t) \/ \E u \in Users : Register(t, u)
             \/ \E u \in Users, k \in Tokens : ForgotPassword(t, u, k)
      PROVE  SessionInv'
  BY <1>8, <1>1, <1>4, <1>5 DEF Browse, Register, ForgotPassword
<1>9. ASSUME NEW t \in Tabs, SetPassword(t) PROVE SessionInv'
  <2>1. [call[t] EXCEPT !.at = "marking"].at = "marking"
    BY DEF Call
  <2>2. Calls
    BY <1>9, <2>1, <1>3 DEF SetPassword, At, ResetPoints, LoginPoints
  <2>3. QED
    BY <1>9, <2>2, <1>2, <1>5 DEF SetPassword
<1>10. ASSUME NEW t \in Tabs, MarkUsed(t) PROVE SessionInv'
  <2>1. Calls
    BY <1>10, <1>3 DEF MarkUsed, At, Return, Idle, ResetPoints, LoginPoints
  <2>2. QED
    BY <1>10, <2>1, <1>2, <1>5 DEF MarkUsed
<1>11. ASSUME NEW t \in Tabs, NEW u \in Users, LoginUser(t, u) PROVE SessionInv'
  <2>1. /\ call'[t].at = "verified" /\ call'[t].user = u /\ call'[t].role = role[u]
        /\ call'[t].raced = Evicting(u) /\ active[u] /\ call[t].at = "idle"
        /\ \A x \in Tabs : x # t => call'[x] = call[x]
    BY <1>11 DEF LoginUser, Idle, At
  <2>2. Calls
    BY <2>1 DEF Calls, Busy, EvictPoints
  <2>3. QED
    BY <1>11, <2>2, <1>1, <1>5 DEF LoginUser
<1>12. ASSUME NEW t \in Tabs, NEW u \in Users, NEW change \in Changes, PatchUser(t, u, change)
       PROVE  SessionInv'
  <2>1. Calls
    BY <1>12, <1>3 DEF PatchUser, At, Idle, LoginPoints
  <2>2. QED
    BY <1>12, <2>1, <1>1, <1>5 DEF PatchUser
<1>13. ASSUME NEW t \in Tabs, NEW k \in Tokens, ResetPassword(t, k) PROVE SessionInv'
  <2>1. Calls
    BY <1>13, <1>3 DEF ResetPassword, At, Idle, LoginPoints, ResetPoints
  <2>2. QED
    BY <1>13, <2>1, <1>1, <1>5 DEF ResetPassword
<1>14. QED
  BY <1>6, <1>7, <1>8, <1>9, <1>10, <1>11, <1>12, <1>13

\* Evictions are where they were when no call enters or leaves their points.
LEMMA EvictingStays ==
  ASSUME \A x \in Tabs : call[x].at \in EvictPoints \/ call'[x].at \in EvictPoints =>
           call'[x].at \in EvictPoints /\ call[x].at \in EvictPoints /\ call'[x].user = call[x].user
  PROVE  \A u : Evicting(u)' <=> Evicting(u)
BY DEF Evicting

\* Ending one session leaves the others in their index, which stays.
LEMMA SessionDestroyed ==
  ASSUME TypeInv, TypeInv', SessionInv, NEW s \in Sids \cup {None}, Destroy(s),
         UNCHANGED <<role, active, owner, granted, escaped, renewed>>,
         \A b \in Browsers : cookie'[b] \in {cookie[b], None},
         \A x \in Tabs : call[x].at \in Busy \/ call'[x].at \in Busy => call'[x] = call[x],
         \A x \in Tabs : call'[x].at \in LoginPoints =>
           /\ call[x].at \in LoginPoints /\ call'[x].user = call[x].user
           /\ call'[x].role = call[x].role /\ call'[x].raced = call[x].raced
  PROVE  SessionInv'
<1> /\ None \notin Users \cup Sids \cup Tokens /\ index \in [Users -> SUBSET Sids]
    /\ ttl \in [Sids -> 0..SessionTTL] /\ SessionTTL \in Nat
    /\ indexTtl \in [Users -> 0..Persistent] /\ registered \subseteq Users
  BY AccountsAssumption DEF TypeInv, TypeOK
<1>1. \A x \in Tabs : Bringing(x)' <=> Bringing(x)
  BY DEF Bringing, Busy
<1>2. \A x \in Tabs : Bringing(x) => call'[x] = call[x]
  BY DEF Bringing, Busy
<1>3. \A u : Evicting(u)' <=> Evicting(u)
  BY EvictingStays DEF Busy
<1>4. \A r \in Sids : /\ ttl'[r] > 0 => ttl'[r] = ttl[r]
                      /\ r = s /\ ttl'[r] > 0 => UNCHANGED <<index, indexTtl>>
                      /\ r # s => ttl'[r] = ttl[r]
  BY DEF Destroy
<1>5. ASSUME NEW r \in Sids, Tracked(r)' PROVE Tracked(r) /\ owner[r] \in Users
  <2>1. Given(r)
    BY <1>1, <1>2, <1>5 DEF Tracked, Given
  <2>2. QED
    BY <1>4, <1>5, <2>1 DEF Tracked, TypeInv, Owned
<1>6. \A r \in Sids : /\ Stored(r) => Stored(r)'
                      /\ Brought(r) => Brought(r)'
  BY <1>1, <1>2 DEF Stored, Brought, Bringing, Busy
<1>7. \A u \in Users : \A r \in index'[u] : r \in index[u]
  <2>1. CASE s # None /\ ttl[s] > 0
    BY <2>1 DEF Destroy, RemoveFromIndex
  <2>2. QED
    BY <2>1 DEF Destroy
<1>8. ASSUME NEW r \in Sids, Tracked(r)', r \in index[owner[r]]
      PROVE  r \in index'[owner[r]] /\ indexTtl'[owner[r]] = indexTtl[owner[r]]
  <2>1. CASE s # None /\ ttl[s] > 0
    <3>1. r # s
      BY <1>8, <2>1 DEF Destroy, Tracked
    <3>2. owner[s] \in Users /\ owner[r] \in Users
      BY <1>5, <1>8, <2>1 DEF TypeInv, Owned
    <3>3. QED
      BY <1>8, <2>1, <3>1, <3>2 DEF Destroy, RemoveFromIndex
  <2>2. QED
    BY <1>8, <2>1 DEF Destroy
<1>9. ASSUME NEW r \in Sids, Tracked(r)'
      PROVE  /\ Tracked(r)
             /\ Filed(r) => Filed(r)'
             /\ Lasting(r) => Lasting(r)'
             /\ Justified(r) => Justified(r)'
  <2>1. Filed(r) /\ Lasting(r) /\ Tracked(r)
    BY <1>5, <1>9 DEF SessionInv, TrackedInPlace
  <2>2. Filed(r)'
    BY <1>6, <1>8, <1>9, <2>1 DEF Filed
  <2>3. Lasting(r)'
    <3>1. CASE Stored(r)
      BY <1>6, <3>1 DEF Lasting, Stored, Brought, Bringing
    <3>2. CASE r \in index[owner[r]]
      <4>1. ttl'[r] = ttl[r] /\ indexTtl'[owner[r]] = indexTtl[owner[r]]
        BY <1>4, <1>8, <1>9, <3>2 DEF Tracked
      <4>2. QED
        BY <1>6, <2>1, <4>1 DEF Lasting
    <3>3. QED
      BY <2>1, <3>1, <3>2 DEF Filed
  <2>4. Justified(r) => Justified(r)'
    BY <1>3 DEF Justified, Stale
  <2>5. QED
    BY <2>1, <2>2, <2>3, <2>4
<1>10. LoginsCurrent'
  BY <1>3 DEF SessionInv, LoginsCurrent
<1>11. AllListed'
  <2>1. \A x \in Tabs : call'[x].at \in {"listed", "emptied"} => call'[x] = call[x]
    BY DEF Busy, EvictPoints
  <2>2. QED
    BY <1>9, <2>1 DEF SessionInv, AllListed
<1>12. \A x \in Tabs : Bringing(x)' =>
         /\ Bringing(x) /\ call'[x].sid = call[x].sid
         /\ call'[x].user = call[x].user /\ call'[x].role = call[x].role
  BY <1>1, <1>2
<1>13. QED
  BY <1>7, <1>9, <1>10, <1>11, <1>12, SessionFrame

\* A new session is nobody's yet, and comes of a login that is current.
LEMMA SessionCreated ==
  ASSUME TypeInv, TypeInv', SessionInv, NEW t \in Tabs, NEW s \in Sids, CreateSession(t, s)
  PROVE  SessionInv'
<1> USE DEF users, store, tokens
<1> DEFINE u == call[t].user  r == [call[t] EXCEPT !.at = "stored", !.sid = s]
<1> /\ None \notin Users \cup Sids \cup Tokens /\ registered \subseteq Users
    /\ call \in [Tabs -> Call] /\ owner \in [Sids -> Users \cup {None}]
    /\ granted \in [Sids -> Roles] /\ ttl \in [Sids -> 0..SessionTTL] /\ SessionTTL \in Nat
  BY AccountsAssumption DEF TypeInv, TypeOK, Call, Points
<1>1. /\ call[t].at = "fresh" /\ u \in registered /\ owner[s] = None
      /\ owner' = [owner EXCEPT ![s] = u] /\ granted' = [granted EXCEPT ![s] = call[t].role]
      /\ ttl' = [ttl EXCEPT ![s] = SessionTTL]
      /\ UNCHANGED <<role, active, index, indexTtl, cookie, renewed, escaped>>
  BY DEF CreateSession, At, TypeInv, CallsNamed, Named, ResetPoints
<1>2. /\ r.at = "stored" /\ r.sid = s /\ r.user = u /\ r.role = call[t].role
      /\ r.raced = call[t].raced /\ call' = [call EXCEPT ![t] = r]
  <2>1. /\ r.at = "stored" /\ r.sid = s /\ r.user = u /\ r.role = call[t].role
        /\ r.raced = call[t].raced
    BY DEF Call
  <2>2. call' = [call EXCEPT ![t] = r]
    BY DEF CreateSession
  <2>3. QED
    BY <2>1, <2>2
<1> HIDE DEF r
<1>3. /\ \A x \in Tabs : x # t => call'[x] = call[x]
      /\ call'[t] = r
  BY <1>2
<1>4. /\ \A v \in Users : s \notin index[v]
      /\ \A b \in Browsers : cookie[b] # s
      /\ \A x \in Tabs : Bringing(x) => call[x].sid # s /\ x # t
  BY <1>1 DEF SessionInv, Recorded, Bringing, TypeInv, CallsNamed, Named, ResetPoints
<1>5. \A x \in Tabs : Bringing(x)' <=> x = t \/ Bringing(x)
  BY <1>2, <1>3 DEF Bringing
<1>6. \A v : Evicting(v)' <=> Evicting(v)
  BY <1>1, <1>2, <1>3, EvictingStays DEF EvictPoints
<1>7. \A q \in Sids : q # s => owner'[q] = owner[q] /\ granted'[q] = granted[q] /\ ttl'[q] = ttl[q]
  BY <1>1
<1>8. \A q \in Sids : q # s /\ Tracked(q)' => Tracked(q)
  BY <1>1, <1>2, <1>3, <1>5, <1>7 DEF Tracked, Given
<1>9. \A x \in Tabs : Bringing(x) => call[x].sid \in Sids
  BY DEF Bringing, TypeInv, CallsNamed, Named
<1>10. Recorded'
  <2>1. \A v \in Users : \A q \in index'[v] : owner'[q] = v
    <3>1. \A v \in Users : \A q \in index[v] : q \in Sids /\ q # s /\ owner[q] = v
      BY <1>4 DEF SessionInv, Recorded, TypeInv, TypeOK
    <3>2. QED
      BY <1>1, <1>7, <3>1
  <2>2. \A b \in Browsers : cookie'[b] # None => owner'[cookie'[b]] # None
    BY <1>1, <1>4, <1>7 DEF SessionInv, Recorded, TypeInv, TypeOK
  <2>3. \A x \in Tabs : Bringing(x)' =>
          owner'[call'[x].sid] = call'[x].user /\ granted'[call'[x].sid] = call'[x].role
    BY <1>1, <1>2, <1>3, <1>4, <1>5, <1>7, <1>9 DEF SessionInv, Recorded
  <2>4. QED
    BY <2>1, <2>2, <2>3 DEF Recorded
<1>11. BroughtOnce'
  BY <1>1, <1>2, <1>3, <1>4, <1>5 DEF SessionInv, BroughtOnce
<1>12. LoginsCurrent'
  BY <1>1, <1>2, <1>3, <1>6 DEF SessionInv, LoginsCurrent, LoginPoints
<1>13. ASSUME Tracked(s)' PROVE ~Evicting(u) /\ call[t].role = role[u] /\ active[u]
  <2>1. ~call[t].raced
    BY <1>13, <1>1, <1>2, <1>3, <1>4, <1>5 DEF Tracked, Given
  <2>2. QED
    BY <1>1, <2>1 DEF SessionInv, LoginsCurrent, LoginPoints
<1>14. AllListed'
  <2> SUFFICES ASSUME NEW x \in Tabs, NEW q \in Sids, Tracked(q)', owner'[q] = call'[x].user,
                      call'[x].at \in {"listed", "emptied"}
               PROVE  (call'[x].at = "listed" => q \in call'[x].members) /\ call'[x].at # "emptied"
    BY DEF AllListed
  <2>1. x # t /\ call'[x] = call[x] /\ Evicting(call[x].user)
    BY <1>2, <1>3 DEF Evicting, EvictPoints
  <2>2. q # s
    BY <1>1, <1>13, <2>1
  <2>3. QED
    BY <1>7, <1>8, <2>1, <2>2 DEF SessionInv, AllListed
<1>15. TrackedInPlace'
  <2>1. ASSUME Tracked(s)' PROVE Filed(s)' /\ Lasting(s)' /\ Justified(s)'
    <3>1. Stored(s)' /\ Brought(s)'
      BY <1>2, <1>3, <1>5 DEF Stored, Brought
    <3>2. Justified(s)'
      BY <1>1, <1>13, <2>1 DEF Justified, Stale
    <3>3. QED
      BY <3>1, <3>2 DEF Filed, Lasting
  <2>2. ASSUME NEW q \in Sids, q # s, Tracked(q)' PROVE Filed(q)' /\ Lasting(q)' /\ Justified(q)'
    <3>1. Filed(q) /\ Lasting(q) /\ Justified(q)
      BY <1>8, <2>2 DEF SessionInv, TrackedInPlace
    <3>2. (Stored(q) => Stored(q)') /\ (Brought(q) => Brought(q)')
      BY <1>1, <1>3, <1>5, <1>4 DEF Stored, Brought
    <3>3. QED
      BY <1>1, <1>6, <1>7, <2>2, <3>1, <3>2 DEF Filed, Lasting, Justified, Stale
  <2>3. QED
    BY <2>1, <2>2 DEF TrackedInPlace
<1>16. QED
  BY <1>10, <1>11, <1>12, <1>14, <1>15 DEF SessionInv

\* Entering a session in the index of its user.
LEMMA SessionIndexed ==
  ASSUME TypeInv, TypeInv', SessionInv, NEW t \in Tabs, IndexSession(t)
  PROVE  SessionInv'
<1> USE DEF users, store, tokens
<1> DEFINE u == call[t].user  s == call[t].sid  r == [call[t] EXCEPT !.at = "indexed"]
<1> /\ None \notin Users \cup Sids \cup Tokens /\ registered \subseteq Users
    /\ call \in [Tabs -> Call] /\ index \in [Users -> SUBSET Sids]
    /\ indexTtl \in [Users -> 0..Persistent] /\ ttl \in [Sids -> 0..SessionTTL]
    /\ Persistent \in Nat /\ SessionTTL \in Nat
  BY AccountsAssumption DEF TypeInv, TypeOK, Call, Points, Persistent
<1>1. /\ call[t].at = "stored" /\ u \in registered /\ s \in Sids /\ owner[s] = u
      /\ index' = [index EXCEPT ![u] = @ \cup {s}]
      /\ indexTtl' = IF index[u] = {} THEN [indexTtl EXCEPT ![u] = Persistent] ELSE indexTtl
      /\ UNCHANGED <<role, active, ttl, owner, granted, cookie, renewed, escaped>>
  BY DEF IndexSession, At, TypeInv, CallsNamed, Named, ResetPoints, SessionInv, Recorded,
     Bringing
<1>2. /\ r.at = "indexed" /\ r.sid = s /\ r.user = u /\ r.role = call[t].role
      /\ r.raced = call[t].raced
  BY DEF Call
<1>3. call' = [call EXCEPT ![t] = r]
  BY DEF IndexSession
<1> HIDE DEF r
<1>4. (\A x \in Tabs : x # t => call'[x] = call[x]) /\ call'[t] = r
  BY <1>3
<1>5. \A x \in Tabs : /\ Bringing(x)' <=> Bringing(x)
                      /\ call'[x].sid = call[x].sid /\ call'[x].user = call[x].user
                      /\ call'[x].role = call[x].role /\ call'[x].raced = call[x].raced
  BY <1>1, <1>2, <1>4 DEF Bringing
<1>6. \A v : Evicting(v)' <=> Evicting(v)
  BY <1>1, <1>2, <1>4, EvictingStays DEF EvictPoints
<1>7. \A q \in Sids : /\ Tracked(q)' <=> Tracked(q)
                      /\ Brought(q)' <=> Brought(q)
                      /\ Stored(q) => Stored(q)' \/ q = s
  BY <1>1, <1>4, <1>5 DEF Tracked, Given, Brought, Stored
<1>8. ASSUME NEW q \in Sids, Tracked(q)
      PROVE  /\ Filed(q) => Filed(q)'
             /\ Lasting(q) => Lasting(q)'
             /\ Justified(q) => Justified(q)'
  <2>1. owner[q] \in Users
    BY <1>8 DEF Tracked, TypeInv, TypeOK, Owned
  <2>2. Filed(q) => Filed(q)'
    BY <1>1, <1>7, <2>1 DEF Filed
  <2>3. indexTtl[owner[q]] <= indexTtl'[owner[q]]
    BY <1>1, <2>1
  <2>4. indexTtl[owner[q]] \in Nat /\ indexTtl'[owner[q]] \in Nat /\ ttl[q] \in Nat
    BY <1>1, <2>1
  <2>5. Lasting(q) => Lasting(q)'
    BY <1>1, <1>7, <2>3, <2>4 DEF Lasting
  <2>6. QED
    BY <1>1, <1>6, <2>2, <2>5 DEF Justified, Stale
<1>9. LoginsCurrent'
  BY <1>1, <1>4, <1>5, <1>6 DEF SessionInv, LoginsCurrent, LoginPoints
<1>10. AllListed'
  <2>1. \A x \in Tabs : call'[x].at \in {"listed", "emptied"} => call'[x] = call[x]
    BY <1>2, <1>4
  <2>2. QED
    BY <1>1, <1>7, <2>1 DEF SessionInv, AllListed
<1>11. \A v \in Users : \A q \in index'[v] : q \in index[v] \/ owner[q] = v
  BY <1>1
<1>12. \A b \in Browsers : cookie'[b] = cookie[b]
  BY <1>1
<1>13. QED
  BY <1>1, <1>5, <1>7, <1>8, <1>9, <1>10, <1>11, <1>12, SessionFrame

\* The expiry of the index, and the answer that gives the session to a browser.
LEMMA SessionAnswered ==
  ASSUME TypeInv, TypeInv', SessionInv, NEW t \in Tabs, AnswerLogin(t)
  PROVE  SessionInv'
<1> USE DEF users, store, tokens
<1> DEFINE u == call[t].user  s == call[t].sid
<1> /\ None \notin Users \cup Sids \cup Tokens /\ registered \subseteq Users
    /\ call \in [Tabs -> Call] /\ index \in [Users -> SUBSET Sids]
    /\ indexTtl \in [Users -> 0..Persistent] /\ ttl \in [Sids -> 0..SessionTTL]
    /\ Persistent \in Nat /\ SessionTTL \in Nat
    /\ cookie \in [Browsers -> Sids \cup {None}] /\ BrowserOf \in [Tabs -> Browsers]
  BY AccountsAssumption DEF TypeInv, TypeOK, Call, Points, Persistent
<1>1. /\ call[t].at = "indexed" /\ u \in registered /\ s \in Sids /\ owner[s] = u /\ Bringing(t)
      /\ indexTtl' = IF index[u] # {} THEN [indexTtl EXCEPT ![u] = SessionTTL] ELSE indexTtl
      /\ \A b \in Browsers : cookie'[b] \in {cookie[b], s}
      /\ escaped' = IF call[t].raced THEN escaped \cup {s} ELSE escaped
      /\ UNCHANGED <<role, active, ttl, owner, granted, index, renewed>>
  BY DEF AnswerLogin, At, TypeInv, CallsNamed, Named, ResetPoints, SessionInv, Recorded,
     Bringing
<1>2. call'[t] = Idle /\ \A x \in Tabs : x # t => call'[x] = call[x]
  BY DEF AnswerLogin, Return
<1>3. \A x \in Tabs : Bringing(x)' <=> x # t /\ Bringing(x)
  BY <1>2, IdleTyped DEF Bringing
<1>4. \A v : Evicting(v)' <=> Evicting(v)
  BY <1>1, <1>2, IdleTyped, EvictingStays DEF EvictPoints
<1>5. ASSUME NEW q \in Sids, Tracked(q)' PROVE Tracked(q)
  <2>1. Given(q)
    BY <1>1, <1>2, <1>3, <1>5 DEF Tracked, Given
  <2>2. QED
    BY <1>1, <1>5, <2>1 DEF Tracked
<1>6. ASSUME NEW q \in Sids, Tracked(q)'
      PROVE  /\ Tracked(q)
             /\ Filed(q) => Filed(q)'
             /\ Lasting(q) => Lasting(q)'
             /\ Justified(q) => Justified(q)'
  <2>1. owner[q] \in Users /\ Tracked(q) /\ Filed(q) /\ Lasting(q)
    BY <1>5, <1>6 DEF Tracked, TypeInv, TypeOK, Owned, SessionInv, TrackedInPlace
  <2>2. Stored(q) => Stored(q)'
    BY <1>1, <1>2 DEF Stored
  <2>3. Filed(q)'
    BY <1>1, <2>1, <2>2 DEF Filed
  <2>4. ttl[q] <= SessionTTL
    OBVIOUS
  <2>5. Lasting(q)'
    <3>1. CASE owner[q] = u /\ index[u] # {}
      BY <1>1, <2>1, <2>4, <3>1 DEF Lasting
    <3>2. CASE ~(owner[q] = u /\ index[u] # {})
      <4>1. indexTtl'[owner[q]] = indexTtl[owner[q]]
        BY <1>1, <2>1, <3>2
      <4>2. q = s => Stored(q)
        BY <1>1, <2>1, <3>2 DEF Filed
      <4>3. q # s
        BY <1>1, <4>2 DEF Stored, SessionInv, BroughtOnce, Bringing
      <4>4. Brought(q) => Brought(q)'
        BY <1>2, <1>3, <4>3 DEF Brought
      <4>5. QED
        BY <1>1, <2>1, <4>1, <4>4 DEF Lasting
    <3>3. QED
      BY <3>1, <3>2
  <2>6. Justified(q) => Justified(q)'
    BY <1>1, <1>4 DEF Justified, Stale
  <2>7. QED
    BY <2>1, <2>3, <2>5, <2>6
<1>7. LoginsCurrent'
  <2>1. Idle.at \notin LoginPoints
    BY IdleTyped DEF LoginPoints
  <2>2. QED
    BY <1>1, <1>2, <1>4, <2>1 DEF SessionInv, LoginsCurrent
<1>8. AllListed'
  <2>1. \A x \in Tabs : call'[x].at \in {"listed", "emptied"} => call'[x] = call[x]
    BY <1>2, IdleTyped
  <2>2. QED
    BY <1>1, <1>5, <2>1 DEF SessionInv, AllListed
<1>9. \A b \in Browsers : cookie'[b] # cookie[b] =>
        \E x \in Tabs : Bringing(x) /\ ~Bringing(x)' /\ cookie'[b] = call[x].sid
  BY <1>1, <1>3
<1>10. \A x \in Tabs : Bringing(x)' =>
         /\ Bringing(x) /\ call'[x].sid = call[x].sid
         /\ call'[x].user = call[x].user /\ call'[x].role = call[x].role
  BY <1>2, <1>3
<1>11. \A v \in Users : \A q \in index'[v] : q \in index[v]
  BY <1>1
<1>12. QED
  BY <1>1, <1>6, <1>7, <1>8, <1>9, <1>10, <1>11, SessionFrame

\* Changing a user: an eviction starts, or the user is enabled again.
LEMMA SessionUserChanged ==
  ASSUME TypeInv, TypeInv', SessionInv, NEW t \in Tabs, UpdateUser(t)
  PROVE  SessionInv'
<1> USE DEF users, store, tokens
<1> PICK u : u = call[t].user
  OBVIOUS
<1> DEFINE change == call[t].change  own == [call[t] EXCEPT !.at = "updated", !.sid = None]
<1> /\ registered \subseteq Users /\ call \in [Tabs -> Call]
    /\ role \in [Users -> Roles] /\ active \in [Users -> BOOLEAN]
  BY DEF TypeInv, TypeOK, Call, Points
<1>1. /\ call[t].at = "checked" /\ u \in Users
      /\ role' = IF change \in Roles THEN [role EXCEPT ![u] = change] ELSE role
      /\ active' = IF change \in Roles THEN active ELSE [active EXCEPT ![u] = change = "enable"]
      /\ UNCHANGED <<ttl, owner, granted, index, indexTtl, cookie, renewed, escaped>>
  BY DEF UpdateUser, UpdateUserById, At, TypeInv, CallsNamed, Named, ResetPoints
<1>2. own.at = "updated" /\ own.user = u
  BY DEF Call
<1> HIDE DEF own
<1>3. \/ /\ call'[t] = own
         /\ \A x \in Tabs : x # t => call'[x] =
              IF call[x].at \in LoginPoints /\ call[x].user = u
              THEN [call[x] EXCEPT !.raced = TRUE] ELSE call[x]
      \/ /\ change = "enable" /\ call'[t] = Idle
         /\ \A x \in Tabs : x # t => call'[x] = call[x]
  BY DEF UpdateUser, Evicts, own
<1>4. \A x \in Tabs : x # t =>
        /\ call'[x].at = call[x].at /\ call'[x].user = call[x].user
        /\ call'[x].sid = call[x].sid /\ call'[x].role = call[x].role
        /\ call[x].raced => call'[x].raced
        /\ call[x].at \notin LoginPoints => call'[x] = call[x]
  <2>1. \A x \in Tabs : LET d == [call[x] EXCEPT !.raced = TRUE] IN
          /\ d.at = call[x].at /\ d.user = call[x].user /\ d.sid = call[x].sid
          /\ d.role = call[x].role /\ d.raced
    BY DEF Call
  <2>2. QED
    BY <1>3, <2>1
<1>5. call'[t].at \in {"updated", "idle"}
  BY <1>2, <1>3, IdleTyped
<1>6. \A x \in Tabs : Bringing(x)' <=> Bringing(x)
  BY <1>1, <1>4, <1>5 DEF Bringing
<1>7. \A x \in Tabs : Bringing(x) => x # t
  BY <1>1 DEF Bringing
<1>8. \A q \in Sids : /\ Tracked(q)' => Tracked(q)
                      /\ Brought(q) => Brought(q)'
                      /\ Stored(q) => Stored(q)'
  BY <1>1, <1>4, <1>6, <1>7 DEF Tracked, Given, Brought, Stored
<1>9. \A v : /\ Evicting(v) => Evicting(v)'
             /\ Evicting(v)' => Evicting(v) \/ v = u
             /\ Evicting(u)' \/ change = "enable"
  <2>1. call[t].at \notin EvictPoints
    BY <1>1 DEF EvictPoints
  <2>2. call'[t].at \in EvictPoints => call'[t].user = u
    BY <1>2, <1>3, IdleTyped DEF EvictPoints
  <2>3. call'[t].at \in EvictPoints \/ change = "enable"
    BY <1>2, <1>3 DEF EvictPoints
  <2>4. QED
    BY <1>4, <2>1, <2>2, <2>3 DEF Evicting
<1>10. ASSUME NEW q \in Sids, Tracked(q)', Justified(q) PROVE Justified(q)'
  <2>1. owner[q] \in Users
    BY <1>8, <1>10 DEF Tracked, TypeInv, TypeOK, Owned
  <2>2. CASE Evicting(u)' /\ owner[q] = u
    BY <1>1, <2>2 DEF Justified
  <2>3. CASE owner[q] # u
    <3>1. role'[owner[q]] = role[owner[q]] /\ active'[owner[q]] = active[owner[q]]
      BY <1>1, <2>1, <2>3
    <3>2. QED
      BY <1>1, <1>9, <1>10, <3>1 DEF Justified, Stale
  <2>4. CASE change = "enable"
    <3>1. role'[owner[q]] = role[owner[q]] /\ (active[owner[q]] => active'[owner[q]])
      BY <1>1, <2>1, <2>4 DEF Roles
    <3>2. QED
      BY <1>1, <1>9, <1>10, <3>1 DEF Justified, Stale
  <2>5. QED
    BY <1>9, <2>2, <2>3, <2>4
<1>11. ASSUME NEW q \in Sids, Tracked(q)'
       PROVE  /\ Tracked(q)
              /\ Filed(q) => Filed(q)'
              /\ Lasting(q) => Lasting(q)'
              /\ Justified(q) => Justified(q)'
  BY <1>1, <1>8, <1>10, <1>11 DEF Filed, Lasting
<1>12. LoginsCurrent'
  <2> SUFFICES ASSUME NEW x \in Tabs, NEW v, v = call'[x].user,
                      call'[x].at \in LoginPoints, ~call'[x].raced
               PROVE  ~Evicting(v)' /\ call'[x].role = role'[v] /\ active'[v]
    BY DEF LoginsCurrent
  <2>1. /\ x # t /\ call[x].at \in LoginPoints /\ ~call[x].raced
        /\ v = call[x].user /\ v \in Users
    BY <1>4, <1>5 DEF LoginPoints, TypeInv, CallsNamed, Named, ResetPoints
  <2>2. /\ ~Evicting(v) /\ call'[x].role = role[v] /\ active[v]
    BY <1>4, <2>1 DEF SessionInv, LoginsCurrent
  <2>3. CASE v # u
    BY <1>1, <1>9, <2>1, <2>2, <2>3
  <2>4. CASE v = u
    <3>1. change = "enable" /\ call'[t] = Idle /\ \A y \in Tabs : y # t => call'[y] = call[y]
      <4>1. [call[x] EXCEPT !.raced = TRUE].raced
        BY DEF Call
      <4>2. QED
        BY <1>3, <2>1, <2>4, <4>1
    <3>2. ~Evicting(u)'
      BY <1>1, <2>2, <2>4, <3>1, IdleTyped DEF Evicting, EvictPoints
    <3>3. role'[u] = role[u] /\ active'[u]
      BY <1>1, <3>1 DEF Roles
    <3>4. QED
      BY <2>1, <2>2, <2>4, <3>1, <3>2, <3>3
  <2>5. QED
    BY <2>3, <2>4
<1>13. AllListed'
  <2>1. \A x \in Tabs : call'[x].at \in {"listed", "emptied"} => call'[x] = call[x]
    BY <1>4, <1>5 DEF LoginPoints
  <2>2. QED
    BY <1>1, <1>8, <2>1 DEF SessionInv, AllListed
<1>14. \A x \in Tabs : Bringing(x)' =>
         /\ Bringing(x) /\ call'[x].sid = call[x].sid
         /\ call'[x].user = call[x].user /\ call'[x].role = call[x].role
  BY <1>4, <1>6, <1>7
<1>15. /\ \A b \in Browsers : cookie'[b] = cookie[b]
       /\ \A v \in Users : \A q \in index'[v] : q \in index[v]
  BY <1>1
<1>16. QED
  BY <1>1, <1>11, <1>12, <1>13, <1>14, <1>15, SessionFrame

\* Listing, deleting, and emptying the index: the three steps of an eviction.
LEMMA SessionEvicted ==
  ASSUME TypeInv, TypeInv', SessionInv, NEW t \in Tabs,
         ListSessions(t) \/ DeleteSessions(t) \/ DeleteIndex(t)
  PROVE  SessionInv'
<1> USE DEF users, store, tokens
<1> DEFINE u == call[t].user
<1> /\ registered \subseteq Users /\ call \in [Tabs -> Call]
    /\ index \in [Users -> SUBSET Sids] /\ indexTtl \in [Users -> 0..Persistent]
  BY DEF TypeInv, TypeOK, Call, Points
<1>1. /\ call[t].at \in EvictPoints /\ u \in Users
      /\ UNCHANGED <<role, active, owner, granted, cookie, renewed, escaped>>
      /\ \A x \in Tabs : x # t => call'[x] = call[x]
  BY DEF ListSessions, DeleteSessions, DeleteIndex, At, EvictPoints, Return, TypeInv,
     CallsNamed, Named, ResetPoints
<1>2. /\ ListSessions(t) => /\ call[t].at = "updated" /\ call'[t].at = "listed"
                            /\ call'[t].members = index[u] /\ call'[t].user = u
                            /\ UNCHANGED <<ttl, index, indexTtl>>
      /\ DeleteSessions(t) => /\ call[t].at = "listed" /\ call'[t].at = "emptied"
                              /\ call'[t].user = u /\ UNCHANGED <<index, indexTtl>>
                              /\ ttl' = [s \in Sids |-> IF s \in call[t].members THEN 0 ELSE ttl[s]]
      /\ DeleteIndex(t) => /\ call[t].at = "emptied" /\ call'[t].at = "idle" /\ UNCHANGED ttl
                           /\ index' = [index EXCEPT ![u] = {}]
                           /\ \A v \in Users \ {u} : indexTtl'[v] = indexTtl[v]
  <2>1. CASE ListSessions(t)
    <3>1. LET r == [call[t] EXCEPT !.at = "listed", !.members = index[u]] IN
            r.at = "listed" /\ r.members = index[u] /\ r.user = u
      BY DEF Call
    <3>2. call'[t] = [call[t] EXCEPT !.at = "listed", !.members = index[u]]
      BY <2>1 DEF ListSessions
    <3>3. call[t].at = "updated" /\ UNCHANGED <<ttl, index, indexTtl>>
      BY <2>1 DEF ListSessions, At
    <3>4. QED
      BY <2>1, <3>1, <3>2, <3>3 DEF DeleteSessions, DeleteIndex, At
  <2>2. CASE DeleteSessions(t)
    <3>1. LET r == [call[t] EXCEPT !.at = "emptied", !.members = {}] IN
            r.at = "emptied" /\ r.user = u
      BY DEF Call
    <3>2. call'[t] = [call[t] EXCEPT !.at = "emptied", !.members = {}]
      BY <2>2 DEF DeleteSessions
    <3>3. /\ call[t].at = "listed" /\ UNCHANGED <<index, indexTtl>>
          /\ ttl' = [s \in Sids |-> IF s \in call[t].members THEN 0 ELSE ttl[s]]
      BY <2>2 DEF DeleteSessions, At
    <3>4. QED
      BY <2>2, <3>1, <3>2, <3>3 DEF ListSessions, DeleteIndex, At
  <2>3. CASE DeleteIndex(t)
    <3>1. call[t].at = "emptied" /\ call'[t].at = "idle" /\ UNCHANGED ttl
      BY <2>3, IdleTyped DEF DeleteIndex, At, Return
    <3>2. /\ index' = [index EXCEPT ![u] = {}]
          /\ \A v \in Users \ {u} : indexTtl'[v] = indexTtl[v]
      BY <2>3, <1>1 DEF DeleteIndex, RemoveFromIndex
    <3>3. QED
      BY <2>3, <3>1, <3>2 DEF ListSessions, DeleteSessions, At
  <2>4. QED
    BY <2>1, <2>2, <2>3
<1>3. call'[t].at \in EvictPoints \cup {"idle"} /\ (call'[t].at \in EvictPoints => call'[t].user = u)
  BY <1>2 DEF EvictPoints
<1>4. \A x \in Tabs : /\ Bringing(x)' <=> Bringing(x)
                      /\ Bringing(x) => x # t /\ call'[x] = call[x]
  BY <1>1, <1>3 DEF Bringing, EvictPoints
<1>5. ASSUME NEW q \in Sids, Tracked(q)'
      PROVE  /\ Tracked(q) /\ owner[q] \in Users /\ ttl'[q] = ttl[q]
             /\ DeleteIndex(t) => owner[q] # u
  <2>1. Given(q)
    BY <1>1, <1>4, <1>5 DEF Tracked, Given
  <2>2. ttl'[q] = ttl[q]
    BY <1>2, <1>5 DEF Tracked
  <2>3. Tracked(q)
    BY <1>1, <1>5, <2>1, <2>2 DEF Tracked
  <2>4. owner[q] \in Users
    BY <2>3 DEF Tracked, TypeInv, TypeOK, Owned
  <2>5. DeleteIndex(t) => owner[q] # u
    BY <1>2, <2>3 DEF SessionInv, AllListed
  <2>6. QED
    BY <2>2, <2>3, <2>4, <2>5
<1>6. \A q \in Sids : (Stored(q) => Stored(q)') /\ (Brought(q) => Brought(q)')
  <2>1. \A x \in Tabs : call[x].at = "stored" => call'[x] = call[x]
    BY <1>4 DEF Bringing
  <2>2. QED
    BY <1>4, <2>1 DEF Stored, Brought
<1>7. \A v : /\ Evicting(v)' => Evicting(v)
             /\ Evicting(v) => Evicting(v)' \/ (v = u /\ DeleteIndex(t))
  <2>1. ~DeleteIndex(t) => call'[t].at \in EvictPoints
    BY <1>2 DEF EvictPoints
  <2>2. QED
    BY <1>1, <1>3, <2>1 DEF Evicting
<1>8. ASSUME NEW q \in Sids, Tracked(q)'
      PROVE  /\ Tracked(q)
             /\ Filed(q) => Filed(q)'
             /\ Lasting(q) => Lasting(q)'
             /\ Justified(q) => Justified(q)'
  <2>1. index'[owner[q]] = index[owner[q]] /\ indexTtl'[owner[q]] = indexTtl[owner[q]]
    BY <1>2, <1>5, <1>8
  <2>2. Filed(q) => Filed(q)'
    BY <1>1, <1>6, <2>1 DEF Filed
  <2>3. Lasting(q) => Lasting(q)'
    BY <1>1, <1>5, <1>6, <1>8, <2>1 DEF Lasting
  <2>4. Justified(q) => Justified(q)'
    BY <1>1, <1>5, <1>7, <1>8 DEF Justified, Stale
  <2>5. QED
    BY <1>5, <1>8, <2>2, <2>3, <2>4
<1>9. LoginsCurrent'
  <2>1. \A x \in Tabs : call'[x].at \in LoginPoints => x # t /\ call'[x] = call[x]
    BY <1>1, <1>3 DEF LoginPoints, EvictPoints
  <2>2. QED
    BY <1>1, <1>7, <2>1 DEF SessionInv, LoginsCurrent
<1>10. AllListed'
  <2> SUFFICES ASSUME NEW x \in Tabs, NEW q \in Sids, Tracked(q)', owner[q] = call'[x].user
               PROVE  (call'[x].at = "listed" => q \in call'[x].members) /\ call'[x].at # "emptied"
    BY <1>1 DEF AllListed
  <2>1. CASE x # t
    BY <1>1, <1>5, <2>1 DEF SessionInv, AllListed
  <2>2. CASE x = t /\ ListSessions(t)
    <3>1. Tracked(q) /\ owner[q] = u /\ Filed(q) /\ Evicting(u)
      BY <1>1, <1>2, <1>5, <2>2 DEF SessionInv, TrackedInPlace, Evicting
    <3>2. ASSUME NEW y \in Tabs, call[y].at = "stored", call[y].sid = q PROVE FALSE
      <4>1. Bringing(y) /\ call[y].user = u
        BY <3>1, <3>2 DEF Bringing, SessionInv, Recorded
      <4>2. ~call[y].raced
        BY <3>1, <3>2, <4>1 DEF Tracked, Given, SessionInv, BroughtOnce
      <4>3. QED
        BY <3>1, <3>2, <4>1, <4>2 DEF SessionInv, LoginsCurrent, LoginPoints
    <3>3. q \in index[u]
      BY <3>1, <3>2 DEF Filed, Stored
    <3>4. QED
      BY <1>2, <2>2, <3>3
  <2>3. CASE x = t /\ DeleteSessions(t)
    <3>1. q \in call[t].members
      BY <1>2, <1>5, <2>3 DEF SessionInv, AllListed
    <3>2. QED
      BY <1>2, <2>3, <3>1 DEF Tracked
  <2>4. CASE x = t /\ DeleteIndex(t)
    BY <1>2, <2>4
  <2>5. QED
    BY <2>1, <2>2, <2>3, <2>4
<1>11. \A x \in Tabs : Bringing(x)' =>
         /\ Bringing(x) /\ call'[x].sid = call[x].sid
         /\ call'[x].user = call[x].user /\ call'[x].role = call[x].role
  BY <1>4
<1>12. /\ \A b \in Browsers : cookie'[b] = cookie[b]
       /\ \A v \in Users : \A q \in index'[v] : q \in index[v]
  BY <1>1, <1>2
<1>13. QED
  BY <1>1, <1>8, <1>9, <1>10, <1>11, <1>12, SessionFrame

\* A process that ends: an eviction gives its sessions up, a login its own.
LEMMA SessionDied ==
  ASSUME TypeInv, TypeInv', SessionInv, NEW t \in Tabs, Die(t)
  PROVE  SessionInv'
<1> USE DEF users, store, tokens
<1> PICK u : u = call[t].user
  OBVIOUS
<1>1. /\ UNCHANGED <<role, active, ttl, owner, granted, index, indexTtl, cookie, renewed>>
      /\ escaped \subseteq escaped'
      /\ call[t].at \in EvictPoints => \A q \in Sids : owner[q] = u => q \in escaped'
  BY DEF Die
<1>2. /\ \A x \in Tabs : x # t => call'[x] = call[x]
      /\ call'[t].at = "idle"
  BY IdleTyped DEF Die, Return, TypeInv, TypeOK
<1>3. \A x \in Tabs : Bringing(x)' <=> x # t /\ Bringing(x)
  BY <1>2 DEF Bringing
<1>4. \A v : Evicting(v)' => Evicting(v)
  BY <1>2 DEF Evicting, EvictPoints
<1>5. ASSUME NEW q \in Sids, Tracked(q)'
      PROVE  /\ Tracked(q)
             /\ Filed(q) => Filed(q)'
             /\ Lasting(q) => Lasting(q)'
             /\ Justified(q) => Justified(q)'
  <2>1. Tracked(q)
    <3>1. Given(q)
      BY <1>1, <1>2, <1>3, <1>5 DEF Tracked, Given
    <3>2. QED
      BY <1>1, <1>5, <3>1 DEF Tracked
  <2>2. ASSUME Bringing(t), call[t].sid = q PROVE FALSE
    <3>1. (\E b \in Browsers : cookie[b] = q) \/ \E x \in Tabs : x # t /\ Bringing(x) /\ call[x].sid = q
      BY <1>1, <1>2, <1>3, <1>5 DEF Tracked, Given
    <3>2. QED
      BY <2>2, <3>1 DEF SessionInv, BroughtOnce
  <2>3. (Stored(q) => Stored(q)') /\ (Brought(q) => Brought(q)')
    BY <1>2, <1>3, <2>2 DEF Stored, Brought, Bringing
  <2>4. Evicting(owner[q]) => (call[t].at \in EvictPoints => owner[q] # u)
    BY <1>1, <1>5 DEF Tracked
  <2>5. \A v : Evicting(v) /\ (call[t].at \in EvictPoints => v # u) => Evicting(v)'
    BY <1>2 DEF Evicting
  <2>6. QED
    BY <1>1, <2>1, <2>3, <2>4, <2>5 DEF Filed, Lasting, Justified, Stale
<1>6. LoginsCurrent'
  BY <1>1, <1>2, <1>4 DEF SessionInv, LoginsCurrent, LoginPoints
<1>7. AllListed'
  BY <1>1, <1>2, <1>5 DEF SessionInv, AllListed
<1>8. \A x \in Tabs : Bringing(x)' =>
        /\ Bringing(x) /\ call'[x].sid = call[x].sid
        /\ call'[x].user = call[x].user /\ call'[x].role = call[x].role
  BY <1>2, <1>3
<1>9. /\ \A b \in Browsers : cookie'[b] = cookie[b]
      /\ \A v \in Users : \A q \in index'[v] : q \in index[v]
  BY <1>1
<1>10. QED
  BY <1>1, <1>5, <1>6, <1>7, <1>8, <1>9, SessionFrame

\* Time: a session that leaves with its index was renewed, or is being entered,
\* or has no more life than the index.
LEMMA SessionAged ==
  ASSUME TypeInv, TypeInv', SessionInv, Tick
  PROVE  SessionInv'
<1> USE DEF users, store, tokens
<1> DEFINE gone == {u \in Users : indexTtl[u] = 1}
           entering == {call[t].sid : t \in {x \in Tabs : call[x].at = "indexed"}}
           lost == (UNION {index[u] : u \in gone}) \cap (renewed \cup entering)
<1> /\ ttl \in [Sids -> 0..SessionTTL] /\ SessionTTL \in Nat \ {0}
    /\ indexTtl \in [Users -> 0..Persistent] /\ index \in [Users -> SUBSET Sids]
  BY AccountsAssumption DEF TypeInv, TypeOK
<1>1. /\ ttl' = [s \in Sids |-> IF Live(s) THEN ttl[s] - 1 ELSE 0]
      /\ index' = [u \in Users |-> IF u \in gone THEN {} ELSE index[u]]
      /\ indexTtl' = [u \in Users |-> IF indexTtl[u] \in 1..SessionTTL THEN indexTtl[u] - 1
                                      ELSE indexTtl[u]]
      /\ escaped' = escaped \cup lost
      /\ UNCHANGED <<role, active, owner, granted, cookie, call, renewed>>
  BY DEF Tick
<1> HIDE DEF lost
<1>2. \A x \in Tabs : Bringing(x)' <=> Bringing(x)
  BY <1>1 DEF Bringing
<1>3. \A v : Evicting(v)' <=> Evicting(v)
  BY <1>1 DEF Evicting
<1>4. \A q \in Sids : (Stored(q)' <=> Stored(q)) /\ (Brought(q)' <=> Brought(q))
  BY <1>1, <1>2 DEF Stored, Brought
<1>5. ASSUME NEW q \in Sids, Tracked(q)'
      PROVE  /\ Tracked(q)
             /\ Filed(q) => Filed(q)'
             /\ Lasting(q) => Lasting(q)'
             /\ Justified(q) => Justified(q)'
  <2>1. Given(q) /\ q \notin escaped /\ q \notin lost
    BY <1>1, <1>2, <1>5 DEF Tracked, Given
  <2>2. ttl[q] > 1 /\ ttl'[q] = ttl[q] - 1
    BY <1>1, <1>5 DEF Tracked, Live
  <2>3. Tracked(q)
    BY <2>1, <2>2 DEF Tracked
  <2>4. Filed(q) /\ Lasting(q) /\ owner[q] \in Users
    BY <2>3 DEF SessionInv, TrackedInPlace, TypeInv, TypeOK, Owned, Tracked
  <2>5. Filed(q)'
    <3>1. CASE Stored(q)
      BY <1>4, <3>1 DEF Filed
    <3>2. CASE ~Stored(q)
      <4>1. q \in index[owner[q]]
        BY <2>4, <3>2 DEF Filed
      <4>2. owner[q] \notin gone
        <5> SUFFICES ASSUME owner[q] \in gone PROVE FALSE
          OBVIOUS
        <5>1. q \notin renewed /\ q \notin entering
          BY <2>1, <4>1 DEF lost
        <5>2. ~Brought(q)
          BY <3>2, <5>1 DEF Brought, Bringing, Stored
        <5>3. QED
          BY <2>2, <2>4, <5>1, <5>2 DEF Lasting
      <4>3. QED
        BY <1>1, <2>4, <4>1, <4>2 DEF Filed
    <3>3. QED
      BY <3>1, <3>2
  <2>6. Lasting(q)'
    <3>1. CASE ttl[q] <= indexTtl[owner[q]]
      <4>1. indexTtl'[owner[q]] \in {indexTtl[owner[q]], indexTtl[owner[q]] - 1}
        BY <1>1, <2>4
      <4>2. indexTtl[owner[q]] \in Nat
        BY <2>4 DEF Persistent
      <4>3. ttl'[q] <= indexTtl'[owner[q]]
        BY <2>2, <3>1, <4>1, <4>2
      <4>4. QED
        BY <1>1, <4>3 DEF Lasting
    <3>2. QED
      BY <1>1, <1>4, <2>4, <3>1 DEF Lasting
  <2>7. Justified(q) => Justified(q)'
    BY <1>1, <1>3 DEF Justified, Stale
  <2>8. QED
    BY <2>3, <2>5, <2>6, <2>7
<1>6. LoginsCurrent'
  BY <1>1, <1>3 DEF SessionInv, LoginsCurrent
<1>7. AllListed'
  BY <1>1, <1>5 DEF SessionInv, AllListed
<1>8. \A x \in Tabs : Bringing(x)' =>
        /\ Bringing(x) /\ call'[x].sid = call[x].sid
        /\ call'[x].user = call[x].user /\ call'[x].role = call[x].role
  BY <1>1, <1>2
<1>9. /\ \A b \in Browsers : cookie'[b] = cookie[b]
      /\ \A v \in Users : \A q \in index'[v] : q \in index[v]
  BY <1>1
<1>10. QED
  BY <1>1, <1>5, <1>6, <1>7, <1>8, <1>9, SessionFrame

\* The inductive step, action by action.
LEMMA SessionStep == TypeInv /\ TypeInv' /\ SessionInv /\ [Next]_vars => SessionInv'
<1> SUFFICES ASSUME TypeInv, TypeInv', SessionInv, [Next]_vars PROVE SessionInv'
  OBVIOUS
<1> /\ call \in [Tabs -> Call] /\ cookie \in [Browsers -> Sids \cup {None}]
    /\ BrowserOf \in [Tabs -> Browsers]
  BY AccountsAssumption DEF TypeInv, TypeOK, Call, Points
<1>1. ASSUME NEW t \in Tabs, Logout(t) PROVE SessionInv'
  <2>1. PICK s \in Sids \cup {None} : Destroy(s)
    BY <1>1, AccountsAssumption DEF Logout, Destroy, Current
  <2>2. \A b \in Browsers : cookie'[b] \in {cookie[b], None}
    BY <1>1 DEF Logout
  <2>3. UNCHANGED <<role, active, owner, granted, escaped, renewed, call>>
    BY <1>1 DEF Logout, users
  <2>4. QED
    BY <2>1, <2>2, <2>3, SessionDestroyed
<1>2. ASSUME NEW t \in Tabs, DestroyOld(t) PROVE SessionInv'
  <2>1. call[t].sid \in Sids \cup {None} /\ Destroy(call[t].sid) /\ call[t].at = "verified"
    BY <1>2 DEF DestroyOld, At, Call
  <2>2. LET r == [call[t] EXCEPT !.at = "fresh", !.sid = None] IN
          r.at = "fresh" /\ r.user = call[t].user /\ r.role = call[t].role /\ r.raced = call[t].raced
    BY DEF Call
  <2>3. /\ call'[t] = [call[t] EXCEPT !.at = "fresh", !.sid = None]
        /\ \A x \in Tabs : x # t => call'[x] = call[x]
    BY <1>2 DEF DestroyOld
  <2>4. \A x \in Tabs : call[x].at \in Busy \/ call'[x].at \in Busy => call'[x] = call[x]
    BY <2>1, <2>2, <2>3 DEF Busy, EvictPoints
  <2>5. \A x \in Tabs : call'[x].at \in LoginPoints =>
          /\ call[x].at \in LoginPoints /\ call'[x].user = call[x].user
          /\ call'[x].role = call[x].role /\ call'[x].raced = call[x].raced
    BY <2>1, <2>2, <2>3 DEF LoginPoints
  <2>6. /\ UNCHANGED <<role, active, owner, granted, escaped, renewed>>
        /\ \A b \in Browsers : cookie'[b] \in {cookie[b], None}
    BY <1>2 DEF DestroyOld, users
  <2>7. QED
    BY <2>1, <2>4, <2>5, <2>6, SessionDestroyed
<1>3. QED
  BY <1>1, <1>2, SessionElsewhere, SessionCreated, SessionIndexed, SessionAnswered,
     SessionUserChanged, SessionEvicted, SessionDied, SessionAged
     DEF Next, StorefrontLogin, ConsoleLogin

\* At the start nobody is signed in.
LEMMA SessionStart == Init => SessionInv
<1> SUFFICES ASSUME Init PROVE SessionInv
  OBVIOUS
<1>1. \A t \in Tabs : ~Bringing(t) /\ call[t].at \notin LoginPoints
  BY IdleTyped DEF Init, Bringing, LoginPoints
<1>2. \A s \in Sids : ~Tracked(s)
  BY DEF Init, Tracked
<1>3. Recorded
  BY <1>1 DEF Init, Recorded
<1>4. QED
  BY <1>1, <1>2, <1>3
     DEF SessionInv, BroughtOnce, LoginsCurrent, AllListed, TrackedInPlace

\* A browser keeps a session with rights its user no longer has only while the
\* eviction runs, or when the session escaped it in one of the ways the code
\* leaves open, however logins, evictions, renewals and crashes overlap.
THEOREM StaleSessionsEscape == Spec => []StaleSessionEscaped
<1>1. TypeInv /\ SessionInv => StaleSessionEscaped
  <2> SUFFICES ASSUME TypeInv, SessionInv, NEW b \in Browsers, NEW s, s = cookie[b],
                      s # None, ttl[s] > 0, Stale(s), s \notin escaped
               PROVE  Evicting(owner[s])
    BY DEF StaleSessionEscaped
  <2>1. s \in Sids /\ Tracked(s)
    BY DEF TypeInv, TypeOK, Tracked, Given
  <2>2. QED
    BY <2>1 DEF SessionInv, TrackedInPlace, Justified
<1>2. QED
  BY <1>1, SessionStart, SessionStep, TypeInvInit, TypeInvStep, PTL DEF Spec
=============================================================================
