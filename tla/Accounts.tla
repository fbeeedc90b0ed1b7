------------------------------ MODULE Accounts ------------------------------
(***************************************************************************)
(* Users, their sessions in Redis and their password reset tokens          *)
(* (domains/user, packages/session and the routes that use them in the two *)
(* APIs). Every statement on the database and every Redis command is a     *)
(* step of its own, so a login and the eviction of its user can overlap. A *)
(* browser has one session cookie, shared by its tabs; a tab has at most   *)
(* one request in flight. Ending one session (GET, DEL, SREM) is one step: *)
(* ids are never reused. Names, telephones and locales are left out.       *)
(***************************************************************************)
EXTENDS Naturals, FiniteSets

CONSTANTS
  Users,
  Admins,      \* the administrators of the seed data
  Sids,        \* session ids, each handed out once
  Tokens,      \* reset tokens, each handed out once
  Browsers,
  Tabs,
  BrowserOf,   \* the browser of a tab
  SessionTTL,  \* the life of a session, in ticks of Tick
  None         \* no session, no token, no user

ASSUME AccountsAssumption ==
  /\ Admins \subseteq Users /\ Admins # {}
  /\ None \notin Users \cup Sids \cup Tokens
  /\ BrowserOf \in [Tabs -> Browsers]
  /\ SessionTTL \in Nat \ {0}

VARIABLES
  registered, role, active,       \* the rows of users
  ttl, owner, granted,            \* the keys session:<id>, ttl 0 when there is none
  index, indexTtl,                \* the keys session:user:<id>, ttl 0 when there is none
  token, tokenOwner, setBy,       \* reset tokens, and the token that set a password last
  cookie,                         \* session_id of each browser
  call,                           \* the request a tab has in flight
  renewed, escaped, staleActed, spent, respent, racedTokens  \* history

users == <<registered, role, active>>
store == <<ttl, owner, granted, index, indexTtl>>
tokens == <<token, tokenOwner, setBy, spent, respent, racedTokens>>
vars == <<users, store, tokens, cookie, call, renewed, escaped, staleActed>>

Roles == {"customer", "admin"}
Changes == Roles \cup {"disable", "enable"}  \* body of PATCH /admin/users/:id
Evicts(change) == change # "enable"

Persistent == SessionTTL + 1  \* a key with no expiry

LoginPoints == {"verified", "fresh", "stored", "indexed"}
EvictPoints == {"updated", "listed", "emptied"}
ResetPoints == {"hashing", "marking"}

Idle == [at |-> "idle", user |-> None, role |-> "customer", sid |-> None,
         raced |-> FALSE, change |-> "enable", members |-> {}, token |-> None]

TypeOK ==
  /\ registered \subseteq Users
  /\ role \in [Users -> Roles] /\ active \in [Users -> BOOLEAN]
  /\ ttl \in [Sids -> 0..SessionTTL]
  /\ owner \in [Sids -> Users \cup {None}] /\ granted \in [Sids -> Roles]
  /\ index \in [Users -> SUBSET Sids] /\ indexTtl \in [Users -> 0..Persistent]
  /\ token \in [Tokens -> {"none", "valid", "expired", "used"}]
  /\ tokenOwner \in [Tokens -> Users \cup {None}] /\ setBy \in [Users -> Tokens \cup {None}]
  /\ cookie \in [Browsers -> Sids \cup {None}]
  /\ call \in [Tabs -> [at : {"idle", "checked"} \cup LoginPoints \cup EvictPoints \cup ResetPoints,
                        user : Users \cup {None}, role : Roles, sid : Sids \cup {None},
                        raced : BOOLEAN, change : Changes, members : SUBSET Sids,
                        token : Tokens \cup {None}]]
  /\ renewed \subseteq Sids /\ escaped \subseteq Sids /\ staleActed \in BOOLEAN
  /\ spent \subseteq Tokens /\ respent \subseteq Tokens /\ racedTokens \subseteq Tokens

Init ==
  /\ registered = Admins
  /\ role = [u \in Users |-> IF u \in Admins THEN "admin" ELSE "customer"]
  /\ active = [u \in Users |-> TRUE]
  /\ ttl = [s \in Sids |-> 0]
  /\ owner = [s \in Sids |-> None] /\ granted = [s \in Sids |-> "customer"]
  /\ index = [u \in Users |-> {}] /\ indexTtl = [u \in Users |-> 0]
  /\ token = [k \in Tokens |-> "none"]
  /\ tokenOwner = [k \in Tokens |-> None] /\ setBy = [u \in Users |-> None]
  /\ cookie = [b \in Browsers |-> None]
  /\ call = [t \in Tabs |-> Idle]
  /\ renewed = {} /\ escaped = {} /\ staleActed = FALSE
  /\ spent = {} /\ respent = {} /\ racedTokens = {}

Live(s) == ttl[s] > 0
At(t, point) == call[t].at = point
Return(t) == call' = [call EXCEPT ![t] = Idle]

-----------------------------------------------------------------------------
(* The session plugin, before every handler *)

Current(t) == cookie[BrowserOf[t]]
SignedIn(t) == Current(t) # None /\ ttl[Current(t)] > 0
Actor(t) == owner[Current(t)]

\* Below half of its life a session is renewed; the index of its user is not.
RenewalDue(t) == SignedIn(t) /\ 2 * ttl[Current(t)] < SessionTTL
Derive(t) ==
  /\ ttl' = IF RenewalDue(t) THEN [ttl EXCEPT ![Current(t)] = SessionTTL] ELSE ttl
  /\ renewed' = IF RenewalDue(t) THEN renewed \cup {Current(t)} ELSE renewed

\* A request that only reads, or is refused after the plugin ran.
Browse(t) ==
  /\ At(t, "idle") /\ RenewalDue(t)
  /\ Derive(t)
  /\ UNCHANGED <<users, owner, granted, index, indexTtl, tokens, cookie, call, escaped, staleActed>>

-----------------------------------------------------------------------------
(* Registration and login *)

InsertUser(u) == u \notin registered /\ registered' = registered \cup {u}

Register(t, u) ==
  /\ At(t, "idle")
  /\ InsertUser(u)
  /\ Derive(t)
  /\ UNCHANGED <<role, active, owner, granted, index, indexTtl, tokens, cookie, call,
                 escaped, staleActed>>

Evicting(u) == \E x \in Tabs : call[x].at \in EvictPoints /\ call[x].user = u

\* The right password of an account that is not disabled; the row is read here.
LoginUser(t, u) ==
  /\ At(t, "idle") /\ u \in registered /\ active[u]
  /\ call' = [call EXCEPT ![t] = [Idle EXCEPT !.at = "verified", !.user = u, !.role = role[u],
                                    !.sid = Current(t), !.raced = Evicting(u)]]
  /\ Derive(t)
  /\ UNCHANGED <<users, owner, granted, index, indexTtl, tokens, cookie, escaped, staleActed>>

StorefrontLogin(t, u) == LoginUser(t, u)

\* A customer is refused before the old session is touched.
ConsoleLogin(t, u) == role[u] = "admin" /\ LoginUser(t, u)

\* Redis removes a set with its last member.
RemoveFromIndex(u, S) ==
  /\ index' = [index EXCEPT ![u] = @ \ S]
  /\ indexTtl' = IF index[u] \subseteq S THEN [indexTtl EXCEPT ![u] = 0] ELSE indexTtl

Destroy(s) ==
  IF s # None /\ ttl[s] > 0
  THEN ttl' = [ttl EXCEPT ![s] = 0] /\ RemoveFromIndex(owner[s], {s})
  ELSE UNCHANGED <<ttl, index, indexTtl>>

DestroyOld(t) ==
  /\ At(t, "verified")
  /\ Destroy(call[t].sid)
  /\ call' = [call EXCEPT ![t].at = "fresh", ![t].sid = None]
  /\ UNCHANGED <<users, owner, granted, tokens, cookie, renewed, escaped, staleActed>>

\* SET session:<id> EX: with the role loginUser read.
CreateSession(t, s) ==
  /\ At(t, "fresh") /\ owner[s] = None
  /\ ttl' = [ttl EXCEPT ![s] = SessionTTL]
  /\ owner' = [owner EXCEPT ![s] = call[t].user]
  /\ granted' = [granted EXCEPT ![s] = call[t].role]
  /\ call' = [call EXCEPT ![t].at = "stored", ![t].sid = s]
  /\ UNCHANGED <<users, index, indexTtl, tokens, cookie, renewed, escaped, staleActed>>

\* Fault: the session is not entered in the index of its user.
IndexNothing(t) ==
  /\ At(t, "stored")
  /\ call' = [call EXCEPT ![t].at = "indexed"]
  /\ UNCHANGED <<users, store, tokens, cookie, renewed, escaped, staleActed>>

\* SADD: a new set has no expiry until the next command.
IndexSession(t) ==
  LET u == call[t].user IN
  /\ At(t, "stored")
  /\ index' = [index EXCEPT ![u] = @ \cup {call[t].sid}]
  /\ indexTtl' = IF index[u] = {} THEN [indexTtl EXCEPT ![u] = Persistent] ELSE indexTtl
  /\ call' = [call EXCEPT ![t].at = "indexed"]
  /\ UNCHANGED <<users, ttl, owner, granted, tokens, cookie, renewed, escaped, staleActed>>

\* EXPIRE of the index, and the answer with its cookie, unless it is lost.
AnswerLogin(t) ==
  LET u == call[t].user  s == call[t].sid IN
  /\ At(t, "indexed")
  /\ indexTtl' = IF index[u] # {} THEN [indexTtl EXCEPT ![u] = SessionTTL] ELSE indexTtl
  /\ \/ cookie' = [cookie EXCEPT ![BrowserOf[t]] = s]
     \/ UNCHANGED cookie
  /\ escaped' = IF call[t].raced THEN escaped \cup {s} ELSE escaped
  /\ Return(t)
  /\ UNCHANGED <<users, ttl, owner, granted, index, tokens, renewed, staleActed>>

\* The cookie goes in any case; without a session (none, or Redis did not
\* answer the plugin) nothing is destroyed.
Logout(t) ==
  /\ At(t, "idle") /\ Current(t) # None
  /\ Destroy(Current(t)) \/ UNCHANGED <<ttl, index, indexTtl>>
  /\ cookie' = [cookie EXCEPT ![BrowserOf[t]] = None]
  /\ UNCHANGED <<users, owner, granted, tokens, call, renewed, escaped, staleActed>>

-----------------------------------------------------------------------------
(* PATCH /admin/users/:id *)

IsAdmin(t) == SignedIn(t) /\ granted[Current(t)] = "admin"

\* Fault: one's own account is not refused.
PatchAnyUser(t, u, change) ==
  /\ At(t, "idle") /\ IsAdmin(t)
  /\ u \in registered
  /\ call' = [call EXCEPT ![t] = [Idle EXCEPT !.at = "checked", !.user = u, !.change = change,
                                    !.sid = Current(t)]]
  /\ Derive(t)
  /\ UNCHANGED <<users, owner, granted, index, indexTtl, tokens, cookie, escaped, staleActed>>

\* One's own account is refused.
PatchUser(t, u, change) ==
  /\ At(t, "idle") /\ IsAdmin(t)
  /\ u \in registered /\ u # Actor(t)
  /\ call' = [call EXCEPT ![t] = [Idle EXCEPT !.at = "checked", !.user = u, !.change = change,
                                    !.sid = Current(t)]]
  /\ Derive(t)
  /\ UNCHANGED <<users, owner, granted, index, indexTtl, tokens, cookie, escaped, staleActed>>

UpdateUserById(u, change) ==
  /\ role' = IF change \in Roles THEN [role EXCEPT ![u] = change] ELSE role
  /\ active' = IF change \in Roles THEN active ELSE [active EXCEPT ![u] = change = "enable"]

\* The logins of the user in flight read the row before it changed.
UpdateUser(t) ==
  LET u == call[t].user  change == call[t].change  me == owner[call[t].sid] IN
  /\ At(t, "checked")
  /\ UpdateUserById(u, change)
  /\ staleActed' = (staleActed \/ role[me] # "admin" \/ ~active[me])
  /\ call' = IF Evicts(change)
             THEN [x \in Tabs |->
                     IF x = t THEN [call[t] EXCEPT !.at = "updated", !.sid = None]
                     ELSE IF call[x].at \in LoginPoints /\ call[x].user = u
                     THEN [call[x] EXCEPT !.raced = TRUE] ELSE call[x]]
             ELSE [call EXCEPT ![t] = Idle]
  /\ UNCHANGED <<registered, store, tokens, cookie, renewed, escaped>>

\* destroyAllForUser: SMEMBERS, DEL of the sessions, DEL of the index.
ListSessions(t) ==
  /\ At(t, "updated")
  /\ call' = [call EXCEPT ![t].at = "listed", ![t].members = index[call[t].user]]
  /\ UNCHANGED <<users, store, tokens, cookie, renewed, escaped, staleActed>>

DeleteSessions(t) ==
  /\ At(t, "listed")
  /\ ttl' = [s \in Sids |-> IF s \in call[t].members THEN 0 ELSE ttl[s]]
  /\ call' = [call EXCEPT ![t].at = "emptied", ![t].members = {}]
  /\ UNCHANGED <<users, owner, granted, index, indexTtl, tokens, cookie, renewed, escaped, staleActed>>

DeleteIndex(t) ==
  /\ At(t, "emptied")
  /\ RemoveFromIndex(call[t].user, Sids)
  /\ Return(t)
  /\ UNCHANGED <<users, ttl, owner, granted, tokens, cookie, renewed, escaped, staleActed>>

-----------------------------------------------------------------------------
(* Password reset *)

InsertToken(u, k) ==
  /\ u \in registered /\ token[k] = "none"
  /\ token' = [token EXCEPT ![k] = "valid"]
  /\ tokenOwner' = [tokenOwner EXCEPT ![k] = u]

\* The row of the token; its email goes to the queue next.
ForgotPassword(t, u, k) ==
  /\ At(t, "idle")
  /\ InsertToken(u, k)
  /\ Derive(t)
  /\ UNCHANGED <<users, owner, granted, index, indexTtl, setBy, spent, respent, racedTokens,
                 cookie, call, escaped, staleActed>>

Usable(k) == token[k] = "valid"  \* neither used nor expired

\* The token is judged here, then the password is hashed.
ResetPassword(t, k) ==
  /\ At(t, "idle") /\ Usable(k)
  /\ call' = [call EXCEPT ![t] = [Idle EXCEPT !.at = "hashing", !.token = k]]
  /\ racedTokens' = IF \E x \in Tabs : call[x].token = k THEN racedTokens \cup {k} ELSE racedTokens
  /\ Derive(t)
  /\ UNCHANGED <<users, owner, granted, index, indexTtl, token, tokenOwner, setBy, spent, respent,
                 cookie, escaped, staleActed>>

SetPassword(t) ==
  LET k == call[t].token IN
  /\ At(t, "hashing")
  /\ setBy' = [setBy EXCEPT ![tokenOwner[k]] = k]
  /\ spent' = spent \cup {k}
  /\ respent' = respent \cup (spent \cap {k})
  /\ call' = [call EXCEPT ![t].at = "marking"]
  /\ UNCHANGED <<users, store, token, tokenOwner, racedTokens, cookie, renewed, escaped, staleActed>>

\* Fault: the token is not marked.
MarkNothing(t) ==
  /\ At(t, "marking")
  /\ Return(t)
  /\ UNCHANGED <<users, store, tokens, cookie, renewed, escaped, staleActed>>

MarkUsed(t) ==
  /\ At(t, "marking")
  /\ token' = [token EXCEPT ![call[t].token] = "used"]
  /\ Return(t)
  /\ UNCHANGED <<users, store, tokenOwner, setBy, spent, respent, racedTokens, cookie,
                 renewed, escaped, staleActed>>

-----------------------------------------------------------------------------
(* Time and crashes *)

\* A key without life left is gone. A set that goes takes the entries of
\* sessions that were renewed, or are being entered, with it.
Tick ==
  LET gone == {u \in Users : indexTtl[u] = 1}
      entering == {call[t].sid : t \in {x \in Tabs : call[x].at = "indexed"}}
      lost == (UNION {index[u] : u \in gone}) \cap (renewed \cup entering) IN
  /\ ttl' = [s \in Sids |-> IF Live(s) THEN ttl[s] - 1 ELSE 0]
  /\ index' = [u \in Users |-> IF u \in gone THEN {} ELSE index[u]]
  /\ indexTtl' = [u \in Users |-> IF indexTtl[u] \in 1..SessionTTL THEN indexTtl[u] - 1
                                  ELSE indexTtl[u]]
  /\ escaped' = escaped \cup lost
  /\ UNCHANGED <<users, owner, granted, tokens, cookie, call, renewed, staleActed>>

ExpireToken(k) ==
  /\ token[k] = "valid"
  /\ token' = [token EXCEPT ![k] = "expired"]
  /\ UNCHANGED <<users, store, tokenOwner, setBy, spent, respent, racedTokens, cookie, call,
                 renewed, escaped, staleActed>>

\* The process of a request ends; what an eviction has not reached stays.
Die(t) ==
  /\ ~At(t, "idle")
  /\ escaped' = IF call[t].at \in EvictPoints
                THEN escaped \cup {s \in Sids : owner[s] = call[t].user} ELSE escaped
  /\ racedTokens' = IF At(t, "marking") THEN racedTokens \cup {call[t].token} ELSE racedTokens
  /\ Return(t)
  /\ UNCHANGED <<users, store, token, tokenOwner, setBy, spent, respent, cookie, renewed, staleActed>>

Next ==
  \/ \E t \in Tabs :
       \/ Browse(t) \/ Logout(t) \/ Die(t)
       \/ DestroyOld(t) \/ IndexSession(t) \/ AnswerLogin(t)
       \/ UpdateUser(t) \/ ListSessions(t) \/ DeleteSessions(t) \/ DeleteIndex(t)
       \/ SetPassword(t) \/ MarkUsed(t)
       \/ \E u \in Users :
            \/ Register(t, u) \/ StorefrontLogin(t, u) \/ ConsoleLogin(t, u)
            \/ \E change \in Changes : PatchUser(t, u, change)
            \/ \E k \in Tokens : ForgotPassword(t, u, k)
       \/ \E s \in Sids : CreateSession(t, s)
       \/ \E k \in Tokens : ResetPassword(t, k)
  \/ Tick
  \/ \E k \in Tokens : ExpireToken(k)

Spec == Init /\ [][Next]_vars

-----------------------------------------------------------------------------
(* Properties *)

Stale(s) == granted[s] # role[owner[s]] \/ ~active[owner[s]]

\* Sessions of a user who was demoted, promoted or disabled are ended (PATCH
\* /admin/users/:id): a browser keeps a session with rights its user no longer
\* has only while the eviction runs, or when the session escaped it in one of
\* four ways: its login overlapped an eviction, it was renewed past the index,
\* the index expired while it was being entered, or an eviction died.
StaleSessionEscaped ==
  \A b \in Browsers :
    LET s == cookie[b] IN
    (s # None /\ ttl[s] > 0 /\ Stale(s)) => s \in escaped \/ Evicting(owner[s])

\* The console is never without an active administrator (the refusal of one's
\* own account), unless someone used rights that were already taken away.
SomeAdminRemains ==
  staleActed \/ \E u \in registered : role[u] = "admin" /\ active[u]

\* A reset token sets a password once, unless two requests used it at a time
\* or the one that used it died before it marked the token.
TokenSpentOnce == respent \subseteq racedTokens

\* The console is never without an active administrator, whatever overlaps.
ConsoleIsManned == \E u \in registered : role[u] = "admin" /\ active[u]

\* Sessions end at once when a role changes or an account is disabled: once no
\* eviction runs, no browser has a session with rights its user no longer has.
EvictionIsImmediate ==
  \A b \in Browsers :
    LET s == cookie[b] IN
    (s # None /\ ttl[s] > 0 /\ Stale(s)) => Evicting(owner[s])

\* A reset token is used once.
TokenIsSingleUse == respent = {}
=============================================================================
